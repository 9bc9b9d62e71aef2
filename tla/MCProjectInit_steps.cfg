CONSTANTS
    a = a  b = b  dsn = dsn  key = key
    Item = {a, b}
    Title = {dsn, key}
    TitleOf <- Titled
    ItemList <- AThenB
    Source = Source
    Pick = Pick
    NoFile = NoFile
    Broken = Broken
    MaxVaults = 2
    MaxCopies = 1
    Inputs <- Commands
SPECIFICATION Spec
INVARIANTS TypeOK OriginalsStay FileTells WizardLoads
PROPERTIES NeverOverwrites
