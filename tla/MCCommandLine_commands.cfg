\* One repository, and two changes between the commands.
CONSTANTS
    out = out  top = top  sub = sub
    password = password  body = body  fingerprint = fingerprint
    tv = tv  tw = tw
    Empty = Empty
    Nothing = Nothing
    LowerOf <- Lowers
    Parent <- Directories
    Git = {top}
    Files <- AllFiles
    Vault <- Vaults
    Item <- Catalogue
    Name <- References
    Field = {password, body, fingerprint}
    DefaultField = password
    FingerprintField = fingerprint
    Token = {tv, tw}
    Opens <- TokenOpens
    Alnum = {"a", "b", "1", "2", "3", "4", "5"}
    Slash = "/"
    Underscore = "_"
    Held <- AtFirst
    MaxEdits = 2
SPECIFICATION Spec
INVARIANTS TypeOK CleanDoctorRuns WarmAfterRun SuggestsBest
