\* Up to two searches under way, with and without checkboxes.
CONSTANTS
    x = x  y = y  z = z  ab = ab  bc = bc  none = none
    labelX = labelX  labelY = labelY  labelZ = labelZ
    Items <- ThreeRows
    Text <- Texts
    NoText = NoText
    LabelOf <- Labels
    Found <- Matches
    Nothing = Nothing
    MaxPending = 2
SPECIFICATION Spec
INVARIANTS TypeOK ChosenAsMarked TabThenEnter
CHECK_DEADLOCK FALSE
