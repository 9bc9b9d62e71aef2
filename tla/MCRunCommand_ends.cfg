\* One key is granted and another is not; one client need not read its answers.
SPECIFICATION FairRunSpec
CONSTANTS
    c1 = c1
    c2 = c2
    kGranted = kGranted
    kOther = kOther
    Conn = {c1, c2}
    Key = {kGranted, kOther}
    Allowed = {kGranted}
    TTL = 2
    Silent = {c2}
    MaxItems = 2
INVARIANTS RunTypeOK OnlyAllowed AllOrNothing NothingLeft
PROPERTIES Implements Answered GrantEnds RunEnds
CHECK_DEADLOCK FALSE
