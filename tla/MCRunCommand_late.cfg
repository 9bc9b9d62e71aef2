\* Two clients of one upstream agent around the deadline.
SPECIFICATION FairRunSpec
CONSTANTS
    c1 = c1
    c2 = c2
    kGranted = kGranted
    kOther = kOther
    Conn = {c1, c2}
    Key = {kGranted, kOther}
    Allowed = {kGranted}
    TTL = 1
    Silent = {c2}
    MaxItems = 1
PROPERTIES ForwardsInTime
CHECK_DEADLOCK FALSE
