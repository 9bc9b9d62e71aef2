\* Two clients that spawn; anything may crash or be late.
CONSTANTS
    c1 = c1  c2 = c2  c3 = c3  d1 = d1  d2 = d2  d3 = d3
    Client = {c1, c2}
    Spawner = {c1, c2}
    Proc = {d1, d2, d3}
    Absent = Absent
    Stale = Stale
    NoProc = NoProc
    Healthy = FALSE
SPECIFICATION FairSpec
INVARIANTS TypeOK OneDaemonHoldsSocket OneCache
PROPERTIES DialEnds Implements
