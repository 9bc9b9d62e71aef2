\* Two clients find the same stale socket file.
CONSTANTS
    c1 = c1  c2 = c2  c3 = c3  d1 = d1  d2 = d2  d3 = d3
    Client = {c1, c2}
    Spawner = {c1, c2}
    Proc = {d1, d2}
    Absent = Absent
    Stale = Stale
    NoProc = NoProc
    Healthy = TRUE
SPECIFICATION Spec
INVARIANT RecoveryReliable
