\* Three clients and a timeout of two ticks.
CONSTANTS
    c1 = c1  c2 = c2  c3 = c3
    Conn = {c1, c2, c3}
    IdleTimeout = 2
    None = None
SPECIFICATION FairSpec
CHECK_DEADLOCK FALSE
INVARIANTS TypeOK IdleExitAfterQuiet
PROPERTIES Admitted QuietDaemonExits
