\* A lock while a read is between the backend and the cache.
CONSTANTS
    c1 = c1  c2 = c2  p1 = p1  p2 = p2  dsn = dsn
    password = password  body = body  v1 = v1  v2 = v2
    Conn = {c1, c2}
    Project = {p1, p2}
    Name = {dsn}
    Field = {password, body}
    Vault = {v1, v2}
    Tokens = {v2}
    Empty = Empty
    DefaultField = password
    Nothing = Nothing
    BiometricTTL = 1
    ServiceAccountTTL = 1
    MaxClock = 1
    Stuck = {}
    Requests <- OneProject
SPECIFICATION Spec
INVARIANT LockForgets
