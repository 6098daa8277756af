SPECIFICATION Spec
\* Within a clock of two ticks an app's session ends and is purged, its tokens
\* are cut short by its end, and a web session outlives its last request.
CONSTANTS
    Users = {u1}
    SessionIds = {s1, s2}
    TokenIds = {t1, t2, t3}
    Clients = {c1, c2}
    MobileLifetime = 1
    WebLifetime = 2
    MobileIdle = 1
    WebIdle = 2
    RefreshLifetime = 2
    SeenInterval = 1
    PurgeAge = 0
    MaxTime = 2
SYMMETRY Symmetry
INVARIANTS
    OneUnspentToken
    NoFalseReuse
PROPERTIES
    RevocationIsFinal
CHECK_DEADLOCK FALSE
