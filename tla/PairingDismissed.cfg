SPECIFICATION Spec
CONSTANTS
    Nothing = Nothing
    Users = {u1}
    PairingIds = {p1, p2}
    Phones = {q1, q2}
    SessionIds = {s1, s2}
    Clients = {c1}
    Lifetime = 1
    MaxOpen = 1
    PurgeAge = 1
    MaxTime = 2
SYMMETRY Symmetry
INVARIANTS
    DismissedForGood
CHECK_DEADLOCK FALSE
