SPECIFICATION MCSpec
CONSTANTS
    t1 = t1
    k1 = k1
    k2 = k2
    i1 = i1
    i2 = i2
    Titles = {t1}
    Cards = {k1, k2}
    TitleOf <- MCTitleOf
    Items = {i1, i2}
    CardLifetime = 0
    CardRetention = 1
    ReceiptRetention = 1
    QueueLife = 1
    Drift = 1
    MaxTime = 2
    Seen = {"a", "b", "c"}
    RewriteIds = {"r", "s"}
    Callers = {"one", "two"}
    Refresh = 2
    MinVotes = 1
    None = None
    MaxEarned = 3
    MaxCut = 1
    Users = {"ann", "bob"}
    Films = {"film"}
    Uploads = {"x", "y"}
    MaxConcurrent = 1
    MaxRows = 3
    MaxItems = 2
    Inflated = 4
    MaxMembers = 3
    MaxFailed = 2
    Confident = 85
    PerTitle = 3
    MaxFailures = 3
SYMMETRY Symmetry
INVARIANTS
    NewestSwipeWins
    NoVoteIsTurnedAway
    RewritesAreEarned
    UploadsAreUnderstood
PROPERTIES
    StoredOnce
CHECK_DEADLOCK FALSE
