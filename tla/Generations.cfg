SPECIFICATION MCSpec
CONSTANTS
    u1 = u1
    j1 = j1
    j2 = j2
    j3 = j3
    c1 = c1
    c2 = c2
    Halves = {"jobs", "asking", "replay", "recording", "session", "gate", "console"}
    None = None
    t1 = t1
    t2 = t2
    t3 = t3
    Seeds = {{}, {t1}}
    Users = {u1}
    JobIds = {j1, j2}
    Callers = {c1, c2}
    Capacity <- MCCapacity
    Limit <- MCLimit
    DayLength = 1
    CoolOff = 1
    MaxRuntime = 1
    Retention = 0
    MaxTime = 3
    LastClaim = 1
    Rungs = 3
    MaxAttempts = 2
    PromptTokens = 2
    Answers = {1, 2}
    MaxBatches = 2
    Values = {"like", "skip"}
    Library = {t3}
    MostVotes = 4
    BatchSize = 2
    WarmUp = 1
    TopRanks = 1
    Metrics <- MCMetrics
    Reports <- MCReports
    Floors <- MCFloors
    Tolerance = 1
    Meaningful = 1
    Allowed = 1
    hybrid = hybrid
    popular = popular
    page = page
    host = host
    portable = portable
    MaxRuns = 4
    MaxSessions = 3
    Tabs = {"left", "right"}
    Calls = {1, 2, 3}
    Uses <- MCUses
    People = {"ada", "bob"}
    Admins = {"ada"}
    MaxSignIns = 2
INVARIANTS
    OneActiveJobEach
    LimitHolds
    UsageIsNeverOverstated
    ScoresAreEarnedOnce
    RecordsAreWhole
    SlidesDoNotAddUp
    CallsAreSettled
PROPERTIES
    JobsEnd
CHECK_DEADLOCK FALSE
