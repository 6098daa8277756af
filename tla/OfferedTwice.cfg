SPECIFICATION MCSpec
CONSTANTS
    phone = phone
    sweep = sweep
    Halves = {"titles"}
    None = None
    Devices = {phone}
    Sweeps = {sweep}
    BatchIds <- MCBatchIds
    Filters = {"both", "movie"}
    LowWater = 2
    CardLifetime = 1
    CardRetention = 2
    FailureCoolOff = 1
    ExhaustedCoolOff = 1
    MaxPaid = 2
    Deals <- MCDeals
    MaxOverran = 1
    MaxVotes = 1
    MaxTime = 3
    Offers = {t1}
    CoolDown = 2
    Days = 3
    Deals2 = 2
    PoolSize = 3
    MaxSeeds = 2
    SeedDepth = 1
    Recent = 1
    Sizes = {1, 2, 3}
    MaxAnswer = 3
    Visits = {1, 2}
    TabCards = {d1, d2}
    MaxVerdicts = 2
PROPERTY AnsweredStaysAnswered
CHECK_DEADLOCK FALSE
