SPECIFICATION MCSpec
CONSTANTS
    near = near
    far = far
    MaxHandles = 3
    Callers = {near, far}
    Household = {near}
    Flows = {1, 2}
    Offered <- MCOffered
    Lifetime <- MCLifetime
    MaxPerClient = 2
    MaxTotal = 2
    HandlesEnd = 1
    Window = 2
    MaxKeys = 2
    UserNames = {"ann", "bob", "eve"}
    Addresses = {near}
    Attempts = {1, 2}
    PerName = 1
    Threshold = 1
    MaxPause = 2
    MaxWaiting = 1
    Horizon = 3
INVARIANTS
    CapsHold
    LeakIsBounded

    
CHECK_DEADLOCK FALSE
