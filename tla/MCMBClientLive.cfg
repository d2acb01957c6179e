\* Liveness: every logical request returns, two callers, two calls each (MaxCalls = 2).
CONSTANTS
    t1 = t1
    t2 = t2
    t3 = t3
    Tasks <- MCTasks2
    NoTask = NoTask
    RateLimitInterval = 2
    InitialBackoff = 2
    MaxRetries = 2
    MaxCalls = 2
SPECIFICATION FairSpec
PROPERTY RequestCompletes
CHECK_DEADLOCK FALSE
