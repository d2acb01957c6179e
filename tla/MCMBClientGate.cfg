\* The client model implements the abstract gate: two callers making two
\* calls each, so that a caller re-enters the gate after a retry and after
\* a finished call.  Deadlock is not checked, as in MCMBClient.cfg.
CONSTANTS
    t1 = t1
    t2 = t2
    t3 = t3
    Tasks <- MCTasks2
    NoTask = NoTask
    RateLimitInterval = 2
    InitialBackoff = 1
    MaxRetries = 2
    MaxCalls = 2
SPECIFICATION Spec
PROPERTY GateRefinement
CHECK_DEADLOCK FALSE
