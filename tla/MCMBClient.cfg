\* Safety of the shared limiter and the retry loop: three racing callers.
\* Deadlock is not checked: Cancel is enabled in every state where a call is
\* in progress, so the only states without a successor are those where every
\* caller has returned from all its calls.
CONSTANTS
    t1 = t1
    t2 = t2
    t3 = t3
    Tasks <- MCTasks3
    NoTask = NoTask
    RateLimitInterval = 2
    InitialBackoff = 2
    MaxRetries = 2
    MaxCalls = 1
SYMMETRY TaskSymmetry
SPECIFICATION Spec
INVARIANT TypeOK
INVARIANT LockConsistent
INVARIANT AttemptBudget
INVARIANT BackoffSchedule
PROPERTY GateSpacing
CHECK_DEADLOCK FALSE
