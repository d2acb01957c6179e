\* The client model implements the abstract retry policy: two callers
\* making two calls each with a budget of two retries, so that requests
\* give up, finish after retries and are cancelled while the other caller
\* holds the limiter.  Deadlock is not checked, as in MCMBClient.cfg.
CONSTANTS
    t1 = t1
    t2 = t2
    t3 = t3
    Tasks <- MCTasks2
    NoTask = NoTask
    RateLimitInterval = 2
    InitialBackoff = 1
    MaxRetries = 2
    MaxCalls = 2
SPECIFICATION Spec
PROPERTY RetryRefinement
CHECK_DEADLOCK FALSE
