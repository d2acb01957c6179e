\* Every search and lookup over the bounded inputs builds one URL.
CONSTANTS
    NoArg = NoArg
    id1 = "id1"
    id2 = "id2"
    Queries <- MCQueries
    LimitArgs <- MCLimitArgs
    OffsetArgs <- MCOffsetArgs
    Ids <- MCIds

SPECIFICATION Spec

INVARIANT RequestFaithful

\* A call ends once its URL is built: the final state has no successor.
CHECK_DEADLOCK FALSE
