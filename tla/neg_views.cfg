SPECIFICATION Spec
CONSTANTS
    Conns = {1}
    SubIds = {"a", "b"}
    MemFilters <- NegFilters
    CreatedAt <- Times
    StartDb = {1, 2}
    MaxSubsPerConn = 1
    MaxSyncEvents = 2
    MaxLevId = 3
    MaxMsgs = 3
    MaxPauses = 2
    MaxRemovals = 1
INVARIANTS QueryOwnsView
PROPERTIES SealedExact EveryOpenAnswered
CHECK_DEADLOCK FALSE
