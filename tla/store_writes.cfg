SPECIFICATION FairSpec
CONSTANTS
    Events <- WriteEvents
    Filters <- NoFilters
    EphemeralLifetime = 1
    StartNow = 101
    MaxNow = 102
    MaxCrashes = 1
    MaxBatchSize = 3
    MaxBatches = 2
    MaxModCounter = 1
INVARIANTS OneVersion DeletionsHold NoUnprocessedDeletion
PROPERTIES Implements AcknowledgedAccounted LevIdsAdvance ExpiredRemoved
CHECK_DEADLOCK FALSE
