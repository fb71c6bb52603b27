SPECIFICATION SpecWithDelete
CONSTANTS
    Events <- TreeEvents
    Filters <- TreeFilters
    EphemeralLifetime = 1
    StartNow = 101
    MaxNow = 102
    MaxCrashes = 1
    MaxBatchSize = 2
    MaxBatches = 2
    MaxModCounter = 4
INVARIANTS TreesExact
CHECK_DEADLOCK FALSE
