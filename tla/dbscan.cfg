SPECIFICATION MCSpec
CONSTANTS
    EventAt <- ScanEvents
    StartLevId = 5
    Groups <- ScanGroups
    InitialScanDepth = 1
    RefillScanDepth = 2
    SmallProduct = 6
    CreatedLimit = 4
    TagKey <- ScanTagKey
    PubkeyKindKey <- ScanPubkeyKindKey
    MaxPauses = 3
    MaxRemovals = 1
    Bytes = {0, 1, 200}
    MaxLen = 2
    MaxItems = 4
INVARIANTS NewestFirst OutstandingExact SearchExact
PROPERTIES QueryEnds
CHECK_DEADLOCK FALSE
