SPECIFICATION FairSpec
CONSTANTS
    a = a
    b = b
    c = c
    x = x
    bad = bad
    old = old
    Events <- AllEvents
    Null = Null
    Invalid <- OneInvalid
    Losing <- OneLosing
    Blocked <- OneBlocked
    OthersTouch <- OneByOthers
    Inputs <- SomeInputs
    Scripts <- SomeScripts
    Offered <- TwoOffered
    Cmds <- SomeCmds
    Paths <- OnePath
    Actions = {"accept", "reject"}
    MaxTroubles = 1
    MaxDeliveries = 2
    MaxFailures = 1
    WriteBatchSize = 2
    HighWaterUp = 2
    LowWaterUp = 1
    BatchSizeDown = 2
INVARIANTS FlushedMeansStored WindowsExact SyncComplete DecisionFresh
PROPERTIES CommandEnds NoEcho ChangesForwarded ErrorsJustified
CHECK_DEADLOCK FALSE
