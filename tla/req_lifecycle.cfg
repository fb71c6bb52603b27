SPECIFICATION FairSpec
CONSTANTS
    Conns = {c1}
    SubIds = {s1, s2}
    Evs = {e1}
    Reqs <- OneReq
    MaxSubs = 1
    MaxU64 = 1000
    MaxCount = 9
    MaxReqs = 2
    MaxCloses = 1
    MaxRemovals = 0
    MaxPauses = 2
INVARIANTS NoZombies
PROPERTIES EveryReqAnswered EventuallyDelivered
CHECK_DEADLOCK FALSE
