SPECIFICATION SpecWithDelete
CONSTANTS
    Conns = {c1}
    SubIds = {s1}
    Evs = {e1, e2}
    Reqs <- OneReq
    MaxSubs = 1
    MaxU64 = 1000
    MaxCount = 9
    MaxReqs = 1
    MaxCloses = 0
    MaxRemovals = 1
    MaxPauses = 0
INVARIANTS NothingMissed
CHECK_DEADLOCK FALSE
