SPECIFICATION Spec
CONSTANTS
    Conns = {c1}
    SubIds = {s1}
    Evs = {e1, e2}
    Reqs <- MixedReqs
    MaxSubs = 1
    MaxU64 = 1000
    MaxCount = 1
    MaxReqs = 1
    MaxCloses = 0
    MaxRemovals = 1
    MaxPauses = 2
SYMMETRY EvSymmetry
INVARIANTS SentOnce EoseSplits NothingMissed CountExact
CHECK_DEADLOCK FALSE
