SPECIFICATION Spec
CONSTANTS
    Conns = {c1}
    SubIds = {s1, s2, s3}
    Events <- SomeEvents
    Groups <- SomeGroups
    MaxSubs = 2
    MaxLevId = 2
INVARIANTS LookupsExact TrackerExact NotifiesExactly
