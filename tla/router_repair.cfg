SPECIFICATION Spec
CONSTANTS
    u = u
    v = v
    k = k
    l = l
    Groups = {1, 2}
    Urls <- TwoUrls
    Configs <- SomeConfigs
    StartConfigs <- FirstConfigs
    Kinds <- TwoKinds
    UpRefused <- OneRefused
    MaxSockets = 3
    MaxEdits = 2
    MaxFailures = 1
    MaxEvents = 2
INVARIANT FilterInForce
CHECK_DEADLOCK FALSE
