SPECIFICATION Spec
CONSTANTS
    eph = eph
    del = del
    noid = noid
    prot = prot
    Conns <- BothConns
    c1 = c1
    c2 = c2
    Events <- AllSorts
    NoId <- SetNoId
    Invalid <- SetNoId
    Protected <- SetProt
    Ephemeral <- SetEph
    Beats <- MCBeats
    Rank <- MCRank
    StartDbs <- Empty
    MaxMsgs = 2
    MaxTroubles = 1
INVARIANTS AnsweredOnce OkTruthful
PROPERTIES EveryEventAnswered
CHECK_DEADLOCK FALSE
