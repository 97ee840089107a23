SPECIFICATION FairSpec
CONSTANTS
    s1 = s1
    s2 = s2
    id = id
    a = a
    b = b
    Sessions <- TwoSessions
    Pks <- TwoPks
    Id = id
    Cols <- TwoCols
    TypeOf <- OneType
    MaxVid = 4
    MaxTs = 4
    MaxTxn = 2
    MaxDdl = 3
    MaxCrashes = 1
    MaxFaults = 1
INVARIANTS
    GateExact
    CacheCoherent
    RowsMatchSchema
    RowsServed
    OneChangeIsCaught
    CountersAhead
PROPERTIES
    DdlEnds
CHECK_DEADLOCK FALSE
