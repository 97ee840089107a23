SPECIFICATION Spec
CONSTANTS
    r1 = r1
    r2 = r2
    p1 = p1
    p2 = p2
    Rows <- TwoRows
    Payloads <- TwoPayloads
    NoRow = NoRow
    NoVersion = NoVersion
    MaxTxn = 3
    MaxVersion = 3
    MaxTs = 3
    MaxCrashes = 2
    MaxFaults = 0
SYMMETRY Symmetry
INVARIANTS
    TypeOK
    LifetimesDisjoint
    AbortedNeverStamped
    OnlyLiveTxnsUnfinished
    ProtocolInv
    LifetimeInv
PROPERTIES
    ImplementsSnapshotIsolation
CHECK_DEADLOCK FALSE
