SPECIFICATION FairSpec
CONSTANTS
    r1 = r1
    r2 = r2
    p1 = p1
    p2 = p2
    Rows <- TwoRows
    Payloads <- OnePayload
    NoRow = NoRow
    NoVersion = NoVersion
    MaxTxn = 2
    MaxVersion = 2
    MaxTs = 2
    MaxCrashes = 2
    MaxFaults = 0
PROPERTIES
    LockReleased
    CommittingRedone
CHECK_DEADLOCK FALSE
