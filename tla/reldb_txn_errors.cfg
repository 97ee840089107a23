SPECIFICATION Spec
CONSTANTS
    r1 = r1
    r2 = r2
    p1 = p1
    p2 = p2
    Rows <- TwoRows
    Payloads <- OnePayload
    NoRow = NoRow
    NoVersion = NoVersion
    MaxTxn = 3
    MaxVersion = 3
    MaxTs = 3
    MaxCrashes = 0
    MaxFaults = 1
SYMMETRY Symmetry
INVARIANTS
    ReadsNeverCorrupt

    
CHECK_DEADLOCK FALSE
