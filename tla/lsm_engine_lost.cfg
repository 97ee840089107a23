SPECIFICATION Spec
CONSTANTS
    w1 = w1 w2 = w2 r1 = r1 r2 = r2
    Keys = {1}
    Writers = {w1}
    Readers = {}
    Syncs = {TRUE}
    WriteBuffer = 2
    Trigger = 2
    MaxSeq = 1
    MaxFile = 18
    MaxOpens = 3
    MaxCrashes = 0
    MaxFaults = 0
CHECK_DEADLOCK FALSE
INVARIANTS SyncedServed
