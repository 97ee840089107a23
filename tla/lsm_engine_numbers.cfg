SPECIFICATION Spec
CONSTANTS
    w1 = w1 w2 = w2 r1 = r1 r2 = r2
    Keys = {1}
    Writers = {w1}
    Readers = {}
    Syncs = {FALSE}
    WriteBuffer = 1
    Trigger = 2
    MaxSeq = 5
    MaxFile = 18
    MaxOpens = 2
    MaxCrashes = 0
    MaxFaults = 0
CHECK_DEADLOCK FALSE
INVARIANTS LiveFilesComplete
