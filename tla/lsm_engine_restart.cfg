SPECIFICATION LiveSpec
CONSTANTS
    w1 = w1 w2 = w2 r1 = r1 r2 = r2
    Keys = {1}
    Writers = {w1, w2}
    Readers = {}
    Syncs = {TRUE, FALSE}
    WriteBuffer = 1
    Trigger = 2
    MaxSeq = 3
    MaxFile = 18
    MaxOpens = 2
    MaxCrashes = 1
    MaxFaults = 1
CHECK_DEADLOCK FALSE
INVARIANTS LayersOrdered ManifestComplete SequenceCovers SyncedRecoverable
PROPERTIES WritersProceed CloseTerminates
