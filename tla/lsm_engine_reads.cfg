SPECIFICATION Spec
CONSTANTS
    w1 = w1 w2 = w2 r1 = r1 r2 = r2
    Keys = {1, 2}
    Writers = {w1, w2}
    Readers = {r1}
    Syncs = {FALSE}
    WriteBuffer = 1
    Trigger = 2
    MaxSeq = 5
    MaxFile = 18
    MaxOpens = 1
    MaxCrashes = 0
    MaxFaults = 0
CHECK_DEADLOCK FALSE
SYMMETRY Threads
INVARIANTS LsmInv ReadsSnapshot Level1Disjoint
