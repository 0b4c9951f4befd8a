\* Two ownership periods of two records each, and a crash.
CONSTANTS
    p1 = p1
    p2 = p2
    Processes <- MCProcesses
    Tries = 2
    MaxNonces = 2
    MaxRecords = 2
    MaxCrashes = 1
SYMMETRY MCSymmetry
SPECIFICATION Spec
INVARIANTS
    RunDirInv
    AcksFenced
