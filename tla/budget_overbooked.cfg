\* A launcher ends, as it should, while the job it launched is running.
CONSTANTS
    a1 = a1
    a2 = a2
    worker = worker
    p1 = p1
    p2 = p2
    pool = pool
    NoCap = NoCap
    NoProcess = NoProcess
    NoTotal = NoTotal
    Attempts <- MCAttempts
    Ids <- MCIds
    Physical <- MCPhysical
    Processes <- MCProcesses
    Pools <- MCPools
    Caps <- MCCaps
    Reserves <- MCReserves
    MaxUse = 1
    MaxDeaths = 0
SYMMETRY MCSymmetry
SPECIFICATION Spec
\* The system stops when its processes have ended.
CHECK_DEADLOCK FALSE
INVARIANT FinalSliceOnce
