\* Two attempts, one of them under a key of its own; a pool and two more processes.
CONSTANTS
    a1 = a1
    a2 = a2
    worker = worker
    p1 = p1
    p2 = p2
    pool = pool
    NoCap = NoCap
    NoProcess = NoProcess
    NoTotal = NoTotal
    Attempts <- MCAttempts
    Ids <- MCIds
    Physical <- MCPhysical
    Processes <- MCProcesses
    Pools <- MCPools
    Caps <- MCCaps
    Reserves <- MCReserves
    MaxUse = 1
    MaxDeaths = 1
SYMMETRY MCSymmetry
SPECIFICATION Spec
\* The system stops when its processes have ended.
CHECK_DEADLOCK FALSE
INVARIANTS
    BudgetInv
    NoOverbooking
    
PROPERTIES
    HoldStands
    ExhaustionIsFinal
