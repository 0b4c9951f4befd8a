\* Two workers; a task with a workspace delivery and one that waits for it; two
\* claims in all, the first of which may be renewed.
CONSTANTS
    build = build
    review = review
    w1 = w1
    w2 = w2
    report = report
    MaxTime = 1
    NoWorker = NoWorker
    Tasks <- MCTasks
    DependsOn <- MCDependsOn
    Workers <- MCWorkers
    Artifacts <- MCArtifacts
    WorkspaceTasks <- MCWorkspaceTasks
    Clock <- MCClock
    MaxAttempts = 2
    MaxLease = 1
    MaxRenewals = 1
SYMMETRY MCSymmetry
CONSTRAINT MCTwoClaims
SPECIFICATION Spec
INVARIANTS
    Inv
    OneActiveAttempt
    NoSilentRespend
    DependenciesHold
    EveryTaskCanMove
    CancellationHonoured
    RecordsAgree
    ClosedIsSettled
PROPERTIES
    LedgerSpec
    OutcomeFinal
    
