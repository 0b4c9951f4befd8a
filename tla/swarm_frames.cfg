\* Four messages of one worker, repeated, delayed and unanswered.
CONSTANTS
    build = build
    w1 = w1
    report = report
    m1 = m1
    m2 = m2
    m3 = m3
    m4 = m4
    MaxTime = 1
    NoWorker = NoWorker
    Tasks <- MCTasks
    DependsOn <- MCDependsOn
    Workers <- MCWorkers
    Artifacts <- MCArtifacts
    WorkspaceTasks <- MCTasks
    MessageIds <- MCMessages
    Clock <- MCClock
    MaxAttempts = 2
    MaxLease = 1
    MaxRenewals = 1
    Skew = 0
SYMMETRY MCSymmetry
SPECIFICATION FramesSpec
INVARIANTS
    ExactlyOnce
    AnswersHold
