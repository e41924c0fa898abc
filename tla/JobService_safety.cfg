SPECIFICATION ServiceSpec
CONSTANTS
    Jobs = {j1, j2}
    Workers = {w1, w2}
    Cancellers = {c1}
    Kinds = {"analysis"}
    Handled = {"analysis", "always-fail"}
    Priorities = {0}
    Stamps = {1}
    RequestedMax <- MCOnce
    QueueMaxAttempts = 2
    NoJob = NoJob
    NoKind = NoKind
    Capacity = 2
    AnalysisTicks = 1
SYMMETRY Symmetry
VIEW WithoutEndings
INVARIANTS
    SlotsAreAccountedFor
    ActiveNodeNeverRefuses
    DrainingMeansOccupied
    CleanExit
\* Once every job is settled and every worker has exited nothing is left to do.
CHECK_DEADLOCK FALSE
