SPECIFICATION Spec
CONSTANTS
    Jobs = {j1, j2}
    Workers = {w1, w2}
    Cancellers = {}
    Kinds = {"analysis"}
    Handled = {"analysis"}
    Priorities = {0}
    Stamps = {1}
    RequestedMax <- MCDefaulted
    QueueMaxAttempts = 2
    NoJob = NoJob
    NoKind = NoKind
INVARIANTS
    OneRunPerJob
    NoLostWakeup
PROPERTIES
    EveryJobSettles
    ShutdownCompletes
\* Once every job is settled and every worker has exited nothing is left to do.
CHECK_DEADLOCK FALSE
