SPECIFICATION WatchSpec
CONSTANTS
    Jobs = {j1}
    Workers = {w1}
    Cancellers = {c1}
    Kinds = {"analysis", "always-fail", "other"}
    Handled = {"analysis", "always-fail"}
    Priorities = {0}
    Stamps = {1}
    RequestedMax <- MCDefaulted
    QueueMaxAttempts = 2
    NoJob = NoJob
    NoKind = NoKind
    Capacity = 1
    Watchers = {v1}
    AnalysisTicks = 1
INVARIANTS
    WatchVerdict
PROPERTIES
    WatchEnds
    ServerExits
    DrainFinishes
    ServiceSettles
\* Once every job is settled and every worker has exited nothing is left to do.
CHECK_DEADLOCK FALSE
