SPECIFICATION Spec
CONSTANTS
    Jobs = {j1}
    Workers = {w1}
    Cancellers = {c1}
    Kinds = {"analysis"}
    Handled = {"analysis"}
    Priorities = {0}
    Stamps = {1}
    RequestedMax <- MCDefaulted
    QueueMaxAttempts = 3
    NoJob = NoJob
    NoKind = NoKind
INVARIANTS
    CancelStopsTheRun
