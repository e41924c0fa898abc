SPECIFICATION Spec
CONSTANTS
    Jobs = {j1}
    Workers = {w1, w2}
    Cancellers = {c1, c2}
    Kinds = {"analysis", "unknown"}
    Handled = {"analysis"}
    Priorities = {0}
    Stamps = {1}
    RequestedMax <- MCAnyMax
    QueueMaxAttempts = 3
    NoJob = NoJob
    NoKind = NoKind
SYMMETRY Symmetry
INVARIANTS
    TypeOK
    RecordMatchesRun
    CancelsAreCurrent
    AttemptBudget
    CancelAnswerHolds
    DrainedIsQuiet
PROPERTIES
    TerminalIsFinal
    ImplementsLifecycle
