SPECIFICATION Spec
CONSTANTS
    Queries = {q}
    Immediates = {}
    Commits = {c}
    Streams = {s}
    MaxParts = 1
    Portion = 1
    EmitsDone = TRUE
INVARIANTS
    NoUncaught
    NobodyStranded
    ClosedOnce
    FirstCauseReported
    CommitIsLast
PROPERTY
    ImplementsTransactionCalls
CHECK_DEADLOCK FALSE
