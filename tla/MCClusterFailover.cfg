SPECIFICATION Spec
CONSTANTS
    None = None
    t1 = t1
    t2 = t2
    Task <- MCTask
    OperationOf <- MCMixed
    Errors <- MCErrors
    Infos <- MCInfosElection
    NumMembers = 1
    MaxRetries = 1
    MaxSeeks = 1
INVARIANTS
    LeakOnlyByOverlap
    ClosedOnlyByOthers
    RefusedOnlyWhenReplaced
    ReopenedOnlyByPending
CHECK_DEADLOCK FALSE
