SPECIFICATION FairSpec
CONSTANTS
    None = None
    t1 = t1
    t2 = t2
    Task <- MCTask
    OperationOf <- MCOperationOf
    Errors <- MCErrors
    Infos <- MCInfos
    NumMembers = 2
    MaxRetries = 1
    MaxSeeks = 2
INVARIANTS
    AttemptsBounded
    FailsOver
    RerunAtLatestPrimary
    NullOnlyAfterOverwrite
    AnyTriesEveryReplica
PROPERTY
    EveryTaskSettles
CHECK_DEADLOCK FALSE
