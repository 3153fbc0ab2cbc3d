SPECIFICATION Spec
CONSTANTS
    None = None
    t1 = t1
    t2 = t2
    Task <- MCOneTask
    OperationOf <- MCAny
    Errors <- MCErrors
    Infos <- MCInfos
    NumMembers = 1
    MaxRetries = 1
    MaxSeeks = 1
INVARIANT
    EveryServerTried
CHECK_DEADLOCK FALSE
