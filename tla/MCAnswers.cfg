SPECIFICATION FairSpec
CONSTANTS
    Null = Null
    i1 = i1
    i2 = i2
    Iteration = {i1, i2}
    Operations <- MCOperations
    Results <- MCResults
    Kept <- MCKept
    Satisfying <- MCSatisfying
INVARIANTS
    LostOnlyBehindAStop
    AnswersAreTheServers
PROPERTY
    EveryIterationEnds
CHECK_DEADLOCK FALSE
