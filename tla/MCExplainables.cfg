SPECIFICATION Spec
CONSTANTS
    Null = Null
    i1 = i1
    i2 = i2
    Iteration = {i1}
    Operations <- MCOperations
    Results <- MCResults
    Kept <- MCKept
    Satisfying <- MCSatisfying
INVARIANT
    ExplainableAttributesAreFound
CHECK_DEADLOCK FALSE
