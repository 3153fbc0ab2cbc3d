SPECIFICATION Spec
CONSTANTS
    Null = Null
    h1 = h1
    h2 = h2
    Handle = {h1, h2}
    Schema <- MCSchema
    Instance <- MCInstance
    Rule <- MCRule
    Assignments <- MCAssignments
    Names <- MCNames
    MaxRenames <- MCNoRenames
    MaxInFlight = 1
    Racing = {"setLabel", "delete", "isDeleted"}
INVARIANT
    SubtypesContained
CHECK_DEADLOCK FALSE
