SPECIFICATION Spec
CONSTANTS
    Null = Null
    h1 = h1
    h2 = h2
    Handle = {h1, h2}
    Schema <- MCSchema
    Instance <- MCInstance
    Rule <- MCRule
    Assignments <- MCAssignments
    Names <- MCNames
    MaxRenames <- MCMaxRenames
    MaxInFlight = 2
    Racing = {"setLabel", "delete", "isDeleted"}
INVARIANTS
    LabelFollowsOwnRenames
    ReachesWhatItMeant
    AnswersAreDeclared
    DeletedAsAnswered
CHECK_DEADLOCK FALSE
