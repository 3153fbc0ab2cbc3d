SPECIFICATION FairSpec
CONSTANTS
    Queries = {}
    Immediates = {}
    Commits = {c}
    Streams = {s}
    MaxParts = 3
    Portion = 2
    EmitsDone = TRUE
INVARIANTS
    PartsInOrder
    MoreOnlyWhenPaused
PROPERTIES
    EveryCallSettles
    TimerStops
CHECK_DEADLOCK FALSE
