SPECIFICATION Spec
CONSTANTS
    Request = {r1, r2}
    MaxRequests = 4
INVARIANTS
    Conservation
    NothingStranded
PROPERTY
    EverythingWritten
CHECK_DEADLOCK FALSE
