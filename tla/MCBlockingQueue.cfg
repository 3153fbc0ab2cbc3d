SPECIFICATION Spec
CONSTANTS
    Element = {a, b}
    Pending = Pending
    MaxAdds = 4
    MaxTakes = 4
INVARIANTS
    KthTakeGetsKthElement
PROPERTY
    ImplementsFifoQueue
CHECK_DEADLOCK FALSE
