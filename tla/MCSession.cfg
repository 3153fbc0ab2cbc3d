SPECIFICATION FairSpec
CONSTANTS
    x1 = x1
    x2 = x2
    t1 = t1
    t2 = t2
    t3 = t3
    Session = {x1, x2}
    Transaction <- MCTransaction
    SessionOf <- MCSessionOf
INVARIANTS
    KeptAlive
    TableAgrees
    OnlyLateSessionsSurvive
    OnlyLateSessionsThrow
    OnlyLateTransactionsSurvive
    NoStreamLeft
PROPERTIES
    PulseStops
    SilentOnceClientClosed
CHECK_DEADLOCK FALSE
