CONSTANTS
    w1 = w1
    w2 = w2
    Worker = {w1, w2}
    Req <- MCReq
    Slots = 2
    Offset <- MCOffset
    MaxReq = 4
    Patient = TRUE
    QuietReset = TRUE
    NULL = NULL
    Kind <- MCKind
SPECIFICATION FairSpec
INVARIANTS PendingIsServed NoIoBehindGuest
PROPERTIES DeviceAnswers
CHECK_DEADLOCK FALSE
