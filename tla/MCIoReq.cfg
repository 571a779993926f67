CONSTANTS
    v0 = v0
    v1 = v1
    a1 = a1
    a2 = a2
    Nobody = Nobody
    Vcpu = {v0, v1}
    Bsp = v0
    Addr = {a1, a2}
    driver <- MCdriver
SPECIFICATION FairSpec
INVARIANTS AnswerIsForRequest GuestRunsWithFreeSlot
PROPERTIES  RequestEnds
