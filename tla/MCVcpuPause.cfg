SPECIFICATION VcpuFairSpec
CONSTANTS
    v1 = v1
    c1 = c1
    NULL = NULL
    Thread = {v1, v2}
    Pcpu = {c1}
    home <- MCHome
    Caller = {k1, k2}
    Kinds = {"pause"}
    Faults = {}
INVARIANTS  SleeperIsRegistered SchedInv
PROPERTIES PauseCompletes
