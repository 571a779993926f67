SPECIFICATION VcpuSpec
CONSTANTS
    v1 = v1
    c1 = c1
    NULL = NULL
    Thread = {v1}
    Pcpu = {c1}
    home <- MCHome
    Caller = {k1}
    Kinds = {"vclint_set_intr"}
    Faults = {"GP"}
INVARIANTS
    InjectHasVector
