SPECIFICATION VcpuFairSpec
CONSTANTS
    v1 = v1
    c1 = c1
    NULL = NULL
    Thread = {v1}
    Pcpu = {c1}
    home <- MCHome
    Caller = {k1}
    Kinds = {"extint", "msip0", "msip1", "vclint_set_intr"}
    Faults = {"GP"}
INVARIANTS QueueMatchesStatus NoLostWakeup NoLostSignal HaltedSeesInterrupt ExclusiveWait
PROPERTIES SignalEndsWait
