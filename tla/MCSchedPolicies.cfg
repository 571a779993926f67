CONSTANTS
    v1 = v1
    v2 = v2
    v3 = v3
    c1 = c1
    c2 = c2
    NULL = NULL
    Thread <- MCThread
    Pcpu = {c1}
    OtherPcpu = {c2}
    home <- MChome
    Scheduler = {"iorr", "bvt", "prio", "noop"}
    assigned <- MCassigned
    Slice = 2
    MaxElapsed = 3
    MaxDebt = 3
    vt_ratio <- MCvt_ratio
    Mcu = 2
    Csa = 1
    MaxVt = 3
    priority <- MCpriority
SPECIFICATION FairSpec
INVARIANTS SliceEnforced TurnIsBounded HighestRuns
PROPERTIES RefinesThreadSched QueuedRuns SleepSettles
