CONSTANTS
    tick_timer = tick_timer
    g1 = g1
    g2 = g2
    c1 = c1
    c2 = c2
    NULL = NULL
    Pcpu = {c1}
    Timer = {tick_timer, g1}
    writer <- MClocal
    period <- MCperiod
    MinPeriod = 1
    MaxActions = 4
    Wrap = 64
    MaxTime = 4
    Disabled = 8
SPECIFICATION FairSpec
INVARIANTS ListsSorted TimerArmed
PROPERTIES PeriodicStays ExpiresUnlessErased
