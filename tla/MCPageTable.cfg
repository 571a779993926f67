CONSTANTS
    Arch = "x86"
    Ptrs = 2
    PoolPages = 20
    Region <- MCRegion
    Shift <- MCShift
    ForceIpage = TRUE
    Fetch <- MCFetch
    MaxOps = 4
    Quiet = TRUE
    Unmapped = Unmapped
SPECIFICATION Spec
INVARIANTS TablesAreOwned NoLargeExec
PROPERTIES ImplementsMap
CHECK_DEADLOCK FALSE
