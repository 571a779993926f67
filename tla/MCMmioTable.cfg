CONSTANTS
    v0 = v0
    v1 = v1
    Nobody = Nobody
    Vcpu = {v0, v1}
    MaxAddr = 3
    MaxSize = 2
    NodeMax = 3
    Default = FALSE
    BarMoves = FALSE
SPECIFICATION Spec
SYMMETRY Symmetric
INVARIANTS DispatchIsComplete 
