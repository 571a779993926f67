CONSTANTS
    v0 = v0
    v1 = v1
    a1 = a1
    a2 = a2
    f1 = f1
    f2 = f2
    Nobody = Nobody
    Vcpu = {v0, v1}
    Doorbell = {a1, a2}
    Fd = {f1, f2}
    rings <- MCrings
    assigned <- MCassigned
    DescMax = 2
    EleNum = 3
SPECIFICATION AioFairSpec
INVARIANTS EventIsAnnounced
PROPERTIES ImplementsFifo RoomIsFound
