-------------------------- MODULE MmioTableProofs --------------------------
(***************************************************************************)
(* Proofs about MmioTable: for any number of vCPUs, entries and addresses, *)
(* an access is dispatched by the ranges it touches and the table keeps    *)
(* the entry of a handler that runs.                                       *)
(***************************************************************************)
EXTENDS MmioTable, WellFoundedInduction, TLAPS

Type ==
    /\ emul_mmio \in [Index -> Node]
    /\ nr_emul_mmio_regions \in Index
    /\ running \in [Vcpu -> Index \cup {ENODEV}]

(* An entry in use has a range that is not empty, which tells it from a    *)
(* free one, and is not behind the last one that the walk looks at.        *)
UsedInv ==
    \A i \in Index : emul_mmio[i].set =>
        emul_mmio[i].range_start < emul_mmio[i].range_end /\ i <= nr_emul_mmio_regions

TableInv == Type /\ UsedInv

(* A handler runs from an entry in use, and with the lock if the entry     *)
(* says so.                                                                *)
HandlerInv ==
    \A v \in Vcpu : running[v] # ENODEV =>
        emul_mmio[running[v]].set /\ (emul_mmio[running[v]].hold_lock => emul_mmio_lock = v)

-----------------------------------------------------------------------------
(* A set of entries that is not empty has a first one, where the walk of   *)
(* hv_emulate_mmio ends.                                                   *)
LEMMA First ==
    ASSUME NEW S \in SUBSET Nat, S # {}
    PROVE  \E i \in S : \A j \in S : i <= j
<1> DEFINE less == OpToRel(<, Nat)
<1>1. PICK i \in S : \A j \in S : <<j, i>> \notin less
    BY NatLessThanWellFounded, WFMin
<1>2. \A j \in S : ~(j < i)
    BY <1>1 DEF OpToRel
<1> QED BY <1>2

(* The comparison of the walk finds the entries whose range has a byte of  *)
(* the access.                                                             *)
LEMMA OverlapIsCommonByte ==
    ASSUME NEW a \in Nat, NEW n \in Nat \ {0}, NEW s \in Nat, NEW e \in Nat, s < e
    PROVE  ~(a + n <= s \/ a >= e) <=> (a..a + n - 1) \cap (s..e - 1) # {}
<1>1. ASSUME ~(a + n <= s \/ a >= e) PROVE (a..a + n - 1) \cap (s..e - 1) # {}
    <2>1. CASE a >= s
        <3>1. a \in (a..a + n - 1) \cap (s..e - 1)
            BY <1>1, <2>1
        <3> QED BY <3>1
    <2>2. CASE a < s
        <3>1. s \in (a..a + n - 1) \cap (s..e - 1)
            BY <1>1, <2>2
        <3> QED BY <3>1
    <2> QED BY <2>1, <2>2
<1>2. ASSUME NEW x \in (a..a + n - 1) \cap (s..e - 1) PROVE ~(a + n <= s \/ a >= e)
    BY <1>2
<1> QED BY <1>1, <1>2

(* The handler that hv_emulate_mmio calls belongs to the first entry that  *)
(* the access touches, one in use.                                         *)
LEMMA LookupFindsUsed ==
    ASSUME Type, NEW a \in Address, NEW n \in Size, lookup(a, n) \in Index
    PROVE  emul_mmio[lookup(a, n)].set
<1> DEFINE hits == {i \in 0..nr_emul_mmio_regions : overlaps(i, a, n)}
           first == CHOOSE i \in hits : \A j \in hits : i <= j
<1>1. lookup(a, n) = IF hits = {} THEN IF Default THEN DEFAULT ELSE ENODEV
                     ELSE IF covers(first, a, n) THEN first ELSE EIO
    BY DEF lookup
<1>2. ENODEV \notin Index /\ DEFAULT \notin Index /\ EIO \notin Index
    BY BoundsType DEF ENODEV, DEFAULT, EIO, Index
<1>3. hits # {} /\ lookup(a, n) = first
    BY <1>1, <1>2
<1>4. hits \in SUBSET Nat
    BY BoundsType DEF Type, Index
<1>5. first \in hits
    <2> HIDE DEF hits
    <2>1. \E i \in hits : \A j \in hits : i <= j
        BY <1>3, <1>4, First
    <2> QED BY <2>1
<1> HIDE DEF first
<1> QED BY <1>3, <1>5 DEF overlaps

-----------------------------------------------------------------------------
(* The table is empty after create_vm.                                     *)
LEMMA TableInit == Init => TableInv /\ HandlerInv
BY BoundsType DEF Init, TableInv, Type, UsedInv, HandlerInv, Index, Node, Zeroed, ENODEV

(* Registering, unregistering and dispatching keep the table in order.     *)
LEMMA TableStep == TableInv /\ [Next]_vars => TableInv'
<1> SUFFICES ASSUME TableInv, [Next]_vars PROVE TableInv'
    OBVIOUS
<1>0. Type /\ UsedInv
    BY DEF TableInv
<1>1. ASSUME NEW start \in 0..MaxAddr, NEW end \in 0..MaxAddr, NEW hold \in BOOLEAN,
             register_mmio_emulation_handler(start, end, hold)
      PROVE  TableInv'
    <2> DEFINE node == [range_start |-> start, range_end |-> end, hold_lock |-> hold, set |-> TRUE]
    <2>1. PICK i \in Index : emul_mmio' = [emul_mmio EXCEPT ![i] = node] /\ find_free_mmio_node(i)
        BY <1>1 DEF register_mmio_emulation_handler
    <2>2. end > start /\ UNCHANGED running
        BY <1>1 DEF register_mmio_emulation_handler
    <2>3. node \in Node
        BY DEF Node
    <2>4. nr_emul_mmio_regions' \in Index /\ i <= nr_emul_mmio_regions'
          /\ nr_emul_mmio_regions <= nr_emul_mmio_regions'
        BY <1>0, <2>1, BoundsType DEF find_free_mmio_node, Type, Index
    <2>5. Type'
        BY <1>0, <2>1, <2>2, <2>3, <2>4 DEF Type
    <2>6. ASSUME NEW j \in Index, emul_mmio'[j].set
          PROVE  emul_mmio'[j].range_start < emul_mmio'[j].range_end /\ j <= nr_emul_mmio_regions'
        <3>1. CASE j = i
            BY <1>0, <2>1, <2>2, <2>4, <3>1 DEF Type
        <3>2. CASE j # i
            <4>1. emul_mmio'[j] = emul_mmio[j]
                BY <1>0, <2>1, <3>2 DEF Type
            <4>2. emul_mmio[j].range_start < emul_mmio[j].range_end /\ j <= nr_emul_mmio_regions
                BY <1>0, <2>6, <4>1 DEF UsedInv
            <4> QED BY <1>0, <2>4, <4>1, <4>2, BoundsType DEF Type, Index
        <3> QED BY <3>1, <3>2
    <2> QED BY <2>5, <2>6 DEF TableInv, UsedInv
<1>2. Zeroed \in Node /\ Zeroed.set = FALSE
    BY BoundsType DEF Zeroed, Node
<1>3. ASSUME NEW start \in 0..MaxAddr, NEW end \in 0..MaxAddr,
             unregister_mmio_emulation_handler(start, end)
      PROVE  TableInv'
    <2>1. PICK i \in Index : emul_mmio' = [emul_mmio EXCEPT ![i] = Zeroed]
        BY <1>3 DEF unregister_mmio_emulation_handler
    <2> QED BY <1>0, <1>2, <1>3, <2>1 DEF unregister_mmio_emulation_handler, TableInv, Type, UsedInv
<1>4. CASE deinit_emul_io
    BY <1>0, <1>2, <1>4 DEF deinit_emul_io, TableInv, Type, UsedInv
<1>5. ASSUME NEW v \in Vcpu, NEW a \in Address, NEW n \in Size, hv_emulate_mmio(v, a, n) PROVE TableInv'
    BY <1>0, <1>5 DEF hv_emulate_mmio, TableInv, Type, UsedInv
<1>6. ASSUME NEW v \in Vcpu, handler_returns(v) PROVE TableInv'
    BY <1>0, <1>6 DEF handler_returns, TableInv, Type, UsedInv
<1>7. CASE UNCHANGED vars
    BY <1>0, <1>7 DEF vars, TableInv, Type, UsedInv
<1> QED BY <1>1, <1>3, <1>4, <1>5, <1>6, <1>7 DEF Next

(* The invariant is inductive.                                             *)
THEOREM TableConsistent == Spec => []TableInv
BY TableInit, TableStep, PTL DEF Spec

(* Whatever has been registered and unregistered, an access goes to the    *)
(* Service VM exactly when it touches no range of the table, and a handler *)
(* only gets accesses that are inside its range.                           *)
THEOREM DispatchCorrect == Spec => []DispatchIsComplete
<1>1. ASSUME TableInv, NEW a \in Address, NEW n \in Size
      PROVE  LET touched == {i \in Index :
                    emul_mmio[i].set
                    /\ (a..a + n - 1) \cap (emul_mmio[i].range_start..emul_mmio[i].range_end - 1) # {}}
                 found == lookup(a, n)
             IN  /\ found \in {ENODEV, DEFAULT} <=> touched = {}
                 /\ found \in Index => a..a + n - 1 \subseteq
                        emul_mmio[found].range_start..emul_mmio[found].range_end - 1
    <2> DEFINE touched == {i \in Index :
                    emul_mmio[i].set
                    /\ (a..a + n - 1) \cap (emul_mmio[i].range_start..emul_mmio[i].range_end - 1) # {}}
               hits == {i \in 0..nr_emul_mmio_regions : overlaps(i, a, n)}
               first == CHOOSE i \in hits : \A j \in hits : i <= j
    <2>0. Type /\ UsedInv /\ a \in Nat /\ n \in Nat \ {0}
        BY <1>1, BoundsType DEF TableInv, Address, Size
    <2>1. \A i \in Index : emul_mmio[i].range_start \in Nat /\ emul_mmio[i].range_end \in Nat
        <3>1. \A i \in Index : emul_mmio[i] \in Node
            BY <2>0 DEF Type
        <3> QED BY <3>1, BoundsType DEF Node
    <2>2. 0..nr_emul_mmio_regions \subseteq Index
        BY <2>0, BoundsType DEF Type, Index
    <2>3. \A i \in Index : i \in touched <=> overlaps(i, a, n)
        <3> SUFFICES ASSUME NEW i \in Index PROVE i \in touched <=> overlaps(i, a, n)
            OBVIOUS
        <3>1. CASE emul_mmio[i].set
            <4>1. emul_mmio[i].range_start < emul_mmio[i].range_end
                BY <2>0, <3>1 DEF UsedInv
            <4>2. ~(a + n <= emul_mmio[i].range_start \/ a >= emul_mmio[i].range_end)
                    <=> (a..a + n - 1) \cap (emul_mmio[i].range_start..emul_mmio[i].range_end - 1) # {}
                BY <2>0, <2>1, <4>1, OverlapIsCommonByte
            <4> QED BY <3>1, <4>2 DEF overlaps
        <3>2. CASE ~emul_mmio[i].set
            BY <3>2 DEF overlaps
        <3> QED BY <3>1, <3>2
    <2>4. hits = touched
        <3>1. \A i \in touched : i \in 0..nr_emul_mmio_regions
            BY <2>0, BoundsType DEF UsedInv, Type, Index
        <3> QED BY <2>2, <2>3, <3>1
    <2>5. lookup(a, n) = IF hits = {} THEN IF Default THEN DEFAULT ELSE ENODEV
                         ELSE IF covers(first, a, n) THEN first ELSE EIO
        BY DEF lookup
    <2> HIDE DEF touched, hits
    <2>6. CASE hits = {}
        <3>1. lookup(a, n) \in {ENODEV, DEFAULT}
            BY <2>5, <2>6
        <3>2. lookup(a, n) \notin Index
            BY <3>1, BoundsType DEF ENODEV, DEFAULT, Index
        <3> QED BY <2>4, <2>6, <3>1, <3>2 DEF touched
    <2>7. CASE hits # {}
        <3>1. hits \in SUBSET Nat /\ hits \subseteq Index
            BY <2>2, BoundsType DEF hits, Index
        <3>2. \E i \in hits : \A j \in hits : i <= j
            BY <2>7, <3>1, First
        <3>3. first \in hits
            BY <3>2
        <3> HIDE DEF first
        <3>4. first \in Index /\ ~(first \in {ENODEV, DEFAULT}) /\ ~(EIO \in {ENODEV, DEFAULT}) /\ EIO \notin Index
            BY <3>1, <3>3, BoundsType DEF Index, ENODEV, DEFAULT, EIO
        <3>5. CASE covers(first, a, n)
            <4>1. lookup(a, n) = first
                BY <2>5, <2>7, <3>5
            <4>2. a..a + n - 1 \subseteq emul_mmio[first].range_start..emul_mmio[first].range_end - 1
                BY <2>0, <2>1, <3>4, <3>5 DEF covers
            <4> QED BY <2>4, <2>7, <3>4, <4>1, <4>2 DEF touched
        <3>6. CASE ~covers(first, a, n)
            <4>1. lookup(a, n) = EIO
                BY <2>5, <2>7, <3>6
            <4> QED BY <2>4, <2>7, <3>4, <4>1 DEF touched
        <3> QED BY <3>5, <3>6
    <2> QED BY <2>6, <2>7
<1>2. TableInv => DispatchIsComplete
    BY <1>1 DEF DispatchIsComplete
<1> QED BY TableConsistent, <1>2, PTL

(* When ranges without hold_lock are never unregistered, as the comment in *)
(* hv_emulate_mmio says, no handler runs whose entry has been taken away.  *)
THEOREM HandlerStaysRegistered ==
    ASSUME ~BarMoves
    PROVE  Spec => []RunningIsRegistered
<1>1. TableInv /\ HandlerInv /\ [Next]_vars => HandlerInv'
    <2> SUFFICES ASSUME TableInv, HandlerInv, [Next]_vars PROVE HandlerInv'
        OBVIOUS
    <2>0. Type /\ UsedInv /\ HandlerInv
        BY DEF TableInv
    <2>1. ASSUME NEW start \in 0..MaxAddr, NEW end \in 0..MaxAddr, NEW hold \in BOOLEAN,
                 register_mmio_emulation_handler(start, end, hold)
          PROVE  HandlerInv'
        <3>1. PICK i \in Index : ~emul_mmio[i].set /\ \A j \in Index \ {i} : emul_mmio'[j] = emul_mmio[j]
            BY <2>0, <2>1 DEF register_mmio_emulation_handler, find_free_mmio_node, find_match_mmio_node,
                              Type, UsedInv
        <3>2. UNCHANGED <<running, emul_mmio_lock>>
            BY <2>1 DEF register_mmio_emulation_handler
        <3> QED BY <2>0, <3>1, <3>2 DEF HandlerInv, Type
    <2>2. ASSUME NEW start \in 0..MaxAddr, NEW end \in 0..MaxAddr,
                 unregister_mmio_emulation_handler(start, end)
          PROVE  HandlerInv'
        <3>1. PICK i \in Index : emul_mmio[i].hold_lock /\ \A j \in Index \ {i} : emul_mmio'[j] = emul_mmio[j]
            BY <2>0, <2>2 DEF unregister_mmio_emulation_handler, Type
        <3>2. UNCHANGED <<running, emul_mmio_lock>> /\ emul_mmio_lock = Nobody
            BY <2>2 DEF unregister_mmio_emulation_handler
        <3> QED BY <2>0, <3>1, <3>2, NobodyType DEF HandlerInv, Type
    <2>3. CASE deinit_emul_io
        BY <2>0, <2>3 DEF deinit_emul_io, HandlerInv
    <2>4. ASSUME NEW v \in Vcpu, NEW a \in Address, NEW n \in Size, hv_emulate_mmio(v, a, n)
          PROVE  HandlerInv'
        <3> DEFINE i == lookup(a, n)
        <3>1. i \in Index /\ running' = [running EXCEPT ![v] = i] /\ UNCHANGED emul_mmio
              /\ emul_mmio_lock = Nobody /\ emul_mmio_lock' = IF emul_mmio[i].hold_lock THEN v ELSE Nobody
            BY <2>4 DEF hv_emulate_mmio
        <3>2. emul_mmio[i].set
            BY <3>1, LookupFindsUsed DEF TableInv
        <3> HIDE DEF i
        <3> QED BY <2>0, <3>1, <3>2, NobodyType DEF HandlerInv, Type
    <2>5. ASSUME NEW v \in Vcpu, handler_returns(v) PROVE HandlerInv'
        BY <2>0, <2>5, NobodyType DEF handler_returns, HandlerInv, Type
    <2>6. CASE UNCHANGED vars
        BY <2>0, <2>6 DEF vars, HandlerInv
    <2> QED BY <2>1, <2>2, <2>3, <2>4, <2>5, <2>6 DEF Next
<1>2. HandlerInv => RunningIsRegistered
    BY DEF HandlerInv, RunningIsRegistered
<1> QED BY TableInit, TableConsistent, <1>1, <1>2, PTL DEF Spec

=============================================================================
