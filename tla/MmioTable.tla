----------------------------- MODULE MmioTable -----------------------------
(***************************************************************************)
(* A VM's table of MMIO handlers in the hypervisor: registering and        *)
(* unregistering a range, and the dispatch of a trapped access to the      *)
(* handler of its range (hv_emulate_mmio and the functions around it in    *)
(* hypervisor/dm/io_req.c).                                                *)
(*                                                                         *)
(* What runs under emul_mmio_lock is one step; a handler that was          *)
(* registered with hold_lock keeps the lock until it returns.              *)
(***************************************************************************)
EXTENDS Integers, Sequences, SequencesExt

CONSTANTS
    Vcpu,
    MaxAddr,    \* addresses are 0..MaxAddr - 1
    MaxSize,    \* the widest access
    NodeMax,    \* CONFIG_MAX_EMULATED_MMIO_REGIONS
    Default,    \* the VM is a Service VM or a pre-launched one
    BarMoves,   \* handlers without hold_lock are unregistered as well
    Nobody

ASSUME BoundsType == MaxAddr \in Nat /\ MaxSize \in Nat \ {0} /\ NodeMax \in Nat \ {0}
ASSUME NobodyType == Nobody \notin Vcpu

VARIABLES
    emul_mmio,              \* the table
    nr_emul_mmio_regions,   \* the highest index that was ever used
    emul_mmio_lock,
    running,                \* the table entry whose handler a vCPU is in
    age                     \* history: the entries in use, the oldest first

vars == <<emul_mmio, nr_emul_mmio_regions, emul_mmio_lock, running, age>>

Index == 0..NodeMax - 1
ENODEV == -1        \* also: no handler is running
EIO == -2
DEFAULT == -3       \* mmio_default_access_handler
Node == [range_start : 0..MaxAddr, range_end : 0..MaxAddr, hold_lock : BOOLEAN, set : BOOLEAN]
Zeroed == [range_start |-> 0, range_end |-> 0, hold_lock |-> FALSE, set |-> FALSE]

TypeOK ==
    /\ emul_mmio \in [Index -> Node]
    /\ nr_emul_mmio_regions \in Index
    /\ emul_mmio_lock \in Vcpu \cup {Nobody}
    /\ running \in [Vcpu -> Index \cup {ENODEV}]
    /\ ToSet(age) \subseteq Index

Init ==
    /\ emul_mmio = [i \in Index |-> Zeroed]
    /\ nr_emul_mmio_regions = 0
    /\ emul_mmio_lock = Nobody
    /\ running = [v \in Vcpu |-> ENODEV]
    /\ age = <<>>

-----------------------------------------------------------------------------
(* The first entry with exactly this range; 0, 0 finds a free one.         *)
find_match_mmio_node(start, end, i) ==
    /\ i \in Index
    /\ emul_mmio[i].range_start = start /\ emul_mmio[i].range_end = end
    /\ \A j \in 0..i - 1 : emul_mmio[j].range_start # start \/ emul_mmio[j].range_end # end

find_free_mmio_node(i) ==
    /\ find_match_mmio_node(0, 0, i)
    /\ nr_emul_mmio_regions' = IF nr_emul_mmio_regions < i THEN i ELSE nr_emul_mmio_regions

(* Without a free entry nothing is registered.                             *)
register_mmio_emulation_handler(start, end, hold_lock) ==
    /\ end > start
    /\ emul_mmio_lock = Nobody
    /\ \E i \in Index :
        /\ find_free_mmio_node(i)
        /\ emul_mmio' = [emul_mmio EXCEPT ![i] =
                [range_start |-> start, range_end |-> end, hold_lock |-> hold_lock, set |-> TRUE]]
        /\ age' = Append(age, i)
    /\ UNCHANGED <<emul_mmio_lock, running>>

unregister_mmio_emulation_handler(start, end) ==
    /\ emul_mmio_lock = Nobody
    /\ \E i \in Index :
        /\ end > start /\ find_match_mmio_node(start, end, i)
        /\ emul_mmio[i].hold_lock \/ BarMoves
        /\ emul_mmio' = [emul_mmio EXCEPT ![i] = Zeroed]
        /\ age' = Remove(age, i)
    /\ UNCHANGED <<nr_emul_mmio_regions, emul_mmio_lock, running>>

(* At the end of the VM, when its vCPUs are off.                           *)
deinit_emul_io ==
    /\ emul_mmio_lock = Nobody
    /\ \A v \in Vcpu : running[v] = ENODEV
    /\ emul_mmio' = [i \in Index |-> Zeroed]
    /\ age' = <<>>
    /\ UNCHANGED <<nr_emul_mmio_regions, emul_mmio_lock, running>>

-----------------------------------------------------------------------------
overlaps(i, address, size) ==
    /\ emul_mmio[i].set
    /\ ~(address + size <= emul_mmio[i].range_start \/ address >= emul_mmio[i].range_end)

(* Fault: an access that reaches over the end of the range is let through. *)
covers_start(i, address, size) ==
    address >= emul_mmio[i].range_start /\ address < emul_mmio[i].range_end

covers(i, address, size) ==
    address >= emul_mmio[i].range_start /\ address + size <= emul_mmio[i].range_end

(* What the walk through the table finds: an entry, the default handler,   *)
(* -ENODEV, or -EIO for an access that reaches over the end of a range.    *)
lookup(address, size) ==
    LET hits == {i \in 0..nr_emul_mmio_regions : overlaps(i, address, size)}
        first == CHOOSE i \in hits : \A j \in hits : i <= j
    IN  IF hits = {} THEN IF Default THEN DEFAULT ELSE ENODEV
        ELSE IF covers(first, address, size) THEN first
        ELSE EIO

(* Fault: the lock is given up before every handler.                       *)
hv_emulate_mmio_unlocked(v, address, size) ==
    /\ emul_mmio_lock = Nobody
    /\ running[v] = ENODEV
    /\ lookup(address, size) \in Index
    /\ running' = [running EXCEPT ![v] = lookup(address, size)]
    /\ UNCHANGED <<emul_mmio, nr_emul_mmio_regions, emul_mmio_lock, age>>

(* An access that no entry covers changes nothing here.                    *)
hv_emulate_mmio(v, address, size) ==
    /\ emul_mmio_lock = Nobody
    /\ running[v] = ENODEV
    /\ LET i == lookup(address, size)
       IN  /\ i \in Index
           /\ running' = [running EXCEPT ![v] = i]
           /\ emul_mmio_lock' = IF emul_mmio[i].hold_lock THEN v ELSE Nobody
    /\ UNCHANGED <<emul_mmio, nr_emul_mmio_regions, age>>

(* A handler that ran without the lock takes and releases it once more.    *)
handler_returns(v) ==
    /\ running[v] # ENODEV
    /\ emul_mmio_lock \in {v, Nobody}
    /\ running' = [running EXCEPT ![v] = ENODEV]
    /\ emul_mmio_lock' = Nobody
    /\ UNCHANGED <<emul_mmio, nr_emul_mmio_regions, age>>

-----------------------------------------------------------------------------
Address == 0..MaxAddr - 1
Size == 1..MaxSize

Next ==
    \/ \E start, end \in 0..MaxAddr :
        \/ \E hold \in BOOLEAN : register_mmio_emulation_handler(start, end, hold)
        \/ unregister_mmio_emulation_handler(start, end)
    \/ deinit_emul_io
    \/ \E v \in Vcpu :
        \/ \E address \in Address, size \in Size : hv_emulate_mmio(v, address, size)
        \/ handler_returns(v)

Spec == Init /\ [][Next]_vars

-----------------------------------------------------------------------------
(* An access goes to the Service VM exactly when it touches no range of    *)
(* the table, and to a handler only when the handler's range has all of    *)
(* it: the cases of hv-io-emulation.rst, "I/O Dispatching".                *)
DispatchIsComplete ==
    \A address \in Address, size \in Size :
        LET touched == {i \in Index :
                emul_mmio[i].set
                /\ (address..address + size - 1) \cap
                   (emul_mmio[i].range_start..emul_mmio[i].range_end - 1) # {}}
            found == lookup(address, size)
        IN  /\ found \in {ENODEV, DEFAULT} <=> touched = {}
            /\ found \in Index => address..address + size - 1 \subseteq
                    emul_mmio[found].range_start..emul_mmio[found].range_end - 1

(* The entry of a handler is in the table as long as the handler runs: it  *)
(* holds the lock, or "will never modify once register".                   *)
RunningIsRegistered == \A v \in Vcpu : running[v] # ENODEV => emul_mmio[running[v]].set

(* "If multiple handlers are registered for the same address, the one      *)
(* registered later wins" (hv-io-emulation.rst).                           *)
LaterWins ==
    \A address \in Address :
        LET found == lookup(address, 1)
        IN  found \in Index =>
                \A k \in 1..Len(age) :
                    overlaps(age[k], address, 1) => \E l \in k..Len(age) : age[l] = found

=============================================================================
