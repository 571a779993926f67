------------------------------- MODULE IoReq -------------------------------
(***************************************************************************)
(* The I/O request slots a post-launched VM shares with the Service VM:    *)
(* hypervisor/dm/io_req.c from the VM exit of an MMIO access to its        *)
(* post-work, the completion hypercall, and pause, reset and start of the  *)
(* VM around it.  The HSM driver and its clients are code of the Service   *)
(* VM; they follow the table above struct acrn_io_request in               *)
(* include/public/acrn_common.h.                                           *)
(*                                                                         *)
(* An address stands for the device behind it, and for the value that a    *)
(* read of it returns.                                                     *)
(***************************************************************************)
EXTENDS DmBase, Naturals, FiniteSets

CONSTANTS
    Bsp,        \* hw.vcpu[0], the one that pause_vm stops
    Addr,       \* MMIO addresses with no handler in the hypervisor
    driver      \* driver[v]: those that the guest accesses on the vCPU v

ASSUME BspType == Bsp \in Vcpu
ASSUME AddrType == Nobody \notin Addr
ASSUME DriverType == driver \in [Vcpu -> SUBSET Addr]

VARIABLES
    processed,  \* the state of the vCPU's slot of the shared page
    slot,       \* the slot's contents: address, direction and value
    req,        \* vcpu->req
    at,         \* where the vCPU is between two runs of the guest
    ev_set,     \* set of events[VCPU_EVENT_IOREQ]
    stopped,    \* zombie_vcpu has put the vCPU's thread to sleep
    vm_state,
    reg,        \* the guest's register that the access loads
    skipped,    \* how often emulate_instruction ran for the last access
    upcall,     \* the interrupt to the Service VM is pending
    scan,       \* the slots the HSM has still to look at
    hsm,        \* what the client of a slot is doing
    polling     \* vm->sw.is_polling_ioreq, which does not change

vcpu == <<req, at, reg, skipped>>
shared == <<processed, slot>>
service == <<upcall, scan, hsm, polling>>
vars == <<processed, slot, req, at, ev_set, stopped, vm_state, reg, skipped, upcall, scan, hsm,
          polling>>

Access == [addr : Addr \cup {Nobody}, dir : {"READ", "WRITE"}, value : Addr \cup {Nobody}]
NoAccess == [addr |-> Nobody, dir |-> "READ", value |-> Nobody]

TypeOK ==
    /\ processed \in [Vcpu -> {"FREE", "PENDING", "PROCESSING", "COMPLETE"}]
    /\ slot \in [Vcpu -> Access]
    /\ req \in [Vcpu -> Access]
    /\ at \in [Vcpu -> {"guest", "insert", "mark", "fire", "poll", "wait", "complete"}]
    /\ ev_set \in [Vcpu -> BOOLEAN]
    /\ stopped \in [Vcpu -> BOOLEAN]
    /\ vm_state \in {"CREATED", "RUNNING", "PAUSED"}
    /\ reg \in [Vcpu -> Addr \cup {Nobody}]
    /\ skipped \in [Vcpu -> 0..1]
    /\ upcall \in BOOLEAN
    /\ scan \subseteq Vcpu
    /\ hsm \in [Vcpu -> {"idle", "serving", "answered", "notify"}]
    /\ polling \in BOOLEAN

(* The state after create_vm and hcall_set_ioreq_buffer.                   *)
Init ==
    /\ processed = [v \in Vcpu |-> "FREE"]
    /\ slot = [v \in Vcpu |-> NoAccess]
    /\ req = [v \in Vcpu |-> NoAccess]
    /\ at = [v \in Vcpu |-> "guest"]
    /\ ev_set = [v \in Vcpu |-> FALSE]
    /\ stopped = [v \in Vcpu |-> TRUE]
    /\ vm_state = "CREATED"
    /\ reg = [v \in Vcpu |-> Nobody]
    /\ skipped = [v \in Vcpu |-> 1]
    /\ upcall = FALSE
    /\ scan = {}
    /\ hsm = [v \in Vcpu |-> "idle"]
    /\ polling \in BOOLEAN

-----------------------------------------------------------------------------
(* The vCPU thread.                                                        *)

goto(v, where) == at' = [at EXCEPT ![v] = where]

(* s2pt_violation_vmexit_handler, decode_instruction, and hv_emulate_mmio  *)
(* that finds no handler.  A read leaves the value of the last access.  A  *)
(* store is stepped over now, a load in its post-work.                     *)
s2pt_violation(v, a, dir) ==
    /\ at[v] = "guest" /\ ~stopped[v]
    /\ skipped' = [skipped EXCEPT ![v] = IF dir = "WRITE" THEN 1 ELSE 0]
    /\ req' = [req EXCEPT ![v] =
                [addr |-> a, dir |-> dir, value |-> IF dir = "WRITE" THEN Nobody ELSE @.value]]
    /\ goto(v, "insert")
    /\ UNCHANGED <<shared, ev_set, stopped, vm_state, reg, service>>

(* Fault: the slot is marked PENDING before it is filled.                  *)
acrn_insert_request_early_mark(v) ==
    \/ /\ at[v] = "insert" /\ processed[v] = "FREE"
       /\ processed' = [processed EXCEPT ![v] = "PENDING"]
       /\ UNCHANGED <<slot, at, ev_set, req, stopped, vm_state, reg, skipped, service>>
    \/ /\ at[v] = "insert" /\ processed[v] # "FREE"
       /\ slot' = [slot EXCEPT ![v] = req[v]]
       /\ goto(v, "mark")
       /\ UNCHANGED <<processed, ev_set, req, stopped, vm_state, reg, skipped, service>>

(* The request is refused with -EINVAL while the slot is in use.           *)
acrn_insert_request(v) ==
    /\ at[v] = "insert"
    /\ IF processed[v] = "FREE"
       THEN /\ slot' = [slot EXCEPT ![v] = req[v]]
            /\ goto(v, "mark")
       ELSE goto(v, "guest") /\ UNCHANGED slot
    /\ UNCHANGED <<processed, ev_set, req, stopped, vm_state, reg, skipped, service>>

mark_pending(v) ==
    /\ at[v] = "mark"
    /\ processed' = [processed EXCEPT ![v] = "PENDING"]
    /\ goto(v, "fire")
    /\ UNCHANGED <<slot, ev_set, req, stopped, vm_state, reg, skipped, service>>

arch_fire_hsm_interrupt(v) ==
    /\ at[v] = "fire"
    /\ upcall' = TRUE
    /\ goto(v, IF polling THEN "poll" ELSE "wait")
    /\ UNCHANGED <<shared, ev_set, req, stopped, vm_state, reg, skipped, scan, hsm, polling>>

(* A thread that is asked to sleep gives the pCPU up in the polling loop.  *)
poll_completion(v) ==
    /\ at[v] = "poll" /\ ~stopped[v]
    /\ processed[v] = "COMPLETE"
    /\ goto(v, "complete")
    /\ UNCHANGED <<shared, ev_set, req, stopped, vm_state, reg, skipped, service>>

(* Fault: any wake-up ends the wait, as if the loop were an if.            *)
wait_event_once(v) ==
    /\ at[v] = "wait" /\ ~stopped[v]
    /\ ev_set' = [ev_set EXCEPT ![v] = FALSE]
    /\ goto(v, "complete")
    /\ UNCHANGED <<shared, req, stopped, vm_state, reg, skipped, service>>

(* wait_event returns once the event is set, and resets it.  The vCPU runs *)
(* on even when it is a zombie: signal_event has woken it.                 *)
wait_event(v) ==
    /\ at[v] = "wait"
    /\ ev_set[v]
    /\ ev_set' = [ev_set EXCEPT ![v] = FALSE]
    /\ stopped' = [stopped EXCEPT ![v] = FALSE]
    /\ goto(v, "complete")
    /\ UNCHANGED <<shared, req, vm_state, reg, skipped, service>>

(* zombie_vcpu has changed the vCPU's state, and launch_vcpu has not yet.  *)
is_zombie(v) == v = Bsp /\ vm_state # "RUNNING"

emulate_mmio_complete(v) ==
    skipped' = [skipped EXCEPT ![v] = IF req[v].dir = "READ" THEN @ + 1 ELSE @]

(* Fault: the request is made again once it is complete.                   *)
dm_emulate_io_complete_repeats(v) ==
    /\ at[v] = "complete"
    /\ processed' = [processed EXCEPT ![v] = IF @ = "COMPLETE" THEN "FREE" ELSE @]
    /\ goto(v, "insert")
    /\ UNCHANGED <<slot, req, skipped, ev_set, stopped, vm_state, reg, service>>

(* dm_emulate_io_complete and the functions it selects among.  A request   *)
(* that is not complete is left as it is.  emulate_instruction moves the   *)
(* guest's pc and does not touch its registers.                            *)
dm_emulate_io_complete(v) ==
    /\ at[v] = "complete"
    /\ \/ /\ processed[v] = "COMPLETE"
          /\ processed' = [processed EXCEPT ![v] = "FREE"]
          /\ IF is_zombie(v)
             THEN UNCHANGED <<req, skipped>>
             ELSE /\ req' = [req EXCEPT ![v].value = slot[v].value]
                  /\ emulate_mmio_complete(v)
       \/ /\ processed[v] # "COMPLETE"
          /\ UNCHANGED <<processed, req, skipped>>
    /\ goto(v, "guest")
    /\ UNCHANGED <<slot, ev_set, stopped, vm_state, reg, service>>

-----------------------------------------------------------------------------
(* The Service VM.                                                         *)

(* On an upcall the HSM looks at every slot once more.                     *)
take_upcall ==
    /\ upcall
    /\ upcall' = FALSE
    /\ scan' = Vcpu
    /\ UNCHANGED <<shared, vcpu, ev_set, stopped, vm_state, hsm, polling>>

dispatch(v) ==
    /\ v \in scan
    /\ scan' = scan \ {v}
    /\ IF processed[v] = "PENDING"
       THEN /\ processed' = [processed EXCEPT ![v] = "PROCESSING"]
            /\ hsm' = [hsm EXCEPT ![v] = "serving"]
       ELSE UNCHANGED <<processed, hsm>>
    /\ UNCHANGED <<slot, vcpu, ev_set, stopped, vm_state, upcall, polling>>

answer(v) ==
    /\ hsm[v] = "serving"
    /\ slot' = [slot EXCEPT ![v].value = slot[v].addr]
    /\ hsm' = [hsm EXCEPT ![v] = "answered"]
    /\ UNCHANGED <<processed, vcpu, ev_set, stopped, vm_state, upcall, scan, polling>>

(* Clients do not notify for a slot with completion_polling.               *)
complete(v) ==
    /\ hsm[v] = "answered"
    /\ processed' = [processed EXCEPT ![v] = "COMPLETE"]
    /\ hsm' = [hsm EXCEPT ![v] = IF polling THEN "idle" ELSE "notify"]
    /\ UNCHANGED <<slot, vcpu, ev_set, stopped, vm_state, upcall, scan, polling>>

(* The hypercall at the end of a request.                                  *)
hcall_notify_ioreq_finish(v) ==
    /\ hsm[v] = "notify"
    /\ ev_set' = [ev_set EXCEPT ![v] = TRUE]
    /\ hsm' = [hsm EXCEPT ![v] = "idle"]
    /\ UNCHANGED <<shared, vcpu, stopped, vm_state, upcall, scan, polling>>

-----------------------------------------------------------------------------
(* The VM's management, from the Service VM.                               *)

start_vm ==
    /\ vm_state = "CREATED"
    /\ vm_state' = "RUNNING"
    /\ stopped' = [v \in Vcpu |-> FALSE]
    /\ UNCHANGED <<shared, vcpu, ev_set, service>>

(* pause_vm stops hw.vcpu[0], at its next point where it schedules.        *)
pause_vm ==
    /\ vm_state = "RUNNING"
    /\ vm_state' = "PAUSED"
    /\ stopped' = [stopped EXCEPT ![Bsp] = TRUE]
    /\ UNCHANGED <<shared, vcpu, ev_set, service>>

(* reset_vm with reset_vm_ioreqs, after the device model has finished the  *)
(* requests in its hands.  The vCPUs themselves are left as they are.      *)
reset_vm ==
    /\ vm_state = "PAUSED"
    /\ \A v \in Vcpu : hsm[v] = "idle" /\ processed[v] \notin {"PENDING", "PROCESSING"}
    /\ stopped[Bsp] => at[Bsp] \in {"guest", "poll", "wait"}
    /\ processed' = [v \in Vcpu |-> "FREE"]
    /\ vm_state' = "CREATED"
    /\ UNCHANGED <<slot, vcpu, ev_set, stopped, service>>

-----------------------------------------------------------------------------
thread(v) ==
    \/ acrn_insert_request(v)
    \/ mark_pending(v)
    \/ arch_fire_hsm_interrupt(v)
    \/ poll_completion(v)
    \/ wait_event(v)
    \/ dm_emulate_io_complete(v)

client(v) == answer(v) \/ complete(v) \/ hcall_notify_ioreq_finish(v)

Next ==
    \/ \E v \in Vcpu :
        \/ \E a \in driver[v], dir \in {"READ", "WRITE"} : s2pt_violation(v, a, dir)
        \/ thread(v) \/ dispatch(v) \/ client(v)
    \/ take_upcall
    \/ start_vm \/ pause_vm \/ reset_vm

Spec == Init /\ [][Next]_vars

(* vCPU threads run until they wait, the Service VM takes its interrupt    *)
(* and its clients serve what they are given.                              *)
FairSpec ==
    /\ Spec
    /\ WF_vars(take_upcall)
    /\ \A v \in Vcpu : WF_vars(thread(v)) /\ WF_vars(dispatch(v)) /\ WF_vars(client(v))

-----------------------------------------------------------------------------
(* "The contents of an I/O request slot are owned by the hypervisor when   *)
(* the state ... is FREE or COMPLETE", by the Service VM when it is        *)
(* PENDING or PROCESSING (hv-io-emulation.rst): the hypervisor's part of   *)
(* the contents changes in the one case, the value in both.                *)
SlotOwnership ==
    [][\A v \in Vcpu :
        slot[v] # slot'[v] =>
            \/ processed[v] \in {"FREE", "COMPLETE"} /\ hsm[v] = "idle"
            \/ processed[v] = "PROCESSING" /\ at[v] \in {"fire", "poll", "wait"}]_vars

(* The Service VM works on what the vCPU asked for, and a read that is     *)
(* complete gets the value of its own address: no answer of an earlier     *)
(* request and no half-filled slot is taken.                               *)
AnswerIsForRequest ==
    \A v \in Vcpu :
        /\ hsm[v] \in {"serving", "answered"} => slot[v].addr = req[v].addr
        /\ at[v] = "complete" /\ processed[v] = "COMPLETE" => slot[v].value = req[v].addr

(* "One vCPU cannot trigger another I/O request before the previous one    *)
(* has completed (i.e. the state switched to FREE)": the guest never runs  *)
(* with its slot in use, so acrn_insert_request never answers -EINVAL.     *)
GuestRunsWithFreeSlot ==
    \A v \in Vcpu : at[v] \in {"guest", "insert", "mark"} => processed[v] = "FREE"

(* The vCPU is suspended "till its completion" and no longer: unless the   *)
(* VM is paused every request is served and the guest goes on, whether its *)
(* own upcall or the HSM's scan for another vCPU gets it there.            *)
RequestEnds ==
    \A v \in Vcpu : at[v] = "insert" ~> at[v] = "guest" \/ vm_state # "RUNNING"

(* "Emulate instruction and update vcpu register set": after the post-work *)
(* of a read the guest's register has the value the device model answered. *)
ReadReachesRegister ==
    [][\A v \in Vcpu :
        at[v] = "complete" /\ processed[v] = "COMPLETE" /\ req[v].dir = "READ"
            /\ dm_emulate_io_complete(v)
            => reg'[v] = slot[v].value]_vars

=============================================================================
