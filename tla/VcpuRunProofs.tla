--------------------------- MODULE VcpuRunProofs ---------------------------
(***************************************************************************)
(* Proofs about VcpuRun, for any number of vCPUs, pCPUs and callers and    *)
(* any set of operations the callers perform, pauses and resets included.  *)
(***************************************************************************)
EXTENDS VcpuRun, ThreadSchedProofs

(* Every step of a vCPU, of its pCPU or of a caller is, for the scheduler, *)
(* a step of ThreadSched or no step.                                       *)
LEMMA VcpuStepIsSchedStep == [VcpuNext]_vcpuVars => [Next]_vars
<1> SUFFICES ASSUME [VcpuNext]_vcpuVars PROVE [Next]_vars
    BY Zenon
<1> USE DEF Next
<1>1. CASE UNCHANGED vcpuVars
    BY Zenon, <1>1 DEF vcpuVars
<1>2. ASSUME NEW t \in Thread, create_vcpu(t) \/ launch_vcpu(t) PROVE [Next]_vars
    BY Zenon, <1>2 DEF create_vcpu, launch_vcpu
<1>3. ASSUME NEW t \in Thread, vcpu_thread(t) PROVE [Next]_vars
    <2>1. CASE loop_top(t)
        BY Zenon, <2>1, HomeType DEF loop_top, schedule_vcpu
    <2>2. CASE triple_fault(t)
        BY Zenon, <2>2 DEF triple_fault, zombie_vcpu
    <2>3. CASE wait_event(t)
        BY Zenon, <2>3 DEF wait_event
    <2>4. CASE wait_schedule(t)
        BY Zenon, <2>4, HomeType DEF wait_schedule, schedule_vcpu
    <2>5. CASE test_request(t) \/ clear_request(t) \/ reset_interrupt_event(t) \/ run_vcpu(t)
        BY Zenon, <2>5 DEF test_request, clear_request, reset_interrupt_event, run_vcpu
    <2>6. CASE vmexit_irq(t) \/ set_request(t) \/ hlt_check(t)
        BY Zenon, <2>6 DEF vmexit_irq, set_request, hlt_check
    <2> QED
        BY Zenon, <1>3, <2>1, <2>2, <2>3, <2>4, <2>5, <2>6 DEF vcpu_thread
<1>4. ASSUME NEW t \in Thread, guest(t) \/ reset_vcpu(t) \/ offline_vcpu(t) PROVE [Next]_vars
    BY Zenon, <1>4 DEF guest, vmexit_hlt, vcpu_queue_exception, reset_vcpu, offline_vcpu
<1>5. ASSUME NEW p \in Pcpu, start_idle(p) \/ default_idle(p) \/ tick(p) \/ sswi_handler(p)
      PROVE  [Next]_vars
    BY Zenon, <1>5 DEF start_idle, default_idle, tick, sswi_handler, schedule_vcpu
<1>6. ASSUME NEW c \in Caller, NEW t \in Thread, calls(c, t) PROVE [Next]_vars
    <2>1. CASE call_signal(c, t)
        BY Zenon, <2>1 DEF call_signal, signal_event
    <2>2. CASE pause_zombie(c, t)
        BY Zenon, <2>2 DEF pause_zombie, zombie_vcpu
    <2>3. CASE call_load(c, t) \/ call_store(c, t) \/ kick_vcpu(c, t) \/ write_msip(c, t) \/ pause_sync(c, t)
        BY Zenon, <2>3 DEF call_load, call_store, kick_vcpu, write_msip, pause_sync
    <2> QED
        BY Zenon, <1>6, <2>1, <2>2, <2>3 DEF calls
<1>7. ASSUME NEW c \in Caller, NEW t \in Thread, NEW k \in Kinds, begin_call(c, k, t)
      PROVE  [Next]_vars
    BY Zenon, <1>7 DEF begin_call
<1> QED
    BY Zenon, <1>1, <1>2, <1>3, <1>4, <1>5, <1>6, <1>7 DEF VcpuNext

(* The vCPU layer implements the scheduler's specification: no thread,     *)
(* interrupt or pause does anything the scheduler framework does not allow. *)
THEOREM VcpuImplementsSched == VcpuSpec => Spec
<1>1. VcpuInit => init_sched
    BY Zenon DEF VcpuInit
<1> QED
    BY <1>1, VcpuStepIsSchedStep, PTL DEF VcpuSpec, Spec

-----------------------------------------------------------------------------
(* How the scheduler's operations put a thread to sleep and wake it up.    *)

Asleep(t) == is_blocked(t) \/ be_blocking[t]

(* A context switch puts no thread to sleep that was not asked to.         *)
LEMMA ScheduleKeepsAwake ==
    ASSUME TypeOK, SchedInv, NEW p \in Pcpu, schedule(p), NEW t \in Thread, ~Asleep(t)
    PROVE  ~Asleep(t)'
<1> USE HomeType, ThreadsDistinct DEF TypeOK, Object, Asleep, is_blocked
<1>1. PICK next \in pick_next(p) : schedule_to(p, next)
    BY Zenon DEF schedule
<1>2. curr_obj[p] \in Object /\ next \in Object
    BY Zenon, <1>1 DEF pick_next, schedule_to
<1>3. CASE curr_obj[p] = next
    BY Zenon, <1>1, <1>3 DEF schedule_to
<1>4. CASE curr_obj[p] # next
    <2>1. be_blocking'[t] = FALSE
        BY Zenon, <1>1, <1>2, <1>4 DEF schedule_to
    <2>2. status'[t] # "BLOCKED"
        BY Zenon, <1>1, <1>2, <1>4 DEF schedule_to, switch_status
    <2> QED
        BY Zenon, <2>1, <2>2
<1> QED
    BY Zenon, <1>3, <1>4

(* wake_thread leaves its thread awake and no other thread asleep.         *)
LEMMA WakeWakes ==
    ASSUME TypeOK, NEW u \in Thread, wake_thread(u), NEW t \in Thread
    PROVE  (t = u \/ ~Asleep(t)) => ~Asleep(t)'
BY HomeType, ThreadsDistinct DEF TypeOK, Object, Asleep, is_blocked, wake_thread

(* sleep_thread puts no other thread to sleep.                             *)
LEMMA SleepIsOwn ==
    ASSUME TypeOK, NEW u \in Thread, sleep_thread(u), NEW t \in Thread, t # u, ~Asleep(t)
    PROVE  ~Asleep(t)'
BY Zenon, HomeType, ThreadsDistinct DEF TypeOK, Object, Asleep, is_blocked, sleep_thread

-----------------------------------------------------------------------------
(* The part of the type invariant that the wait invariant needs.           *)
WaitType ==
    /\ at \in [Thread -> Where]
    /\ vstate \in [Thread -> VcpuState]
    /\ ev_set \in [Thread -> BOOLEAN]
    /\ waiting \in [Thread -> BOOLEAN]

(* What WaitInv says of one vCPU.                                          *)
Waits(t) ==
    /\ waiting[t] => at[t] \in {"wait_sched", "wait_check"}
    /\ vstate[t] = "RUNNING" /\ waiting[t] /\ ev_set[t] => ~Asleep(t)
    /\ vstate[t] = "RUNNING" /\ at[t] \in {"wait_sched", "wait_check"} /\ Asleep(t) => waiting[t]

(* The invariant of the wait, taken apart vCPU by vCPU.                    *)
LEMMA WaitInvIsWaits == WaitInv <=> \A t \in Thread : Waits(t)
BY Zenon DEF WaitInv, ExclusiveWait, NoLostSignal, SleeperIsRegistered, halted, Waits, Asleep

(* A step that leaves a vCPU's wait alone and does not put it to sleep     *)
(* keeps its part of the invariant.                                        *)
LEMMA WaitsKept ==
    ASSUME NEW t \in Thread, Waits(t),
           at'[t] = at[t], vstate'[t] = vstate[t], ev_set'[t] = ev_set[t],
           waiting'[t] = waiting[t], ~Asleep(t) => ~Asleep(t)'
    PROVE  Waits(t)'
BY Zenon DEF Waits, Asleep

(* A thread that goes through the parts of vcpu_thread outside wait_event, *)
(* where it waits for nothing.                                             *)
LEMMA WaitsOutside ==
    ASSUME NEW t \in Thread, ~waiting'[t], at'[t] \notin {"wait_sched", "wait_check"}
    PROVE  Waits(t)'
BY Zenon DEF Waits, Asleep

(* A thread that leaves a vCPU's scheduler state alone leaves it awake.    *)
LEMMA StutterKeepsAwake ==
    ASSUME UNCHANGED vars, NEW t \in Thread, ~Asleep(t)
    PROVE  ~Asleep(t)'
BY Zenon DEF vars, Asleep, is_blocked

(* Every step keeps the types of the variables that the wait is about.     *)
LEMMA WaitTypeStep == WaitType /\ [VcpuNext]_vcpuVars => WaitType'
<1> SUFFICES ASSUME WaitType, [VcpuNext]_vcpuVars PROVE WaitType'
    BY Zenon
<1> USE DEF WaitType, Where, VcpuState, events, flow, goto, reset_event
<1>1. CASE UNCHANGED vcpuVars
    BY Zenon, <1>1 DEF vcpuVars
<1>2. ASSUME NEW t \in Thread, create_vcpu(t) \/ launch_vcpu(t) PROVE WaitType'
    BY Zenon, <1>2 DEF create_vcpu, launch_vcpu
<1>3. ASSUME NEW t \in Thread, vcpu_thread(t) PROVE WaitType'
    <2>1. CASE loop_top(t) \/ test_request(t)
        BY Zenon, <2>1 DEF loop_top, test_request, proceed
    <2>2. CASE clear_request(t)
        BY Zenon, <2>2 DEF clear_request, proceed
    <2>3. CASE triple_fault(t)
        BY Zenon, <2>3 DEF triple_fault, zombie_vcpu
    <2>4. CASE reset_interrupt_event(t) \/ run_vcpu(t) \/ vmexit_irq(t) \/ set_request(t)
        BY Zenon, <2>4 DEF reset_interrupt_event, run_vcpu, vmexit_irq, set_request
    <2>5. CASE hlt_check(t)
        BY Zenon, <2>5 DEF hlt_check
    <2>6. CASE wait_event(t) \/ wait_schedule(t)
        BY Zenon, <2>6 DEF wait_event, wait_schedule
    <2> QED
        BY Zenon, <1>3, <2>1, <2>2, <2>3, <2>4, <2>5, <2>6 DEF vcpu_thread
<1>4. ASSUME NEW t \in Thread, guest(t) \/ reset_vcpu(t) \/ offline_vcpu(t) PROVE WaitType'
    BY Zenon, <1>4 DEF guest, vmexit_hlt, vcpu_queue_exception, reset_vcpu, offline_vcpu
<1>5. ASSUME NEW p \in Pcpu, start_idle(p) \/ default_idle(p) \/ tick(p) \/ sswi_handler(p)
      PROVE  WaitType'
    BY Zenon, <1>5 DEF start_idle, default_idle, tick, sswi_handler
<1>6. ASSUME NEW c \in Caller, NEW t \in Thread, calls(c, t) PROVE WaitType'
    BY Zenon, <1>6 DEF calls, call_signal, signal_event, pause_zombie, zombie_vcpu, call_load,
                call_store, kick_vcpu, write_msip, pause_sync
<1>7. ASSUME NEW c \in Caller, NEW t \in Thread, NEW k \in Kinds, begin_call(c, k, t)
      PROVE  WaitType'
    BY Zenon, <1>7 DEF begin_call
<1> QED
    BY Zenon, <1>1, <1>2, <1>3, <1>4, <1>5, <1>6, <1>7 DEF VcpuNext

(* Every step keeps every vCPU's wait consistent: a step of vCPU u is      *)
(* checked against u itself and against any other vCPU t.                  *)
LEMMA WaitStep ==
    TypeOK /\ SchedInv /\ WaitType /\ WaitInv /\ [VcpuNext]_vcpuVars => WaitInv'
<1> SUFFICES ASSUME TypeOK, SchedInv, WaitType, WaitInv, [VcpuNext]_vcpuVars,
                    NEW t \in Thread
             PROVE  Waits(t)'
    BY Zenon DEF WaitInv, ExclusiveWait, NoLostSignal, SleeperIsRegistered, halted, Waits, Asleep
<1>0. Waits(t)
    BY Zenon, WaitInvIsWaits
<1> USE DEF WaitType, events, flow, goto, reset_event
<1>1. CASE UNCHANGED vcpuVars
    BY Zenon, <1>0, <1>1, StutterKeepsAwake, WaitsKept DEF vcpuVars
<1>2. ASSUME NEW u \in Thread, create_vcpu(u) PROVE Waits(t)'
    <2>1. CASE t = u
        BY Zenon, <1>0, <1>2, <2>1 DEF create_vcpu, Waits
    <2>2. CASE t # u
        <3>1. ~Asleep(t) => ~Asleep(t)'
            BY Zenon, <1>2, <2>2 DEF create_vcpu, init_thread_data, Asleep, is_blocked, TypeOK, Object
        <3> QED
            BY Zenon, <1>0, <1>2, <2>2, <3>1, WaitsKept DEF create_vcpu
    <2> QED
        BY Zenon, <2>1, <2>2
<1>3. ASSUME NEW u \in Thread, launch_vcpu(u) PROVE Waits(t)'
    <2>1. (t = u \/ ~Asleep(t)) => ~Asleep(t)'
        BY Zenon, <1>3, WakeWakes DEF launch_vcpu
    <2>2. CASE t = u
        BY Zenon, <1>0, <1>3, <2>1, <2>2 DEF launch_vcpu, Waits
    <2>3. CASE t # u
        BY Zenon, <1>0, <1>3, <2>1, <2>3, WaitsKept DEF launch_vcpu
    <2> QED
        BY Zenon, <2>2, <2>3
<1>4. ASSUME NEW u \in Thread, vcpu_thread(u) PROVE Waits(t)'
    <2>1. CASE loop_top(u)
        <3>1. ~Asleep(t) => ~Asleep(t)'
            BY Zenon, <2>1, HomeType, ScheduleKeepsAwake, StutterKeepsAwake DEF loop_top, schedule_vcpu
        <3>2. CASE t = u
            BY Zenon, <1>0, <2>1, <3>2, WaitsOutside DEF loop_top, Waits
        <3>3. CASE t # u
            BY Zenon, <1>0, <2>1, <3>1, <3>3, WaitsKept DEF loop_top
        <3> QED
            BY Zenon, <3>2, <3>3
    <2>2. CASE triple_fault(u)
        <3>1. CASE t = u
            BY Zenon, <1>0, <2>2, <3>1, WaitsOutside DEF triple_fault, Waits
        <3>2. CASE t # u
            <4>1. ~Asleep(t) => ~Asleep(t)'
                BY Zenon, <2>2, <3>2, SleepIsOwn, StutterKeepsAwake DEF triple_fault, zombie_vcpu
            <4> QED
                BY Zenon, <1>0, <2>2, <3>2, <4>1, WaitsKept DEF triple_fault, zombie_vcpu
        <3> QED
            BY Zenon, <3>1, <3>2
    <2>3. CASE wait_event(u)
        <3>1. CASE t = u
            BY Zenon, <1>0, <2>3, <3>1 DEF wait_event, Waits
        <3>2. CASE t # u
            <4>1. ~Asleep(t) => ~Asleep(t)'
                BY Zenon, <2>3, <3>2, SleepIsOwn, StutterKeepsAwake DEF wait_event
            <4> QED
                BY Zenon, <1>0, <2>3, <3>2, <4>1, WaitsKept DEF wait_event
        <3> QED
            BY Zenon, <3>1, <3>2
    <2>4. CASE wait_schedule(u)
        <3>1. ~Asleep(t) => ~Asleep(t)'
            BY Zenon, <2>4, HomeType, ScheduleKeepsAwake DEF wait_schedule, schedule_vcpu
        <3>2. CASE t = u
            BY Zenon, <1>0, <2>4, <3>1, <3>2 DEF wait_schedule, Waits
        <3>3. CASE t # u
            BY Zenon, <1>0, <2>4, <3>1, <3>3, WaitsKept DEF wait_schedule
        <3> QED
            BY Zenon, <3>2, <3>3
    <2>5. CASE test_request(u) \/ clear_request(u)
        <3>1. /\ UNCHANGED <<vars, vstate, ev_set, waiting>>
              /\ at[u] \in {"test", "clear"}
              /\ \E w \in {"clear", "reset", "test", "zombie"} : at' = [at EXCEPT ![u] = w]
            BY Zenon, <2>5 DEF test_request, clear_request, proceed
        <3>2. CASE t = u
            BY Zenon, <1>0, <3>1, <3>2, WaitsOutside DEF Waits
        <3>3. CASE t # u
            BY Zenon, <1>0, <3>1, <3>3, StutterKeepsAwake, WaitsKept
        <3> QED
            BY Zenon, <3>2, <3>3
    <2>6. CASE reset_interrupt_event(u)
        <3>1. CASE t = u
            BY Zenon, <2>6, <3>1, WaitsOutside DEF reset_interrupt_event
        <3>2. CASE t # u
            BY Zenon, <1>0, <2>6, <3>2, StutterKeepsAwake, WaitsKept DEF reset_interrupt_event
        <3> QED
            BY Zenon, <3>1, <3>2
    <2>7. CASE run_vcpu(u) \/ vmexit_irq(u) \/ set_request(u) \/ hlt_check(u)
        <3>1. /\ UNCHANGED <<vars, vstate, ev_set, waiting>>
              /\ at[u] \in {"run", "guest", "set", "hlt", "hlt_msip"}
              /\ \E w \in {"guest", "top", "hlt_msip", "wait"} : at' = [at EXCEPT ![u] = w]
            BY Zenon, <2>7 DEF run_vcpu, vmexit_irq, set_request, hlt_check
        <3>2. CASE t = u
            BY Zenon, <1>0, <3>1, <3>2, WaitsOutside DEF Waits
        <3>3. CASE t # u
            BY Zenon, <1>0, <3>1, <3>3, StutterKeepsAwake, WaitsKept
        <3> QED
            BY Zenon, <3>2, <3>3
    <2> QED
        BY Zenon, <1>4, <2>1, <2>2, <2>3, <2>4, <2>5, <2>6, <2>7 DEF vcpu_thread
<1>5. ASSUME NEW u \in Thread, guest(u) PROVE Waits(t)'
    <2>1. /\ UNCHANGED <<vars, vstate, ev_set, waiting>>
          /\ at[u] = "guest"
          /\ \E w \in {"hlt", "set"} : at' = [at EXCEPT ![u] = w]
        BY Zenon, <1>5 DEF guest, vmexit_hlt, vcpu_queue_exception
    <2>2. CASE t = u
        BY Zenon, <1>0, <2>1, <2>2, WaitsOutside DEF Waits
    <2>3. CASE t # u
        BY Zenon, <1>0, <2>1, <2>3, StutterKeepsAwake, WaitsKept
    <2> QED
        BY Zenon, <2>2, <2>3
<1>6. ASSUME NEW u \in Thread, reset_vcpu(u) \/ offline_vcpu(u) PROVE Waits(t)'
    <2>1. CASE t = u
        BY Zenon, <1>0, <1>6, <2>1 DEF reset_vcpu, offline_vcpu, Waits
    <2>2. CASE t # u
        BY Zenon, <1>0, <1>6, <2>2, StutterKeepsAwake, WaitsKept DEF reset_vcpu, offline_vcpu
    <2> QED
        BY Zenon, <2>1, <2>2
<1>7. ASSUME NEW p \in Pcpu, start_idle(p) \/ default_idle(p) \/ tick(p) \/ sswi_handler(p)
      PROVE  Waits(t)'
    <2>1. ~Asleep(t) => ~Asleep(t)'
        <3>1. CASE start_idle(p) \/ tick(p)
            BY Zenon, <3>1, ThreadsDistinct DEF start_idle, tick, run_idle_thread,
               make_reschedule_request, Asleep, is_blocked, TypeOK, Object
        <3>2. CASE default_idle(p)
            BY Zenon, <3>2, ScheduleKeepsAwake DEF default_idle, schedule_vcpu
        <3>3. CASE sswi_handler(p)
            BY Zenon, <3>3, StutterKeepsAwake DEF sswi_handler
        <3> QED
            BY Zenon, <1>7, <3>1, <3>2, <3>3
    <2> QED
        BY Zenon, <1>0, <1>7, <2>1, WaitsKept DEF start_idle, default_idle, tick, sswi_handler
<1>8. ASSUME NEW c \in Caller, NEW u \in Thread, calls(c, u) PROVE Waits(t)'
    <2>1. CASE call_signal(c, u)
        <3>1. ~Asleep(t) => ~Asleep(t)'
            BY Zenon, <2>1, WakeWakes, StutterKeepsAwake DEF call_signal, signal_event
        <3>2. CASE t = u
            <4>1. waiting[t] => ~Asleep(t)'
                BY Zenon, <2>1, <3>2, WakeWakes DEF call_signal, signal_event
            <4> QED
                BY Zenon, <1>0, <2>1, <3>1, <3>2, <4>1 DEF call_signal, signal_event, Waits
        <3>3. CASE t # u
            BY Zenon, <1>0, <2>1, <3>1, <3>3, WaitsKept DEF call_signal, signal_event
        <3> QED
            BY Zenon, <3>2, <3>3
    <2>2. CASE pause_zombie(c, u)
        <3>1. CASE t = u
            BY Zenon, <1>0, <2>2, <3>1, StutterKeepsAwake DEF pause_zombie, zombie_vcpu, Waits
        <3>2. CASE t # u
            <4>1. ~Asleep(t) => ~Asleep(t)'
                BY Zenon, <2>2, <3>2, SleepIsOwn, StutterKeepsAwake DEF pause_zombie, zombie_vcpu
            <4> QED
                BY Zenon, <1>0, <2>2, <3>2, <4>1, WaitsKept DEF pause_zombie, zombie_vcpu
        <3> QED
            BY Zenon, <3>1, <3>2
    <2>3. CASE call_load(c, u) \/ call_store(c, u) \/ kick_vcpu(c, u) \/ write_msip(c, u) \/ pause_sync(c, u)
        BY Zenon, <1>0, <2>3, StutterKeepsAwake, WaitsKept
           DEF call_load, call_store, kick_vcpu, write_msip, pause_sync
    <2> QED
        BY Zenon, <1>8, <2>1, <2>2, <2>3 DEF calls
<1>9. ASSUME NEW c \in Caller, NEW u \in Thread, NEW k \in Kinds, begin_call(c, k, u)
      PROVE  Waits(t)'
    BY Zenon, <1>0, <1>9, StutterKeepsAwake, WaitsKept DEF begin_call
<1> QED
    BY Zenon, <1>1, <1>2, <1>3, <1>4, <1>5, <1>6, <1>7, <1>8, <1>9 DEF VcpuNext

(* The wait of a halted vCPU is right in every reachable state: wait_event *)
(* asserts nothing false, no signal is lost and every sleeper is           *)
(* registered with its event, under pauses, resets and relaunches.         *)
THEOREM WaitCorrect == VcpuSpec => []WaitInv
<1>1. VcpuInit => WaitType /\ WaitInv
    BY DEF VcpuInit, WaitType, Where, VcpuState, WaitInv, ExclusiveWait, NoLostSignal,
           SleeperIsRegistered, halted
<1>2. VcpuSpec => [](TypeOK /\ SchedInv)
    BY Zenon, VcpuImplementsSched, SchedCorrect
<1>3. WaitType /\ [VcpuNext]_vcpuVars => WaitType'
    BY Zenon, WaitTypeStep
<1>4. TypeOK /\ SchedInv /\ WaitType /\ WaitInv /\ [VcpuNext]_vcpuVars => WaitInv'
    BY Zenon, WaitStep
<1> QED
    BY <1>1, <1>2, <1>3, <1>4, PTL DEF VcpuSpec

(* signal_event is never lost on a launched vCPU, for any number of        *)
(* signallers and any interleaving with sleep_thread and schedule().       *)
THEOREM SignalNotLost == VcpuSpec => []NoLostSignal
BY WaitCorrect, PTL DEF WaitInv

(* wait_event's assertion on exclusive waiting never fires.                *)
THEOREM WaitIsExclusive == VcpuSpec => []ExclusiveWait
BY WaitCorrect, PTL DEF WaitInv

(* Every launched vCPU that sleeps in wait_event can be reached by a       *)
(* signal, also one that was paused and reset while it slept.              *)
THEOREM SleeperReachable == VcpuSpec => []SleeperIsRegistered
BY WaitCorrect, PTL DEF WaitInv

-----------------------------------------------------------------------------
(* The types of the vCPU layer, and how a call goes from step to step.     *)

CallType ==
    call \in [Caller -> [kind : Kinds \cup {"none"}, vcpu : Thread \cup {NULL},
                         todo : Seq(Op), word : SUBSET Request]]

(* The part of the type invariant that the requests are about.             *)
RequestType ==
    /\ req \in [Thread -> Request]
    /\ word \in [Thread -> SUBSET Request]
    /\ pending \in [Thread -> SUBSET Request]
    /\ msip \in [Thread -> BOOLEAN]

(* The rest of it: exceptions and the per-pCPU variables.                  *)
PcpuType ==
    /\ exc \in [Thread -> Vector]
    /\ vcpu_run \in [Pcpu -> Thread \cup {NULL}]
    /\ swi \in [Pcpu -> BOOLEAN]

(* Caller c takes one step of its operation.                               *)
shortens(c) ==
    /\ call[c].todo # <<>>
    /\ call'[c].todo = Tail(call[c].todo)
    /\ call'[c].todo # <<>> => call'[c].vcpu = call[c].vcpu /\ call'[c].kind = call[c].kind
    /\ \A d \in Caller : d # c => call'[d] = call[d]

(* The operations are sequences of steps.                                  *)
LEMMA ScriptType == ASSUME NEW k \in Kinds PROVE script(k) \in Seq(Op)
<1> DEFINE steps == {<<"load", "store", "kick", "signal">>, <<"signal", "load", "store", "kick">>,
                     <<"msip0", "signal", "load", "store", "kick">>,
                     <<"msip1", "signal", "load", "store", "kick">>, <<"zombie", "sync">>}
<1>1. k \in {"extint", "nmi", "vclint_set_intr", "msip0", "msip1", "pause"}
    BY Zenon, KindsType
<1>2. script(k) \in steps
    BY Zenon, <1>1 DEF script
<1>3. /\ <<"load", "store", "kick", "signal">> \in Seq(Op)
      /\ <<"signal", "load", "store", "kick">> \in Seq(Op)
    BY DEF Op
<1>4. <<"msip0", "signal", "load", "store", "kick">> \in Seq(Op)
    BY DEF Op
<1>5. <<"msip1", "signal", "load", "store", "kick">> \in Seq(Op)
    BY DEF Op
<1>6. <<"zombie", "sync">> \in Seq(Op)
    BY DEF Op
<1> QED
    BY Zenon, <1>2, <1>3, <1>4, <1>5, <1>6

(* advance(c) is a step of c's operation.                                  *)
LEMMA AdvanceShortens ==
    ASSUME CallType, NEW c \in Caller, call[c].todo # <<>>, advance(c)
    PROVE  shortens(c) /\ CallType'
<1>1. /\ call[c].todo \in Seq(Op) /\ Tail(call[c].todo) \in Seq(Op)
      /\ call[c] \in [kind : Kinds \cup {"none"}, vcpu : Thread \cup {NULL},
                      todo : Seq(Op), word : SUBSET Request]
    BY DEF CallType
<1>2. CASE Tail(call[c].todo) = <<>>
    <2>1. call' = [call EXCEPT ![c] = NoCall]
        BY Zenon, <1>1, <1>2 DEF advance, CallType
    <2>2. NoCall \in [kind : Kinds \cup {"none"}, vcpu : Thread \cup {NULL},
                      todo : Seq(Op), word : SUBSET Request] /\ NoCall.todo = <<>>
        BY DEF NoCall
    <2> QED
        BY Zenon, <1>1, <1>2, <2>1, <2>2 DEF CallType, shortens
<1>3. CASE Tail(call[c].todo) # <<>>
    <2>1. call' = [call EXCEPT ![c] = [call[c] EXCEPT !.todo = Tail(call[c].todo)]]
        BY Zenon, <1>1, <1>3 DEF advance, CallType
    <2> QED
        BY Zenon, <1>1, <1>3, <2>1 DEF CallType, shortens
<1> QED
    BY Zenon, <1>2, <1>3

(* The load and the store of a request are steps of the operation too.     *)
LEMMA RequestShortens ==
    ASSUME CallType, RequestType, NEW c \in Caller, NEW t \in Thread,
           call_load(c, t) \/ call_store(c, t)
    PROVE  shortens(c) /\ CallType'
<1>1. /\ call[c].todo \in Seq(Op) /\ call[c].todo # <<>> /\ Tail(call[c].todo) \in Seq(Op)
      /\ call[c] \in [kind : Kinds \cup {"none"}, vcpu : Thread \cup {NULL},
                      todo : Seq(Op), word : SUBSET Request]
    BY DEF CallType, call_load, call_store, performs
<1>2. PICK w \in SUBSET Request :
          call' = [call EXCEPT ![c] = [call[c] EXCEPT !.todo = Tail(call[c].todo), !.word = w]]
    <2>1. CASE call_load(c, t)
        BY ZenonT(60), <2>1 DEF call_load, RequestType
    <2>2. CASE call_store(c, t)
        BY Zenon, <2>2 DEF call_store
    <2> QED
        BY Zenon, <2>1, <2>2
<1> QED
    BY Zenon, <1>1, <1>2 DEF CallType, shortens

(* Every step of a caller is a step of its operation, but for pauses of a  *)
(* vCPU that does not run, which end it.                                   *)
LEMMA CallShortens ==
    ASSUME CallType, RequestType, NEW c \in Caller, NEW t \in Thread, calls(c, t)
    PROVE  /\ CallType'
           /\ shortens(c) \/ (pause_zombie(c, t) /\ call' = [call EXCEPT ![c] = NoCall])
<1>1. CASE call_load(c, t) \/ call_store(c, t)
    BY Zenon, <1>1, RequestShortens
<1>2. CASE kick_vcpu(c, t) \/ call_signal(c, t) \/ write_msip(c, t) \/ pause_sync(c, t)
    BY Zenon, <1>2, AdvanceShortens DEF kick_vcpu, call_signal, write_msip, pause_sync, performs
<1>3. CASE pause_zombie(c, t)
    <2>1. CASE vstate[t] = "RUNNING"
        BY Zenon, <1>3, <2>1, AdvanceShortens DEF pause_zombie, performs
    <2>2. CASE vstate[t] # "RUNNING"
        <3>1. call' = [call EXCEPT ![c] = NoCall]
            BY Zenon, <1>3, <2>2 DEF pause_zombie
        <3>2. NoCall \in [kind : Kinds \cup {"none"}, vcpu : Thread \cup {NULL},
                          todo : Seq(Op), word : SUBSET Request]
            BY DEF NoCall
        <3> QED
            BY Zenon, <1>3, <3>1, <3>2 DEF CallType
    <2> QED
        BY Zenon, <2>1, <2>2
<1> QED
    BY Zenon, <1>1, <1>2, <1>3 DEF calls

(* Every step keeps the requests, the msip registers and the calls in      *)
(* their types.                                                            *)
LEMMA RequestTypeStep ==
    RequestType /\ CallType /\ [VcpuNext]_vcpuVars => RequestType' /\ CallType'
<1> SUFFICES ASSUME RequestType, CallType, [VcpuNext]_vcpuVars
             PROVE  RequestType' /\ CallType'
    BY Zenon
<1> USE DEF RequestType, Request, events, flow, goto, reset_event
<1>1. CASE UNCHANGED vcpuVars
    BY Zenon, <1>1 DEF vcpuVars, CallType
<1>2. ASSUME NEW t \in Thread, create_vcpu(t) \/ launch_vcpu(t) PROVE RequestType' /\ CallType'
    BY <1>2 DEF create_vcpu, launch_vcpu, CallType
<1>3. ASSUME NEW t \in Thread, vcpu_thread(t) PROVE RequestType' /\ CallType'
    <2>0. CallType'
        BY Zenon, <1>3 DEF vcpu_thread, loop_top, test_request, clear_request, triple_fault, wait_event,
                    reset_interrupt_event, run_vcpu, vmexit_irq, set_request, hlt_check,
                    wait_schedule, CallType
    <2>1. CASE loop_top(t) \/ test_request(t)
        BY Zenon, <2>0, <2>1 DEF loop_top, test_request, proceed, next_request
    <2>2. CASE clear_request(t)
        BY Zenon, <2>0, <2>2 DEF clear_request, proceed, next_request
    <2>3. CASE triple_fault(t) \/ wait_event(t) \/ wait_schedule(t) \/ hlt_check(t)
        BY Zenon, <2>0, <2>3 DEF triple_fault, wait_event, wait_schedule, hlt_check
    <2>4. CASE reset_interrupt_event(t) \/ run_vcpu(t) \/ vmexit_irq(t) \/ set_request(t)
        BY <2>0, <2>4 DEF reset_interrupt_event, run_vcpu, vmexit_irq, set_request
    <2> QED
        BY Zenon, <1>3, <2>1, <2>2, <2>3, <2>4 DEF vcpu_thread
<1>4. ASSUME NEW t \in Thread, guest(t) \/ reset_vcpu(t) \/ offline_vcpu(t)
      PROVE  RequestType' /\ CallType'
    <2>0. CallType'
        BY Zenon, <1>4 DEF guest, vmexit_hlt, vcpu_queue_exception, reset_vcpu, offline_vcpu, CallType
    <2>1. CASE guest(t)
        BY <2>0, <2>1 DEF guest, vmexit_hlt, vcpu_queue_exception
    <2>2. CASE reset_vcpu(t) \/ offline_vcpu(t)
        BY Zenon, <2>0, <2>2 DEF reset_vcpu, offline_vcpu
    <2> QED
        BY Zenon, <1>4, <2>1, <2>2
<1>5. ASSUME NEW p \in Pcpu, start_idle(p) \/ default_idle(p) \/ tick(p) \/ sswi_handler(p)
      PROVE  RequestType' /\ CallType'
    BY Zenon, <1>5 DEF start_idle, default_idle, tick, sswi_handler, CallType
<1>6. ASSUME NEW c \in Caller, NEW t \in Thread, calls(c, t) PROVE RequestType' /\ CallType'
    <2>1. CallType'
        BY Zenon, <1>6, CallShortens
    <2>2. call[c].word \in SUBSET Request
        BY Zenon DEF CallType
    <2>3. CASE call_store(c, t)
        <3>1. call[c].word \cup {request_of(call[c].kind)} \in SUBSET Request
            BY Zenon, <2>2 DEF request_of
        <3> QED
            BY Zenon, <2>1, <2>3, <3>1 DEF call_store
    <2>4. CASE write_msip(c, t)
        BY Zenon, <2>1, <2>4 DEF write_msip
    <2>5. CASE call_load(c, t) \/ call_signal(c, t) \/ pause_zombie(c, t) \/ kick_vcpu(c, t) \/ pause_sync(c, t)
        BY Zenon, <2>1, <2>5 DEF call_load, call_signal, pause_zombie, kick_vcpu, pause_sync
    <2> QED
        BY Zenon, <1>6, <2>3, <2>4, <2>5 DEF calls
<1>7. ASSUME NEW c \in Caller, NEW t \in Thread, NEW k \in Kinds, begin_call(c, k, t)
      PROVE  RequestType' /\ CallType'
    <2>1. call' \in [Caller -> [kind : Kinds \cup {"none"}, vcpu : Thread \cup {NULL},
                                todo : Seq(Op), word : SUBSET Request]]
        BY Zenon, <1>7, ScriptType DEF begin_call, CallType
    <2> QED
        BY Zenon, <1>7, <2>1 DEF begin_call, CallType
<1> QED
    BY Zenon, <1>1, <1>2, <1>3, <1>4, <1>5, <1>6, <1>7 DEF VcpuNext

(* Every step keeps the exceptions, the loaded vCPUs and the software      *)
(* interrupts in their types.                                              *)
LEMMA PcpuTypeStep ==
    TypeOK /\ TypeOK' /\ PcpuType /\ [VcpuNext]_vcpuVars => PcpuType'
<1> SUFFICES ASSUME TypeOK, TypeOK', PcpuType, [VcpuNext]_vcpuVars
             PROVE  PcpuType'
    BY Zenon
<1> USE HomeType DEF PcpuType, events, flow
<1>1. CASE UNCHANGED vcpuVars
    BY Zenon, <1>1 DEF vcpuVars
<1>2. ASSUME NEW t \in Thread, create_vcpu(t) \/ launch_vcpu(t) PROVE PcpuType'
    BY Zenon, <1>2 DEF create_vcpu, launch_vcpu, is_blocked
<1>3. ASSUME NEW t \in Thread, vcpu_thread(t) PROVE PcpuType'
    <2>1. CASE loop_top(t)
        BY Zenon, <2>1 DEF loop_top, schedule_vcpu
    <2>2. CASE clear_request(t)
        BY Zenon, <2>2 DEF clear_request, Vector
    <2>3. CASE wait_schedule(t)
        BY Zenon, <2>3 DEF wait_schedule, schedule_vcpu
    <2>4. CASE test_request(t) \/ triple_fault(t) \/ wait_event(t) \/ hlt_check(t)
        BY Zenon, <2>4 DEF test_request, triple_fault, wait_event, hlt_check
    <2>5. CASE reset_interrupt_event(t) \/ run_vcpu(t) \/ vmexit_irq(t) \/ set_request(t)
        BY <2>5 DEF reset_interrupt_event, run_vcpu, vmexit_irq, set_request
    <2> QED
        BY Zenon, <1>3, <2>1, <2>2, <2>3, <2>4, <2>5 DEF vcpu_thread
<1>4. ASSUME NEW t \in Thread, guest(t) \/ reset_vcpu(t) \/ offline_vcpu(t) PROVE PcpuType'
    <2>1. CASE guest(t)
        BY ZenonT(60), <2>1, FaultsType DEF guest, vmexit_hlt, vcpu_queue_exception, Vector
    <2>2. CASE reset_vcpu(t) \/ offline_vcpu(t)
        BY Zenon, <2>2 DEF reset_vcpu, offline_vcpu, Vector
    <2> QED
        BY Zenon, <1>4, <2>1, <2>2
<1>5. ASSUME NEW p \in Pcpu, start_idle(p) \/ default_idle(p) \/ tick(p) \/ sswi_handler(p)
      PROVE  PcpuType'
    BY Zenon, <1>5 DEF start_idle, default_idle, tick, sswi_handler, schedule_vcpu
<1>6. ASSUME NEW c \in Caller, NEW t \in Thread, calls(c, t) PROVE PcpuType'
    <2>1. CASE call_signal(c, t)
        BY Zenon, <2>1 DEF call_signal, signal_event, is_blocked
    <2>2. CASE kick_vcpu(c, t) \/ pause_zombie(c, t)
        BY Zenon, <2>2 DEF kick_vcpu, pause_zombie, is_running
    <2>3. CASE call_load(c, t) \/ call_store(c, t) \/ write_msip(c, t) \/ pause_sync(c, t)
        BY Zenon, <2>3 DEF call_load, call_store, write_msip, pause_sync
    <2> QED
        BY Zenon, <1>6, <2>1, <2>2, <2>3 DEF calls
<1>7. ASSUME NEW c \in Caller, NEW t \in Thread, NEW k \in Kinds, begin_call(c, k, t)
      PROVE  PcpuType'
    BY Zenon, <1>7 DEF begin_call
<1> QED
    BY Zenon, <1>1, <1>2, <1>3, <1>4, <1>5, <1>6, <1>7 DEF VcpuNext

(* The vCPU layer keeps all its variables in their types: the vectors it   *)
(* injects, the requests it tests and the steps its callers are at.        *)
THEOREM VcpuTyped == VcpuSpec => []VcpuTypeOK
<1>1. VcpuInit => WaitType /\ RequestType /\ CallType /\ PcpuType
    BY DEF VcpuInit, WaitType, Where, VcpuState, RequestType, Request, CallType, NoCall,
           PcpuType, Vector
<1>2. VcpuSpec => []TypeOK
    BY VcpuImplementsSched, SchedCorrect, PTL
<1>3. WaitType /\ [VcpuNext]_vcpuVars => WaitType'
    BY Zenon, WaitTypeStep
<1>4. RequestType /\ CallType /\ [VcpuNext]_vcpuVars => (RequestType /\ CallType)'
    BY Zenon, RequestTypeStep
<1>5. TypeOK /\ TypeOK' /\ PcpuType /\ [VcpuNext]_vcpuVars => PcpuType'
    BY Zenon, PcpuTypeStep
<1>6. TypeOK /\ WaitType /\ RequestType /\ CallType /\ PcpuType => VcpuTypeOK
    BY Zenon DEF VcpuTypeOK, WaitType, RequestType, CallType, PcpuType
<1> QED
    BY <1>1, <1>2, <1>3, <1>4, <1>5, <1>6, PTL DEF VcpuSpec

-----------------------------------------------------------------------------
(* A stopped vCPU stays asleep, while nothing but pauses is done to it.    *)

(* A context switch leaves every sleeper asleep: it picks from the queue,  *)
(* and one that was asked to sleep is not in it.                           *)
LEMMA ScheduleKeepsAsleep ==
    ASSUME TypeOK, SchedInv, NEW p \in Pcpu, schedule(p), NEW t \in Thread, Asleep(t)
    PROVE  Asleep(t)'
<1> USE HomeType, ThreadsDistinct DEF TypeOK, Object, Asleep, is_blocked
<1>1. PICK next \in pick_next(p) : schedule_to(p, next)
    BY Zenon DEF schedule
<1>2. curr_obj[p] \in Object /\ next \in Object
    BY Zenon, <1>1 DEF pick_next, schedule_to
<1>3. next # t
    BY <1>1 DEF pick_next, SchedInv, QueueMatchesStatus, QueueIsLocal
<1>4. CASE curr_obj[p] = next
    BY Zenon, <1>1, <1>4 DEF schedule_to
<1>5. CASE curr_obj[p] # next
    <2>1. CASE curr_obj[p] = t
        <3>1. be_blocking[t]
            BY <2>1 DEF SchedInv, RunningIsCurrent, CurrentIsLocal, is_running, pcpu_id
        <3> QED
            BY Zenon, <1>1, <1>2, <1>3, <1>5, <2>1, <3>1 DEF schedule_to, switch_status
    <2>2. CASE curr_obj[p] # t
        BY Zenon, <1>1, <1>2, <1>3, <1>5, <2>2 DEF schedule_to, switch_status
    <2> QED
        BY Zenon, <2>1, <2>2
<1> QED
    BY Zenon, <1>4, <1>5

(* sleep_thread puts its thread to sleep and wakes no other.               *)
LEMMA SleepSleeps ==
    ASSUME TypeOK, NEW u \in Thread, sleep_thread(u), NEW t \in Thread
    PROVE  (t = u \/ Asleep(t)) => Asleep(t)'
BY HomeType, ThreadsDistinct DEF TypeOK, Object, Asleep, is_blocked, is_running, sleep_thread

(* wake_thread wakes no other thread.                                      *)
LEMMA WakeIsOwn ==
    ASSUME TypeOK, NEW u \in Thread, wake_thread(u), NEW t \in Thread, t # u, Asleep(t)
    PROVE  Asleep(t)'
BY HomeType, ThreadsDistinct DEF TypeOK, Object, Asleep, is_blocked, wake_thread

(* A step that is none of the scheduler's leaves a sleeper asleep.         *)
LEMMA StutterKeepsAsleep ==
    ASSUME UNCHANGED vars, NEW t \in Thread, Asleep(t)
    PROVE  Asleep(t)'
BY Zenon DEF vars, Asleep, is_blocked

(* No operation of a caller has a signal still to send.                    *)
NoSignal == \A c \in Caller : \A i \in DOMAIN call[c].todo : call[c].todo[i] # "signal"

(* A vCPU that is created, paused, reset or taken offline is asleep.       *)
StoppedSleeps ==
    \A t \in Thread : vstate[t] \in {"INIT", "ZOMBIE", "OFFLINE"} => Asleep(t)


(* A caller that only pauses sends no signal.                              *)
LEMMA NoSignalStep ==
    ASSUME Kinds \subseteq {"pause"}
    PROVE  CallType /\ RequestType /\ NoSignal /\ [VcpuNext]_vcpuVars => NoSignal'
<1> SUFFICES ASSUME CallType, RequestType, NoSignal, [VcpuNext]_vcpuVars PROVE NoSignal'
    BY Zenon
<1>1. CASE UNCHANGED call
    BY Zenon, <1>1 DEF NoSignal
<1>2. ASSUME NEW c \in Caller, NEW t \in Thread, calls(c, t) PROVE NoSignal'
    <2>1. call[c].todo \in Seq(Op)
        BY Zenon DEF CallType
    <2>2. CASE shortens(c)
        <3>1. \A i \in DOMAIN call'[c].todo : i + 1 \in DOMAIN call[c].todo
                                             /\ call'[c].todo[i] = call[c].todo[i + 1]
            BY <2>1, <2>2 DEF shortens
        <3>2. \A i \in DOMAIN call'[c].todo : call'[c].todo[i] # "signal"
            BY Zenon, <3>1 DEF NoSignal
        <3>3. \A d \in Caller : d # c => call'[d] = call[d]
            BY Zenon, <2>2 DEF shortens
        <3> QED
            BY Zenon, <3>2, <3>3 DEF NoSignal
    <2>3. CASE call' = [call EXCEPT ![c] = NoCall]
        BY <2>3 DEF NoSignal, NoCall, CallType
    <2> QED
        BY Zenon, <1>2, <2>2, <2>3, CallShortens
<1>3. ASSUME NEW c \in Caller, NEW t \in Thread, NEW k \in Kinds, begin_call(c, k, t) PROVE NoSignal'
    <2>1. script(k) = <<"zombie", "sync">>
        BY Zenon DEF script
    <2>2. \A i \in DOMAIN script(k) : script(k)[i] # "signal"
        BY <2>1
    <2>3. call' = [call EXCEPT ![c] = [kind |-> k, vcpu |-> t, todo |-> script(k), word |-> {}]]
        BY Zenon, <1>3 DEF begin_call
    <2> QED
        BY Zenon, <2>2, <2>3 DEF NoSignal, CallType
<1>4. ASSUME NEW t \in Thread, vcpu_thread(t) \/ guest(t) PROVE UNCHANGED call
    BY Zenon, <1>4 DEF vcpu_thread, loop_top, test_request, clear_request, triple_fault, wait_event,
                reset_interrupt_event, run_vcpu, vmexit_irq, set_request, hlt_check,
                wait_schedule, guest, vmexit_hlt, vcpu_queue_exception
<1>5. ASSUME NEW t \in Thread,
             create_vcpu(t) \/ launch_vcpu(t) \/ reset_vcpu(t) \/ offline_vcpu(t)
      PROVE  UNCHANGED call
    BY Zenon, <1>5 DEF create_vcpu, launch_vcpu, reset_vcpu, offline_vcpu
<1>6. ASSUME NEW p \in Pcpu, start_idle(p) \/ default_idle(p) \/ tick(p) \/ sswi_handler(p)
      PROVE  UNCHANGED call
    BY Zenon, <1>6 DEF start_idle, default_idle, tick, sswi_handler
<1> QED
    BY Zenon, <1>1, <1>2, <1>3, <1>4, <1>5, <1>6 DEF VcpuNext, vcpuVars

(* Every step keeps stopped vCPUs asleep: only launch_vcpu wakes one up.   *)
LEMMA StoppedStep ==
    ASSUME Kinds \subseteq {"pause"}
    PROVE  TypeOK /\ SchedInv /\ WaitType /\ CallType /\ NoSignal /\ StoppedSleeps
               /\ [VcpuNext]_vcpuVars => StoppedSleeps'
<1> SUFFICES ASSUME TypeOK, SchedInv, WaitType, CallType, NoSignal, StoppedSleeps,
                    [VcpuNext]_vcpuVars, NEW t \in Thread,
                    vstate'[t] \in {"INIT", "ZOMBIE", "OFFLINE"}
             PROVE  Asleep(t)'
    BY Zenon DEF StoppedSleeps, Asleep, is_blocked
<1>0. vstate[t] \in {"INIT", "ZOMBIE", "OFFLINE"} => Asleep(t)
    BY Zenon DEF StoppedSleeps
<1> USE DEF WaitType
<1>1. CASE UNCHANGED vcpuVars
    BY Zenon, <1>0, <1>1, StutterKeepsAsleep DEF vcpuVars
<1>2. ASSUME NEW u \in Thread, create_vcpu(u) PROVE Asleep(t)'
    BY Zenon, <1>0, <1>2 DEF create_vcpu, init_thread_data, Asleep, is_blocked, TypeOK, Object
<1>3. ASSUME NEW u \in Thread, launch_vcpu(u) PROVE Asleep(t)'
    <2>1. t # u /\ vstate'[t] = vstate[t]
        BY Zenon, <1>3 DEF launch_vcpu
    <2> QED
        BY Zenon, <1>0, <1>3, <2>1, WakeIsOwn DEF launch_vcpu
<1>4. ASSUME NEW u \in Thread, vcpu_thread(u) PROVE Asleep(t)'
    <2>1. CASE loop_top(u)
        BY Zenon, <1>0, <2>1, HomeType, ScheduleKeepsAsleep, StutterKeepsAsleep DEF loop_top, schedule_vcpu
    <2>2. CASE triple_fault(u)
        <3>1. CASE vstate[u] = "RUNNING"
            BY Zenon, <1>0, <2>2, <3>1, SleepSleeps DEF triple_fault, zombie_vcpu
        <3>2. CASE vstate[u] # "RUNNING"
            BY Zenon, <1>0, <2>2, <3>2, StutterKeepsAsleep DEF triple_fault, zombie_vcpu
        <3> QED
            BY Zenon, <3>1, <3>2
    <2>3. CASE wait_event(u)
        BY Zenon, <1>0, <2>3, SleepSleeps, StutterKeepsAsleep DEF wait_event
    <2>4. CASE wait_schedule(u)
        BY Zenon, <1>0, <2>4, HomeType, ScheduleKeepsAsleep DEF wait_schedule, schedule_vcpu
    <2>5. CASE test_request(u) \/ clear_request(u) \/ reset_interrupt_event(u) \/ run_vcpu(u)
        BY Zenon, <1>0, <2>5, StutterKeepsAsleep
           DEF test_request, clear_request, reset_interrupt_event, run_vcpu
    <2>6. CASE vmexit_irq(u) \/ set_request(u) \/ hlt_check(u)
        BY Zenon, <1>0, <2>6, StutterKeepsAsleep DEF vmexit_irq, set_request, hlt_check
    <2> QED
        BY Zenon, <1>4, <2>1, <2>2, <2>3, <2>4, <2>5, <2>6 DEF vcpu_thread
<1>5. ASSUME NEW u \in Thread, guest(u) \/ reset_vcpu(u) \/ offline_vcpu(u) PROVE Asleep(t)'
    BY Zenon, <1>0, <1>5, StutterKeepsAsleep
       DEF guest, vmexit_hlt, vcpu_queue_exception, reset_vcpu, offline_vcpu
<1>6. ASSUME NEW p \in Pcpu, start_idle(p) \/ default_idle(p) \/ tick(p) \/ sswi_handler(p)
      PROVE  Asleep(t)'
    <2>1. vstate' = vstate
        BY Zenon, <1>6 DEF start_idle, default_idle, tick, sswi_handler
    <2>2. CASE start_idle(p) \/ tick(p)
        BY <1>0, <2>1, <2>2, ThreadsDistinct DEF start_idle, tick, run_idle_thread,
           make_reschedule_request, Asleep, is_blocked, TypeOK, Object
    <2>3. CASE default_idle(p)
        BY Zenon, <1>0, <2>1, <2>3, ScheduleKeepsAsleep DEF default_idle, schedule_vcpu
    <2>4. CASE sswi_handler(p)
        BY Zenon, <1>0, <2>1, <2>4, StutterKeepsAsleep DEF sswi_handler
    <2> QED
        BY Zenon, <1>6, <2>2, <2>3, <2>4
<1>7. ASSUME NEW c \in Caller, NEW u \in Thread, calls(c, u) PROVE Asleep(t)'
    <2>1. ~call_signal(c, u)
        BY DEF NoSignal, call_signal, performs, CallType
    <2>2. CASE pause_zombie(c, u)
        <3>1. CASE vstate[u] = "RUNNING"
            BY Zenon, <1>0, <2>2, <3>1, SleepSleeps DEF pause_zombie, zombie_vcpu
        <3>2. CASE vstate[u] # "RUNNING"
            BY Zenon, <1>0, <2>2, <3>2, StutterKeepsAsleep DEF pause_zombie, zombie_vcpu
        <3> QED
            BY Zenon, <3>1, <3>2
    <2>3. CASE call_load(c, u) \/ call_store(c, u) \/ kick_vcpu(c, u) \/ write_msip(c, u) \/ pause_sync(c, u)
        BY Zenon, <1>0, <2>3, StutterKeepsAsleep
           DEF call_load, call_store, kick_vcpu, write_msip, pause_sync
    <2> QED
        BY Zenon, <1>7, <2>1, <2>2, <2>3 DEF calls
<1>8. ASSUME NEW c \in Caller, NEW u \in Thread, NEW k \in Kinds, begin_call(c, k, u)
      PROVE  Asleep(t)'
    BY Zenon, <1>0, <1>8, StutterKeepsAsleep DEF begin_call
<1> QED
    BY Zenon, <1>1, <1>2, <1>3, <1>4, <1>5, <1>6, <1>7, <1>8 DEF VcpuNext

(* A vCPU that is paused stays off its pCPU, through its own halts, triple *)
(* faults and context switches and through any number of pauses and        *)
(* resets.  (An interrupt that is injected into a paused vCPU wakes it:    *)
(* the hypothesis is needed.)                                              *)
THEOREM PausedSleeps ==
    ASSUME Kinds \subseteq {"pause"}
    PROVE  VcpuSpec => []ZombieSleeps
<1>1. VcpuInit => NoSignal /\ StoppedSleeps
    BY DEF VcpuInit, NoSignal, NoCall, StoppedSleeps
<1>2. VcpuSpec => [](TypeOK /\ SchedInv)
    BY Zenon, VcpuImplementsSched, SchedCorrect
<1>3. VcpuTypeOK => WaitType /\ RequestType /\ CallType
    BY Zenon DEF VcpuTypeOK, WaitType, RequestType, CallType
<1>4. CallType /\ RequestType /\ NoSignal /\ [VcpuNext]_vcpuVars => NoSignal'
    BY Zenon, NoSignalStep
<1>5. TypeOK /\ SchedInv /\ WaitType /\ CallType /\ NoSignal /\ StoppedSleeps
          /\ [VcpuNext]_vcpuVars => StoppedSleeps'
    BY Zenon, StoppedStep
<1>6. StoppedSleeps => ZombieSleeps
    BY Zenon DEF StoppedSleeps, ZombieSleeps, Asleep
<1> QED
    BY <1>1, <1>2, VcpuTyped, <1>3, <1>4, <1>5, <1>6, PTL DEF VcpuSpec

-----------------------------------------------------------------------------
(* A halted vCPU misses no interrupt, while nobody pauses it.              *)

(* What a caller does to the requests or to msip without requesting EVENT  *)
(* is followed by its signal.                                              *)
notifies(s, kind) ==
    \A i \in DOMAIN s :
        /\ s[i] # "zombie"
        /\ s[i] = "msip1" \/ (s[i] = "store" /\ request_of(kind) # "EVENT")
               => \E j \in DOMAIN s : j > i /\ s[j] = "signal"

CallsNotify == \A c \in Caller : notifies(call[c].todo, call[c].kind)

(* A thread object that is not set up has not entered vcpu_thread.         *)
NotEntered == \A t \in Thread : status[t] = "NONE" => at[t] = "top"

(* hlt_vmexit_handler is past its look at pending_req, or at msip, and     *)
(* there is something to see.                                              *)
overlooks(t) ==
    \/ /\ at[t] \in {"hlt_msip", "wait", "wait_sched", "wait_check"}
       /\ pending[t] # {} /\ "EVENT" \notin pending[t]
    \/ at[t] \in {"wait", "wait_sched", "wait_check"} /\ msip[t]

(* What the handler overlooks has been signalled, or will be.              *)
HaltInv == \A t \in Thread : overlooks(t) => ev_set[t] \/ about_to_signal(t)

(* The operations that callers perform signal after what they notify of.   *)
LEMMA ScriptNotifies ==
    ASSUME "pause" \notin Kinds, NEW k \in Kinds
    PROVE  notifies(script(k), k)
<1>1. k \in {"extint", "nmi", "vclint_set_intr", "msip0", "msip1"}
    BY Zenon, KindsType
<1>2. CASE k \in {"extint", "nmi"}
    <2>1. script(k) = <<"load", "store", "kick", "signal">>
        BY Zenon, <1>2 DEF script
    <2> QED
        BY <2>1 DEF notifies
<1>3. CASE k = "vclint_set_intr"
    <2>1. script(k) = <<"signal", "load", "store", "kick">> /\ request_of(k) = "EVENT"
        BY Zenon, <1>3 DEF script, request_of
    <2> QED
        BY <2>1 DEF notifies
<1>4. CASE k \in {"msip0", "msip1"}
    <2>1. script(k) = <<k, "signal", "load", "store", "kick">> /\ request_of(k) = "EVENT"
        BY Zenon, <1>4 DEF script, request_of
    <2> QED
        BY <1>4, <2>1 DEF notifies
<1> QED
    BY Zenon, <1>1, <1>2, <1>3, <1>4

(* The steps that are left after the first keep their order.               *)
LEMMA TailShifts ==
    ASSUME NEW s \in Seq(Op), s # <<>>, NEW i \in DOMAIN s, i # 1
    PROVE  i - 1 \in DOMAIN Tail(s) /\ Tail(s)[i - 1] = s[i]
<1>1. DOMAIN s = 1 .. Len(s) /\ Len(s) \in Nat /\ DOMAIN Tail(s) = 1 .. (Len(s) - 1)
    OBVIOUS
<1>2. i - 1 \in 1 .. (Len(s) - 1) /\ (i - 1) + 1 = i
    BY <1>1
<1>3. Tail(s)[i - 1] = s[(i - 1) + 1]
    BY <1>2
<1> QED
    BY <1>1, <1>2, <1>3

(* A caller that is about to signal still is after its next step, unless   *)
(* that step is the signal.                                                *)
LEMMA StillSignals ==
    ASSUME CallType, NEW c \in Caller, shortens(c), NEW t \in Thread, about_to_signal(t),
           call[c].vcpu = t => Head(call[c].todo) # "signal"
    PROVE  about_to_signal(t)'
<1>0. PICK d \in Caller : call[d].vcpu = t /\ \E i \in DOMAIN call[d].todo : call[d].todo[i] = "signal"
    BY Zenon DEF about_to_signal
<1>1. PICK i \in DOMAIN call[d].todo : call[d].vcpu = t /\ call[d].todo[i] = "signal"
    BY Zenon, <1>0
<1>2. CASE d # c
    BY Zenon, <1>1, <1>2 DEF shortens, about_to_signal
<1>3. CASE d = c
    <2>1. call[c].todo \in Seq(Op) /\ call[c].todo # <<>>
        BY Zenon DEF CallType, shortens
    <2>2. i # 1 /\ i \in 1 .. Len(call[c].todo)
        BY <1>1, <1>3, <2>1
    <2>3. i - 1 \in DOMAIN Tail(call[c].todo) /\ Tail(call[c].todo)[i - 1] = "signal"
        BY Zenon, <1>1, <1>3, <2>1, <2>2, TailShifts
    <2>4. i - 1 \in DOMAIN call'[c].todo /\ call'[c].todo[i - 1] = "signal"
        BY Zenon, <2>3 DEF shortens
    <2>5. call'[c].todo # <<>>
        BY <2>4
    <2>6. call'[c].vcpu = t
        BY Zenon, <1>1, <1>3, <2>5 DEF shortens
    <2> QED
        BY Zenon, <2>4, <2>6 DEF about_to_signal
<1> QED
    BY Zenon, <1>2, <1>3

(* After a step that has to be notified the caller is about to signal.     *)
LEMMA ThenSignals ==
    ASSUME CallType, CallsNotify, NEW c \in Caller, shortens(c), NEW t \in Thread,
           call[c].vcpu = t,
           \/ Head(call[c].todo) = "msip1"
           \/ Head(call[c].todo) = "store" /\ request_of(call[c].kind) # "EVENT"
    PROVE  about_to_signal(t)'
<1>1. call[c].todo \in Seq(Op) /\ call[c].todo # <<>>
    BY Zenon DEF CallType, shortens
<1>2. 1 \in DOMAIN call[c].todo /\ call[c].todo[1] = Head(call[c].todo)
    BY <1>1
<1>3. PICK j \in DOMAIN call[c].todo : j > 1 /\ call[c].todo[j] = "signal"
    BY Zenon, <1>2 DEF CallsNotify, notifies
<1>4. j - 1 \in DOMAIN Tail(call[c].todo) /\ Tail(call[c].todo)[j - 1] = "signal"
    <2>1. j # 1
        BY <1>1, <1>3
    <2> QED
        BY Zenon, <1>1, <1>3, <2>1, TailShifts
<1>5. j - 1 \in DOMAIN call'[c].todo /\ call'[c].todo[j - 1] = "signal"
    BY Zenon, <1>4 DEF shortens
<1>6. call'[c].todo # <<>>
    BY <1>5
<1>7. call'[c].vcpu = t
    BY Zenon, <1>6 DEF shortens
<1> QED
    BY Zenon, <1>5, <1>7 DEF about_to_signal

(* What follows a notification goes on following it.                       *)
LEMMA NotifyKept ==
    ASSUME CallType, CallsNotify, NEW c \in Caller, shortens(c)
    PROVE  CallsNotify'
<1>1. call[c].todo \in Seq(Op) /\ call[c].todo # <<>>
    BY Zenon DEF CallType, shortens
<1>2. \A i \in DOMAIN Tail(call[c].todo) :
          i + 1 \in DOMAIN call[c].todo /\ Tail(call[c].todo)[i] = call[c].todo[i + 1]
    BY <1>1
<1>3. ASSUME NEW i \in DOMAIN Tail(call[c].todo), NEW j \in DOMAIN call[c].todo, j > i + 1
      PROVE  j - 1 \in DOMAIN Tail(call[c].todo) /\ j - 1 > i
             /\ Tail(call[c].todo)[j - 1] = call[c].todo[j]
    <2>1. /\ DOMAIN call[c].todo = 1 .. Len(call[c].todo) /\ Len(call[c].todo) \in Nat
          /\ DOMAIN Tail(call[c].todo) = 1 .. (Len(call[c].todo) - 1)
        BY <1>1
    <2>2. j - 1 \in DOMAIN Tail(call[c].todo) /\ j - 1 > i /\ (j - 1) + 1 = j
        BY <1>3, <2>1
    <2> QED
        BY Zenon, <1>2, <2>2
<1>4. notifies(call[c].todo, call[c].kind)
    BY Zenon DEF CallsNotify
<1>5. notifies(Tail(call[c].todo), call[c].kind)
    BY <1>2, <1>3, <1>4 DEF notifies
<1>6. notifies(call'[c].todo, call'[c].kind)
    <2>1. CASE call'[c].todo = <<>>
        BY <2>1 DEF notifies
    <2>2. CASE call'[c].todo # <<>>
        BY Zenon, <1>5, <2>2 DEF shortens
    <2> QED
        BY Zenon, <2>1, <2>2
<1>7. \A d \in Caller : d # c => call'[d] = call[d]
    BY Zenon DEF shortens
<1> QED
    BY Zenon, <1>6, <1>7 DEF CallsNotify

(* Every step keeps the operations notifying.                              *)
LEMMA NotifyStep ==
    ASSUME "pause" \notin Kinds
    PROVE  CallType /\ RequestType /\ CallsNotify /\ [VcpuNext]_vcpuVars => CallsNotify'
<1> SUFFICES ASSUME CallType, RequestType, CallsNotify, [VcpuNext]_vcpuVars PROVE CallsNotify'
    BY Zenon
<1>1. CASE UNCHANGED call
    BY Zenon, <1>1 DEF CallsNotify
<1>2. ASSUME NEW c \in Caller, NEW t \in Thread, calls(c, t) PROVE CallsNotify'
    <2>1. ~pause_zombie(c, t)
        <3>1. call[c].todo \in Seq(Op)
            BY Zenon DEF CallType
        <3>2. call[c].todo # <<>> => 1 \in DOMAIN call[c].todo /\ call[c].todo[1] = Head(call[c].todo)
            BY <3>1
        <3> QED
            BY Zenon, <3>2 DEF pause_zombie, performs, CallsNotify, notifies
    <2> QED
        BY Zenon, <1>2, <2>1, CallShortens, NotifyKept
<1>3. ASSUME NEW c \in Caller, NEW t \in Thread, NEW k \in Kinds, begin_call(c, k, t)
      PROVE  CallsNotify'
    <2>1. call' = [call EXCEPT ![c] = [kind |-> k, vcpu |-> t, todo |-> script(k), word |-> {}]]
        BY Zenon, <1>3 DEF begin_call
    <2>2. /\ call'[c].todo = script(k) /\ call'[c].kind = k
          /\ \A d \in Caller : d # c => call'[d] = call[d]
        BY Zenon, <2>1 DEF CallType
    <2> QED
        BY Zenon, <2>2, ScriptNotifies DEF CallsNotify
<1>4. ASSUME NEW t \in Thread, vcpu_thread(t) \/ guest(t) PROVE UNCHANGED call
    BY Zenon, <1>4 DEF vcpu_thread, loop_top, test_request, clear_request, triple_fault, wait_event,
                reset_interrupt_event, run_vcpu, vmexit_irq, set_request, hlt_check,
                wait_schedule, guest, vmexit_hlt, vcpu_queue_exception
<1>5. ASSUME NEW t \in Thread,
             create_vcpu(t) \/ launch_vcpu(t) \/ reset_vcpu(t) \/ offline_vcpu(t)
      PROVE  UNCHANGED call
    BY Zenon, <1>5 DEF create_vcpu, launch_vcpu, reset_vcpu, offline_vcpu
<1>6. ASSUME NEW p \in Pcpu, start_idle(p) \/ default_idle(p) \/ tick(p) \/ sswi_handler(p)
      PROVE  UNCHANGED call
    BY Zenon, <1>6 DEF start_idle, default_idle, tick, sswi_handler
<1> QED
    BY Zenon, <1>1, <1>2, <1>3, <1>4, <1>5, <1>6 DEF VcpuNext, vcpuVars

(* A thread object is set up once.                                         *)
LEMMA SetUpStays ==
    ASSUME TypeOK, SchedInv, [Next]_vars, NEW t \in Thread, status'[t] = "NONE"
    PROVE  status[t] = "NONE"
<1> USE HomeType, ThreadsDistinct DEF TypeOK, Object
<1>1. CASE UNCHANGED vars
    BY Zenon, <1>1 DEF vars
<1>2. ASSUME NEW u \in Thread, init_thread_data(u) \/ sleep_thread(u) \/ wake_thread(u)
      PROVE  status[t] = "NONE"
    BY <1>2 DEF init_thread_data, sleep_thread, wake_thread
<1>3. ASSUME NEW p \in Pcpu, run_idle_thread(p) \/ make_reschedule_request(p)
      PROVE  status[t] = "NONE"
    BY Zenon, <1>3 DEF run_idle_thread, make_reschedule_request
<1>4. ASSUME NEW p \in Pcpu, schedule(p) PROVE status[t] = "NONE"
    <2>1. PICK next \in pick_next(p) : schedule_to(p, next)
        BY Zenon, <1>4 DEF schedule
    <2>2. next \in Object /\ curr_obj[p] \in Object
        BY Zenon, <2>1 DEF pick_next, schedule_to
    <2> QED
        BY <2>1, <2>2 DEF schedule_to, switch_status
<1> QED
    BY Zenon, <1>1, <1>2, <1>3, <1>4 DEF Next

(* Every step of vcpu_thread is the step of a thread that is set up, and   *)
(* only they move it.                                                      *)
LEMMA EnteredStep ==
    TypeOK /\ SchedInv /\ WaitType /\ NotEntered /\ [VcpuNext]_vcpuVars => NotEntered'
<1> SUFFICES ASSUME TypeOK, SchedInv, WaitType, NotEntered, [VcpuNext]_vcpuVars, NEW t \in Thread,
                    status'[t] = "NONE"
             PROVE  at'[t] = "top"
    BY Zenon DEF NotEntered
<1>1. status[t] = "NONE" /\ at[t] = "top"
    BY Zenon, VcpuStepIsSchedStep, SetUpStays DEF NotEntered
<1>2. ~is_current(t)
    BY Zenon, <1>1, HomeType, ThreadsDistinct
       DEF is_current, SchedInv, RunningIsCurrent, is_running, pcpu_id, Object, TypeOK
<1> USE DEF flow, goto, WaitType
<1>3. CASE UNCHANGED at
    BY Zenon, <1>1, <1>3
<1>4. ASSUME NEW u \in Thread, vcpu_thread(u) \/ guest(u)
      PROVE  is_current(u) /\ \E w : at' = [at EXCEPT ![u] = w]
    <2>1. CASE loop_top(u) \/ test_request(u) \/ clear_request(u) \/ triple_fault(u)
        BY Zenon, <2>1 DEF loop_top, test_request, clear_request, triple_fault, proceed
    <2>2. CASE reset_interrupt_event(u) \/ run_vcpu(u) \/ vmexit_irq(u) \/ set_request(u)
        BY Zenon, <2>2 DEF reset_interrupt_event, run_vcpu, vmexit_irq, set_request
    <2>3. CASE hlt_check(u) \/ wait_event(u) \/ wait_schedule(u)
        BY Zenon, <2>3 DEF hlt_check, wait_event, wait_schedule
    <2>4. CASE guest(u)
        BY Zenon, <2>4 DEF guest, vmexit_hlt, vcpu_queue_exception
    <2> QED
        BY Zenon, <1>4, <2>1, <2>2, <2>3, <2>4 DEF vcpu_thread
<1>5. ASSUME NEW u \in Thread, vcpu_thread(u) \/ guest(u) PROVE at'[t] = "top"
    BY Zenon, <1>1, <1>2, <1>4, <1>5
<1>6. ASSUME NEW u \in Thread,
             create_vcpu(u) \/ launch_vcpu(u) \/ reset_vcpu(u) \/ offline_vcpu(u)
      PROVE  UNCHANGED at
    BY Zenon, <1>6 DEF create_vcpu, launch_vcpu, reset_vcpu, offline_vcpu
<1>7. ASSUME NEW p \in Pcpu, start_idle(p) \/ default_idle(p) \/ tick(p) \/ sswi_handler(p)
      PROVE  UNCHANGED at
    BY Zenon, <1>7 DEF start_idle, default_idle, tick, sswi_handler
<1>8. ASSUME NEW c \in Caller, NEW u \in Thread, calls(c, u) \/ \E k \in Kinds : begin_call(c, k, u)
      PROVE  UNCHANGED at
    BY Zenon, <1>8 DEF calls, call_signal, pause_zombie, call_load, call_store, kick_vcpu, write_msip,
                pause_sync, begin_call
<1> QED
    BY Zenon, <1>3, <1>5, <1>6, <1>7, <1>8 DEF VcpuNext, vcpuVars

(* Every step keeps what the halt handler overlooks signalled.             *)
LEMMA HaltStep ==
    ASSUME "pause" \notin Kinds
    PROVE  SchedInv /\ WaitType /\ RequestType /\ CallType /\ CallsNotify /\ NotEntered /\ HaltInv
               /\ [VcpuNext]_vcpuVars => HaltInv'
<1> SUFFICES ASSUME SchedInv, WaitType, RequestType, CallType, CallsNotify, NotEntered, HaltInv,
                    [VcpuNext]_vcpuVars, NEW t \in Thread, overlooks(t)'
             PROVE  ev_set'[t] \/ about_to_signal(t)'
    BY Zenon DEF HaltInv
<1>0. overlooks(t) => ev_set[t] \/ about_to_signal(t)
    BY Zenon DEF HaltInv
<1> USE DEF WaitType, RequestType, flow, events, goto
<1>A. ASSUME UNCHANGED call PROVE about_to_signal(t) => about_to_signal(t)'
    BY Zenon, <1>A DEF about_to_signal
<1>B. ASSUME at'[t] = at[t], pending'[t] = pending[t], msip'[t] = msip[t] PROVE overlooks(t)
    BY Zenon, <1>B DEF overlooks
<1>C. ASSUME UNCHANGED call, at'[t] = at[t], pending'[t] = pending[t], msip'[t] = msip[t],
             ev_set'[t] = ev_set[t]
      PROVE  ev_set'[t] \/ about_to_signal(t)'
    BY Zenon, <1>0, <1>A, <1>B, <1>C
<1>1. CASE UNCHANGED vcpuVars
    BY Zenon, <1>1, <1>C DEF vcpuVars
<1>2. ASSUME NEW u \in Thread, create_vcpu(u) PROVE ev_set'[t] \/ about_to_signal(t)'
    <2>1. CASE t = u
        <3>1. at'[t] = "top"
            BY Zenon, <1>2, <2>1 DEF create_vcpu, init_thread_data, NotEntered
        <3> QED
            BY Zenon, <3>1 DEF overlooks
    <2>2. CASE t # u
        BY Zenon, <1>2, <1>C, <2>2 DEF create_vcpu
    <2> QED
        BY Zenon, <2>1, <2>2
<1>3. ASSUME NEW u \in Thread, launch_vcpu(u) PROVE ev_set'[t] \/ about_to_signal(t)'
    BY Zenon, <1>3, <1>C DEF launch_vcpu
<1>4. ASSUME NEW u \in Thread, vcpu_thread(u) \/ guest(u) PROVE ev_set'[t] \/ about_to_signal(t)'
    <2>0. UNCHANGED call
        BY Zenon, <1>4 DEF vcpu_thread, loop_top, test_request, clear_request, triple_fault, wait_event,
                    reset_interrupt_event, run_vcpu, vmexit_irq, set_request, hlt_check,
                    wait_schedule, guest, vmexit_hlt, vcpu_queue_exception
    <2>1. CASE t # u
        <3>1. CASE loop_top(u) \/ test_request(u) \/ clear_request(u) \/ triple_fault(u)
            BY Zenon, <1>C, <2>0, <2>1, <3>1
               DEF loop_top, test_request, clear_request, triple_fault, proceed
        <3>2. CASE reset_interrupt_event(u) \/ run_vcpu(u) \/ vmexit_irq(u) \/ set_request(u)
            BY Zenon, <1>C, <2>0, <2>1, <3>2
               DEF reset_interrupt_event, run_vcpu, vmexit_irq, set_request, reset_event
        <3>3. CASE hlt_check(u) \/ wait_event(u) \/ wait_schedule(u)
            BY Zenon, <1>C, <2>0, <2>1, <3>3 DEF hlt_check, wait_event, wait_schedule, reset_event
        <3>4. CASE guest(u)
            BY Zenon, <1>C, <2>0, <2>1, <3>4 DEF guest, vmexit_hlt, vcpu_queue_exception
        <3> QED
            BY Zenon, <1>4, <3>1, <3>2, <3>3, <3>4 DEF vcpu_thread
    <2>2. CASE t = u
        <3>1. CASE at'[t] \in {"top", "test", "clear", "zombie", "reset", "run", "guest", "set", "hlt"}
            BY Zenon, <3>1 DEF overlooks
        <3>2. CASE hlt_check(t)
            BY Zenon, <1>0, <1>A, <2>0, <3>1, <3>2 DEF hlt_check, overlooks
        <3>3. CASE wait_event(t)
            BY Zenon, <1>0, <1>A, <2>0, <3>1, <3>3 DEF wait_event, overlooks
        <3>4. CASE wait_schedule(t)
            BY Zenon, <1>0, <1>A, <2>0, <3>4 DEF wait_schedule, overlooks
        <3>5. CASE loop_top(t) \/ test_request(t) \/ clear_request(t) \/ triple_fault(t)
            BY Zenon, <3>1, <3>5 DEF loop_top, test_request, clear_request, triple_fault, proceed
        <3>6. CASE reset_interrupt_event(t) \/ run_vcpu(t) \/ vmexit_irq(t) \/ set_request(t)
            BY Zenon, <3>1, <3>6 DEF reset_interrupt_event, run_vcpu, vmexit_irq, set_request
        <3>7. CASE guest(t)
            BY Zenon, <3>1, <3>7 DEF guest, vmexit_hlt, vcpu_queue_exception
        <3> QED
            BY Zenon, <1>4, <2>2, <3>2, <3>3, <3>4, <3>5, <3>6, <3>7 DEF vcpu_thread
    <2> QED
        BY Zenon, <2>1, <2>2
<1>5. ASSUME NEW p \in Pcpu, start_idle(p) \/ default_idle(p) \/ tick(p) \/ sswi_handler(p)
      PROVE  ev_set'[t] \/ about_to_signal(t)'
    BY Zenon, <1>5, <1>C DEF start_idle, default_idle, tick, sswi_handler
<1>6. ASSUME NEW c \in Caller, NEW u \in Thread, calls(c, u)
      PROVE  ev_set'[t] \/ about_to_signal(t)'
    <2>0. /\ call[c].todo \in Seq(Op) /\ call[c].todo # <<>> /\ call[c].vcpu = u
          /\ 1 \in DOMAIN call[c].todo /\ call[c].todo[1] = Head(call[c].todo)
        <3>1. call[c].todo \in Seq(Op) /\ call[c].todo # <<>> /\ call[c].vcpu = u
            BY Zenon, <1>6 DEF CallType, calls, performs, call_load, call_store, kick_vcpu, call_signal,
                        write_msip, pause_zombie, pause_sync
        <3> QED
            BY <3>1
    <2>1. ~pause_zombie(c, u)
        BY Zenon, <2>0 DEF pause_zombie, performs, CallsNotify, notifies
    <2>2. shortens(c)
        BY Zenon, <1>6, <2>1, CallShortens
    <2>3. UNCHANGED at
        BY Zenon, <1>6 DEF calls, call_signal, pause_zombie, call_load, call_store, kick_vcpu, write_msip,
                    pause_sync
    <2>4. CASE call_store(c, u)
        <3>1. CASE t = u /\ request_of(call[c].kind) # "EVENT"
            BY Zenon, <2>2, <2>4, <3>1, ThenSignals DEF call_store, performs
        <3>2. CASE t = u /\ request_of(call[c].kind) = "EVENT"
            <4>1. "EVENT" \in pending'[t] /\ UNCHANGED <<msip, ev_set>>
                BY Zenon, <2>4, <3>2 DEF call_store
            <4>2. overlooks(t)
                BY Zenon, <2>3, <4>1 DEF overlooks
            <4>3. about_to_signal(t) => about_to_signal(t)'
                BY Zenon, <2>2, <2>4, StillSignals DEF call_store, performs
            <4> QED
                BY Zenon, <1>0, <4>1, <4>2, <4>3
        <3>3. CASE t # u
            <4>1. pending'[t] = pending[t] /\ UNCHANGED <<msip, ev_set>>
                BY Zenon, <2>4, <3>3 DEF call_store
            <4>2. about_to_signal(t) => about_to_signal(t)'
                BY Zenon, <2>2, <2>4, StillSignals DEF call_store, performs
            <4> QED
                BY Zenon, <1>0, <1>B, <2>3, <4>1, <4>2
        <3> QED
            BY Zenon, <3>1, <3>2, <3>3
    <2>5. CASE write_msip(c, u)
        <3>0. UNCHANGED <<pending, ev_set>>
            BY Zenon, <2>5 DEF write_msip
        <3>1. CASE t = u /\ Head(call[c].todo) = "msip1"
            BY Zenon, <2>2, <2>5, <3>1, ThenSignals DEF write_msip, performs
        <3>2. CASE t # u \/ Head(call[c].todo) = "msip0"
            <4>1. msip'[t] => msip[t]
                BY Zenon, <2>5, <3>2 DEF write_msip, performs
            <4>2. overlooks(t)
                BY Zenon, <2>3, <3>0, <4>1 DEF overlooks
            <4>3. about_to_signal(t) => about_to_signal(t)'
                BY Zenon, <2>2, <2>5, StillSignals DEF write_msip, performs
            <4> QED
                BY Zenon, <1>0, <3>0, <4>2, <4>3
        <3> QED
            BY Zenon, <2>5, <3>1, <3>2 DEF write_msip, performs
    <2>6. CASE call_signal(c, u)
        <3>1. CASE t = u
            BY Zenon, <2>6, <3>1 DEF call_signal, signal_event
        <3>2. CASE t # u
            <4>1. ev_set'[t] = ev_set[t] /\ UNCHANGED <<pending, msip>>
                BY Zenon, <2>6, <3>2 DEF call_signal, signal_event
            <4>2. about_to_signal(t) => about_to_signal(t)'
                BY Zenon, <2>0, <2>2, <3>2, StillSignals
            <4> QED
                BY Zenon, <1>0, <1>B, <2>3, <4>1, <4>2
        <3> QED
            BY Zenon, <3>1, <3>2
    <2>7. CASE call_load(c, u) \/ kick_vcpu(c, u) \/ pause_sync(c, u)
        <3>1. UNCHANGED <<pending, msip, ev_set>>
            BY Zenon, <2>7 DEF call_load, kick_vcpu, pause_sync
        <3>2. about_to_signal(t) => about_to_signal(t)'
            BY Zenon, <2>2, <2>7, StillSignals DEF call_load, kick_vcpu, pause_sync, performs
        <3> QED
            BY Zenon, <1>0, <1>B, <2>3, <3>1, <3>2
    <2> QED
        BY Zenon, <1>6, <2>1, <2>4, <2>5, <2>6, <2>7 DEF calls
<1>7. ASSUME NEW c \in Caller, NEW u \in Thread, NEW k \in Kinds, begin_call(c, k, u)
      PROVE  ev_set'[t] \/ about_to_signal(t)'
    <2>1. UNCHANGED <<at, pending, msip, ev_set>>
        BY Zenon, <1>7 DEF begin_call
    <2>2. about_to_signal(t) => about_to_signal(t)'
        <3>1. call[c].todo = <<>> /\ \A d \in Caller : d # c => call'[d] = call[d]
            BY Zenon, <1>7 DEF begin_call, CallType
        <3> QED
            BY <3>1 DEF about_to_signal
    <2> QED
        BY Zenon, <1>0, <1>B, <2>1, <2>2
<1> QED
    BY Zenon, <1>1, <1>2, <1>3, <1>4, <1>5, <1>6, <1>7 DEF VcpuNext

(* No vCPU sleeps on an interrupt: with any number of callers, a halted    *)
(* vCPU that msip or a pending interrupt should wake is about to be        *)
(* signalled.  (reset_vcpu resets the event of a vCPU that an interrupt    *)
(* woke while it was paused: the theorem is for callers that do not pause.) *)
THEOREM HaltMissesNothing ==
    ASSUME "pause" \notin Kinds
    PROVE  VcpuSpec => []HaltedSeesInterrupt
<1>1. VcpuInit => CallsNotify /\ NotEntered /\ HaltInv
    BY DEF VcpuInit, CallsNotify, notifies, NoCall, NotEntered, HaltInv, overlooks
<1>2. VcpuSpec => [](TypeOK /\ SchedInv)
    BY Zenon, VcpuImplementsSched, SchedCorrect
<1>3. VcpuTypeOK => WaitType /\ RequestType /\ CallType
    BY Zenon DEF VcpuTypeOK, WaitType, RequestType, CallType
<1>4. CallType /\ RequestType /\ CallsNotify /\ [VcpuNext]_vcpuVars => CallsNotify'
    BY Zenon, NotifyStep
<1>5. TypeOK /\ SchedInv /\ WaitType /\ NotEntered /\ [VcpuNext]_vcpuVars => NotEntered'
    BY Zenon, EnteredStep
<1>6. SchedInv /\ WaitType /\ RequestType /\ CallType /\ CallsNotify /\ NotEntered /\ HaltInv
          /\ [VcpuNext]_vcpuVars => HaltInv'
    BY Zenon, HaltStep
<1>7. WaitInv /\ HaltInv => HaltedSeesInterrupt
    BY Zenon DEF WaitInv, NoLostSignal, SleeperIsRegistered, HaltInv, HaltedSeesInterrupt,
                 overlooks, halted
<1> QED
    BY <1>1, <1>2, VcpuTyped, WaitCorrect, <1>3, <1>4, <1>5, <1>6, <1>7, PTL DEF VcpuSpec

=============================================================================
