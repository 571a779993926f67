---------------------------- MODULE SchedPolicies ----------------------------
(***************************************************************************)
(* hypervisor/common/schedule.c over each of the policies a build can      *)
(* select, with the idle loop and the reschedule notification.  Every      *)
(* policy implements the contract ThreadSched describes.                   *)
(*                                                                         *)
(* The idle loop tests NEED_RESCHEDULE and then halts.  The RISC-V build,  *)
(* whose only policy is iorr, tests with interrupts enabled; the x86       *)
(* build halts with `sti; hlt; cli', so that interrupts are enabled only   *)
(* in the halt, except in the first pass, which init_interrupt left with   *)
(* interrupts on.                                                          *)
(***************************************************************************)
EXTENDS SchedIorr, SchedBvt, SchedPrio

CONSTANTS
    assigned,    \* the threads a scenario of every policy configures
    OtherPcpu    \* pCPUs modelled only as callers of sleep_thread and wake_thread

(* The noop policy is configured with one vCPU per pCPU.                   *)
ASSUME AssignedAssumption ==
    /\ assigned \in [Scheduler -> SUBSET Thread]
    /\ "noop" \in Scheduler =>
           \A t, u \in assigned["noop"] : home[t] = home[u] => t = u

VARIABLES
    idle_at,      \* where the idle loop of every pCPU is: check, wfi_next, wfi
    idle_if,      \* whether the idle loop runs with interrupts enabled
    swi           \* whether a notification is pending on every pCPU

schedVars == <<status, be_blocking, curr_obj, resched, runqueue>>
policyVars == <<left_cycles, bvtVars>>
vars == <<schedVars, policyVars, scheduler, idle_at, idle_if, swi>>

TypeOK ==
    /\ status \in [Object -> {"NONE", "RUNNING", "RUNNABLE", "BLOCKED"}]
    /\ be_blocking \in [Object -> BOOLEAN]
    /\ curr_obj \in [Pcpu -> Object \cup {NULL}]
    /\ resched \in [Pcpu -> BOOLEAN]
    /\ runqueue \in [Pcpu -> Seq(Thread)]
    /\ scheduler \in Scheduler
    /\ left_cycles \in [Thread -> Int]
    /\ avt \in [Thread -> Nat] /\ residual \in [Thread -> 0 .. Mcu - 1]
    /\ svt \in [Pcpu -> Nat] /\ ran \in [Pcpu -> Nat]
    /\ deadline \in [Pcpu -> Nat \cup {NULL}]
    /\ idle_at \in [Pcpu -> {"check", "wfi_next", "wfi"}]
    /\ idle_if \in [Pcpu -> BOOLEAN]
    /\ swi \in [Pcpu -> BOOLEAN]

-----------------------------------------------------------------------------
make_reschedule_request(c, p) ==
    /\ resched' = [resched EXCEPT ![p] = TRUE]
    /\ swi' = [swi EXCEPT ![p] = @ \/ c # p]

(* ctl->scheduler->sleep, wake and pick_next.                              *)
policy_sleep(t) ==
    \/ scheduler = "iorr" /\ sched_iorr_sleep(t) /\ UNCHANGED bvtVars
    \/ scheduler = "bvt" /\ sched_bvt_sleep(t) /\ UNCHANGED left_cycles
    \/ scheduler = "prio" /\ sched_prio_sleep(t) /\ UNCHANGED policyVars
    \/ scheduler = "noop" /\ sched_noop_sleep(t) /\ UNCHANGED policyVars

policy_wake(t) ==
    \/ scheduler = "iorr" /\ sched_iorr_wake(t) /\ UNCHANGED bvtVars
    \/ scheduler = "bvt" /\ sched_bvt_wake(t) /\ UNCHANGED left_cycles
    \/ scheduler = "prio" /\ sched_prio_wake(t) /\ UNCHANGED policyVars
    \/ scheduler = "noop" /\ sched_noop_wake(t) /\ UNCHANGED policyVars

policy_pick_next(p, next) ==
    \/ scheduler = "iorr" /\ sched_iorr_pick_next(p, next) /\ UNCHANGED bvtVars
    \/ scheduler = "bvt" /\ sched_bvt_pick_next(p, next) /\ UNCHANGED left_cycles
    \/ scheduler = "prio" /\ sched_prio_pick_next(p, next) /\ UNCHANGED policyVars
    \/ scheduler = "noop" /\ sched_noop_pick_next(p, next) /\ UNCHANGED policyVars

-----------------------------------------------------------------------------
(* init_sched and the policy's init on every pCPU.                         *)
Init ==
    /\ scheduler \in Scheduler
    /\ status = [o \in Object |-> "NONE"]
    /\ be_blocking = [o \in Object |-> FALSE]
    /\ curr_obj = [p \in Pcpu |-> NULL]
    /\ resched = [p \in Pcpu |-> FALSE]
    /\ runqueue = [p \in Pcpu |-> <<>>]
    /\ left_cycles = [t \in Thread |-> 0]
    /\ avt = [t \in Thread |-> 0] /\ residual = [t \in Thread |-> 0]
    /\ svt = [p \in Pcpu |-> 0] /\ ran = [p \in Pcpu |-> 0]
    /\ deadline = [p \in Pcpu |-> NULL]
    /\ idle_at = [p \in Pcpu |-> "check"]
    /\ idle_if = [p \in Pcpu |-> TRUE]
    /\ swi = [p \in Pcpu |-> FALSE]

(* init_thread_data with the policy's init_data; the virtual times of a    *)
(* new thread are zero.                                                    *)
init_thread_data(t) ==
    /\ t \in assigned[scheduler]
    /\ status[t] = "NONE"
    /\ IF scheduler = "iorr" THEN sched_iorr_init_data(t) ELSE UNCHANGED left_cycles
    /\ status' = [status EXCEPT ![t] = "BLOCKED"]
    /\ UNCHANGED <<be_blocking, curr_obj, resched, runqueue, bvtVars, scheduler,
                   idle_at, idle_if, swi>>

run_idle_thread(p) ==
    /\ curr_obj[p] = NULL
    /\ status' = [status EXCEPT ![p] = "RUNNING"]
    /\ curr_obj' = [curr_obj EXCEPT ![p] = p]
    /\ UNCHANGED <<be_blocking, resched, runqueue, policyVars, scheduler,
                   idle_at, idle_if, swi>>

(* An interrupt can be taken on p: in a thread, and in the idle loop when  *)
(* it halts or runs with interrupts enabled.                               *)
interruptible(p) == curr_obj[p] # p \/ idle_if[p] \/ idle_at[p] = "wfi"

(* An interrupt ends a halt.  cpu_do_idle: on x86 cli follows.             *)
end_wfi(p) ==
    IF curr_obj[p] = p /\ idle_at[p] = "wfi"
    THEN /\ idle_at' = [idle_at EXCEPT ![p] = "check"]
         /\ idle_if' = [idle_if EXCEPT ![p] = scheduler = "iorr"]
    ELSE UNCHANGED <<idle_at, idle_if>>

(* A pCPU that idles calls sleep_thread and wake_thread in an interrupt    *)
(* handler.                                                                *)
called_on(c) ==
    IF c \in Pcpu THEN interruptible(c) /\ end_wfi(c) ELSE UNCHANGED <<idle_at, idle_if>>

sleep_thread(c, t) ==
    /\ status[t] # "NONE"
    /\ called_on(c)
    /\ policy_sleep(t)
    /\ IF is_running(t)
       THEN /\ make_reschedule_request(c, home[t])
            /\ be_blocking' = [be_blocking EXCEPT ![t] = TRUE]
            /\ UNCHANGED status
       ELSE /\ status' = [status EXCEPT ![t] = "BLOCKED"]
            /\ UNCHANGED <<be_blocking, resched, swi>>
    /\ UNCHANGED <<curr_obj, scheduler>>

(* Fault: wake_thread inserts but does not request a reschedule.           *)
wake_thread_silently(c, t) ==
    /\ is_blocked(t) \/ be_blocking[t]
    /\ called_on(c)
    /\ policy_wake(t)
    /\ status' = [status EXCEPT ![t] = IF is_blocked(t) THEN "RUNNABLE" ELSE @]
    /\ be_blocking' = [be_blocking EXCEPT ![t] = FALSE]
    /\ UNCHANGED <<curr_obj, resched, swi, scheduler>>

wake_thread(c, t) ==
    /\ is_blocked(t) \/ be_blocking[t]
    /\ called_on(c)
    /\ policy_wake(t)
    /\ IF is_blocked(t)
       THEN /\ status' = [status EXCEPT ![t] = "RUNNABLE"]
            /\ make_reschedule_request(c, home[t])
       ELSE UNCHANGED <<status, resched, swi>>
    /\ be_blocking' = [be_blocking EXCEPT ![t] = FALSE]
    /\ UNCHANGED <<curr_obj, scheduler>>

-----------------------------------------------------------------------------
(* Fault: the context switch does not reset prev->be_blocking.             *)
switch_keeps_blocking(prev, next, p) ==
    IF prev # next
    THEN /\ status' = [status EXCEPT
                ![prev] = IF be_blocking[prev] THEN "BLOCKED" ELSE "RUNNABLE",
                ![next] = "RUNNING"]
         /\ curr_obj' = [curr_obj EXCEPT ![p] = next]
         /\ UNCHANGED be_blocking
    ELSE UNCHANGED <<status, be_blocking, curr_obj>>

(* The part of schedule() after pick_next.                                 *)
switch_to(prev, next, p) ==
    IF prev # next
    THEN /\ status' = [status EXCEPT
                ![prev] = IF be_blocking[prev] THEN "BLOCKED" ELSE "RUNNABLE",
                ![next] = "RUNNING"]
         /\ be_blocking' = [be_blocking EXCEPT ![prev] = FALSE]
         /\ curr_obj' = [curr_obj EXCEPT ![p] = next]
    ELSE UNCHANGED <<status, be_blocking, curr_obj>>

schedule(p) ==
    /\ \E next \in Thread \cup {p} :
           policy_pick_next(p, next) /\ switch_to(curr_obj[p], next, p)
    /\ resched' = [resched EXCEPT ![p] = FALSE]
    /\ UNCHANGED <<scheduler, idle_at, idle_if, swi>>

-----------------------------------------------------------------------------
(* The loops that call schedule().  A vCPU thread gets to the top of       *)
(* vcpu_thread, or to the schedule() of wait_event, whenever the flag is   *)
(* set; what it does in between is in VcpuRun.                             *)

vcpu_thread_schedules(p) ==
    /\ curr_obj[p] \in Thread
    /\ resched[p]
    /\ schedule(p)

(* yield_current, called by the thread that runs on p.                     *)
yield_current(p) ==
    /\ curr_obj[p] \in Thread
    /\ make_reschedule_request(p, p)
    /\ UNCHANGED <<status, be_blocking, curr_obj, runqueue, policyVars, scheduler,
                   idle_at, idle_if>>

(* default_idle: need_reschedule() is tested, and the halt comes later.    *)
default_idle(p) ==
    /\ curr_obj[p] = p
    /\ \/ idle_at[p] = "check" /\ resched[p] /\ schedule(p)
       \/ /\ idle_at[p] = "check" /\ ~resched[p]
          /\ idle_at' = [idle_at EXCEPT ![p] = "wfi_next"]
          /\ UNCHANGED <<schedVars, policyVars, scheduler, idle_if, swi>>
       \/ /\ idle_at[p] = "wfi_next"
          /\ idle_at' = [idle_at EXCEPT ![p] = "wfi"]
          /\ UNCHANGED <<schedVars, policyVars, scheduler, idle_if, swi>>

sswi_handler(p) ==
    /\ swi[p]
    /\ interruptible(p)
    /\ swi' = [swi EXCEPT ![p] = FALSE]
    /\ end_wfi(p)
    /\ UNCHANGED <<schedVars, policyVars, scheduler>>

(* The tick of the policies that have one.                                 *)
sched_tick_handler(p) ==
    /\ curr_obj[p] # NULL
    /\ interruptible(p)
    /\ end_wfi(p)
    /\ \E request \in BOOLEAN :
          /\ \/ scheduler = "iorr" /\ sched_iorr_tick(p, request) /\ UNCHANGED bvtVars
             \/ scheduler = "bvt" /\ sched_bvt_tick(p, request) /\ UNCHANGED left_cycles
          /\ IF request THEN make_reschedule_request(p, p) ELSE UNCHANGED <<resched, swi>>
    /\ UNCHANGED <<status, be_blocking, curr_obj, runqueue, scheduler>>

(* Time passes for the policy that measures it between two events.         *)
cycle(p) ==
    /\ scheduler = "bvt"
    /\ bvt_cycle(p)
    /\ UNCHANGED <<schedVars, left_cycles, scheduler, idle_at, idle_if, swi>>

-----------------------------------------------------------------------------
Next ==
    \/ \E t \in Thread : init_thread_data(t)
    \/ \E c \in Pcpu \cup OtherPcpu, t \in Thread : sleep_thread(c, t) \/ wake_thread(c, t)
    \/ \E p \in Pcpu : \/ run_idle_thread(p) \/ vcpu_thread_schedules(p)
                       \/ yield_current(p) \/ default_idle(p)
                       \/ sswi_handler(p) \/ sched_tick_handler(p) \/ cycle(p)

(* A pCPU keeps executing: its idle loop, its vCPU threads' way back to    *)
(* schedule(), and the handlers of pending interrupts make progress, and   *)
(* the 1 ms tick of iorr, a periodic timer, keeps coming.                  *)
Fairness ==
    \A p \in Pcpu : /\ WF_vars(run_idle_thread(p)) /\ WF_vars(vcpu_thread_schedules(p))
                    /\ WF_vars(default_idle(p)) /\ WF_vars(sswi_handler(p))
                    /\ WF_vars(sched_tick_handler(p))

Spec == Init /\ [][Next]_vars
FairSpec == Spec /\ Fairness

-----------------------------------------------------------------------------
(* iorr: a thread out of time is on its way out: when the current thread   *)
(* has no cycles left, NEED_RESCHEDULE is set, however late the ticks and  *)
(* the schedule() calls come; what pick_next returns always has time left. *)
SliceEnforced ==
    scheduler = "iorr" =>
        \A p \in Pcpu, t \in Thread : curr_obj[p] = t /\ left_cycles[t] <= 0 => resched[p]

(* bvt: a thread that shares its pCPU cannot run away.  Unless a           *)
(* reschedule is pending, the tick is armed, and it comes before the       *)
(* current thread's virtual time has passed that of any queued rival by    *)
(* more than the context switch allowance, whatever slept or woke since    *)
(* the tick was armed.                                                     *)
TurnIsBounded ==
    scheduler = "bvt" =>
        \A p \in Pcpu, t \in Thread :
            curr_obj[p] = t /\ Len(runqueue[p]) > 1 /\ ~resched[p] =>
                /\ deadline[p] # NULL
                /\ \A u \in Range(runqueue[p]) \ {t} :
                       avt[t] + (deadline[p] * vt_ratio[t]) \div Mcu
                           <= avt[u] + Csa * vt_ratio[t]

(* prio and noop: unless a reschedule is pending, the thread that runs is  *)
(* the queued one of the highest priority, or the idle thread when nothing *)
(* is queued.                                                              *)
HighestRuns ==
    scheduler \in {"prio", "noop"} =>
        \A p \in Pcpu : curr_obj[p] # NULL /\ ~resched[p] =>
            IF runqueue[p] = <<>> THEN curr_obj[p] = p
            ELSE /\ curr_obj[p] \in Range(runqueue[p])
                 /\ \A u \in Range(runqueue[p]) : priority[u] <= priority[curr_obj[p]]

(* bvt: a thread that wakes has a virtual time no further back than the    *)
(* context switch allowance from that of the threads that can run, as      *)
(* get_svt's comment has it.                                               *)
WakesNearSvt ==
    [][\A t \in Thread : scheduler = "bvt" /\ ~is_inqueue(t) /\ is_inqueue(t)' =>
           \A u \in Range(runqueue[home[t]]) :
               (\A v \in Range(runqueue[home[t]]) :
                    update_vt(home[t])[u] <= update_vt(home[t])[v]) =>
               avt'[t] >= update_vt(home[t])[u] - Csa]_vars

(* The policy implements the contract schedule.c relies on: ThreadSched    *)
(* with the queue read as a set.                                           *)
Framework == INSTANCE ThreadSched
    WITH runqueue <- [p \in Pcpu |-> Range(runqueue[p])]
RefinesThreadSched == Framework!Spec

(* A queued thread runs, or is put to sleep: neither the threads it shares *)
(* the pCPU with, nor the window between the idle loop's test and its      *)
(* halt, keeps it waiting for ever.  Under fixed priorities this is the    *)
(* head of the queue.  On x86 the first halt of a pCPU is the exception.   *)
waits(t) ==
    /\ is_inqueue(t)
    /\ \/ scheduler = "iorr"
       \/ scheduler \in {"prio", "noop"} /\ Head(runqueue[home[t]]) = t
first_halt(p) ==
    scheduler # "iorr" /\ curr_obj[p] = p /\ idle_at[p] = "wfi" /\ idle_if[p]
QueuedRuns ==
    \A t \in Thread :
        waits(t) ~> (curr_obj[home[t]] = t \/ ~waits(t) \/ first_halt(home[t]))

(* A thread asked to sleep while it runs stops running, unless it is woken *)
(* first: the loop of sleep_thread_sync ends.                              *)
SleepSettles == \A t \in Thread : be_blocking[t] ~> ~be_blocking[t]

=============================================================================
