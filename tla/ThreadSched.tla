---------------------------- MODULE ThreadSched ----------------------------
(***************************************************************************)
(* The thread scheduler framework, hypervisor/common/schedule.c.           *)
(*                                                                         *)
(* schedule.c calls the scheduling policy through the function pointers    *)
(* of struct acrn_scheduler.  Here the policy is abstract: its run queue   *)
(* is a set, `wake' inserts, `sleep' removes and `pick_next' returns some  *)
(* member, or the idle thread when there is none.  SchedIorr refines it    *)
(* to the policy the RISC-V build selects.                                 *)
(*                                                                         *)
(* A pCPU's idle thread object, per_cpu(idle, p), is named by the pCPU p   *)
(* itself.  Every operation runs its whole body under the scheduler_lock   *)
(* of the thread's pCPU with interrupts off, so it is one action; actions  *)
(* of different pCPUs, and of remote callers, interleave freely.           *)
(***************************************************************************)
EXTENDS Naturals, FiniteSets

CONSTANTS
    Thread,     \* the vCPU thread objects
    Pcpu,       \* the physical CPUs
    home,       \* obj->pcpu_id of every vCPU thread, fixed by create_vcpu
    NULL        \* the null pointer

ASSUME ThreadsDistinct == Thread \cap Pcpu = {} /\ NULL \notin Thread \cup Pcpu
ASSUME HomeType == home \in [Thread -> Pcpu]

VARIABLES
    status,       \* obj->status
    be_blocking,  \* obj->be_blocking: asked to sleep while still running
    curr_obj,     \* ctl->curr_obj of every pCPU
    resched,      \* the NEED_RESCHEDULE bit of ctl->flags
    runqueue      \* the policy's queue of threads that may run

vars == <<status, be_blocking, curr_obj, resched, runqueue>>

Object == Thread \cup Pcpu
(* THREAD_STS_*, and "NONE" for a thread object that is still zeroed.      *)
Status == {"RUNNING", "RUNNABLE", "BLOCKED", "NONE"}

pcpu_id(o) == IF o \in Pcpu THEN o ELSE home[o]
is_idle_thread(o) == o \in Pcpu
is_blocked(o) == status[o] = "BLOCKED"
is_running(o) == status[o] = "RUNNING"
need_reschedule(p) == resched[p]

TypeOK ==
    /\ status \in [Object -> Status]
    /\ be_blocking \in [Object -> BOOLEAN]
    /\ curr_obj \in [Pcpu -> Object \cup {NULL}]
    /\ resched \in [Pcpu -> BOOLEAN]
    /\ runqueue \in [Pcpu -> SUBSET Thread]

-----------------------------------------------------------------------------
(* init_sched has run on every pCPU; no thread object is set up yet.       *)

init_sched ==
    /\ status = [o \in Object |-> "NONE"]
    /\ be_blocking = [o \in Object |-> FALSE]
    /\ curr_obj = [p \in Pcpu |-> NULL]
    /\ resched = [p \in Pcpu |-> FALSE]
    /\ runqueue = [p \in Pcpu |-> {}]

init_thread_data(t) ==
    /\ status[t] = "NONE"
    /\ status' = [status EXCEPT ![t] = "BLOCKED"]
    /\ UNCHANGED <<be_blocking, curr_obj, resched, runqueue>>

(* run_idle_thread: init_thread_data(idle), then run_thread(idle).         *)
run_idle_thread(p) ==
    /\ curr_obj[p] = NULL
    /\ status' = [status EXCEPT ![p] = "RUNNING"]
    /\ curr_obj' = [curr_obj EXCEPT ![p] = p]
    /\ UNCHANGED <<be_blocking, resched, runqueue>>

-----------------------------------------------------------------------------
(* What sleep_thread, wake_thread and schedule do to each variable.  The   *)
(* operators are shared by the modules that compose the scheduler.         *)

(* Fault: sleep_thread without the call of scheduler->sleep.               *)
sleep_thread_stays_queued(t) ==
    LET p == home[t] IN
    /\ status[t] # "NONE"
    /\ IF is_running(t)
       THEN /\ resched' = [resched EXCEPT ![p] = TRUE]
            /\ be_blocking' = [be_blocking EXCEPT ![t] = TRUE]
            /\ UNCHANGED status
       ELSE /\ status' = [status EXCEPT ![t] = "BLOCKED"]
            /\ UNCHANGED <<resched, be_blocking>>
    /\ UNCHANGED <<curr_obj, runqueue>>

sleep_thread(t) ==
    LET p == home[t] IN
    /\ status[t] # "NONE"
    /\ runqueue' = [runqueue EXCEPT ![p] = @ \ {t}]
    /\ IF is_running(t)
       THEN /\ resched' = [resched EXCEPT ![p] = TRUE]
            /\ be_blocking' = [be_blocking EXCEPT ![t] = TRUE]
            /\ UNCHANGED status
       ELSE /\ status' = [status EXCEPT ![t] = "BLOCKED"]
            /\ UNCHANGED <<resched, be_blocking>>
    /\ UNCHANGED curr_obj

(* Fault: wake_thread without make_reschedule_request.                     *)
wake_thread_silently(t) ==
    LET p == home[t] IN
    /\ status[t] # "NONE"
    /\ IF is_blocked(t) \/ be_blocking[t]
       THEN /\ runqueue' = [runqueue EXCEPT ![p] = @ \cup {t}]
            /\ status' = [status EXCEPT ![t] = IF is_blocked(t) THEN "RUNNABLE" ELSE @]
            /\ be_blocking' = [be_blocking EXCEPT ![t] = FALSE]
       ELSE UNCHANGED <<status, be_blocking, runqueue>>
    /\ UNCHANGED <<curr_obj, resched>>

(* Fault: wake_thread leaves be_blocking set.                              *)
wake_thread_keeps_blocking(t) ==
    LET p == home[t] IN
    /\ status[t] # "NONE"
    /\ IF is_blocked(t) \/ be_blocking[t]
       THEN /\ runqueue' = [runqueue EXCEPT ![p] = @ \cup {t}]
            /\ status' = [status EXCEPT ![t] = IF is_blocked(t) THEN "RUNNABLE" ELSE @]
            /\ resched' = [resched EXCEPT ![p] = @ \/ is_blocked(t)]
       ELSE UNCHANGED <<status, resched, runqueue>>
    /\ UNCHANGED <<curr_obj, be_blocking>>

wake_thread(t) ==
    LET p == home[t] IN
    /\ status[t] # "NONE"
    /\ IF is_blocked(t) \/ be_blocking[t]
       THEN /\ runqueue' = [runqueue EXCEPT ![p] = @ \cup {t}]
            /\ IF is_blocked(t)
               THEN /\ status' = [status EXCEPT ![t] = "RUNNABLE"]
                    /\ resched' = [resched EXCEPT ![p] = TRUE]
               ELSE UNCHANGED <<status, resched>>
            /\ be_blocking' = [be_blocking EXCEPT ![t] = FALSE]
       ELSE UNCHANGED <<status, be_blocking, resched, runqueue>>
    /\ UNCHANGED curr_obj

(* The contract of pick_next: a queued thread, or idle if none is queued.  *)
pick_next(p) == IF runqueue[p] # {} THEN runqueue[p] ELSE {p}

(* The context switch inside schedule(): prev gives the pCPU up to next.   *)
switch_status(prev, next) ==
    [status EXCEPT ![prev] = IF be_blocking[prev] THEN "BLOCKED" ELSE "RUNNABLE",
                   ![next] = "RUNNING"]

schedule_to(p, next) ==
    LET prev == curr_obj[p] IN
    /\ curr_obj[p] # NULL
    /\ resched' = [resched EXCEPT ![p] = FALSE]
    /\ IF prev # next
       THEN /\ status' = switch_status(prev, next)
            /\ be_blocking' = [be_blocking EXCEPT ![prev] = FALSE]
            /\ curr_obj' = [curr_obj EXCEPT ![p] = next]
       ELSE UNCHANGED <<status, be_blocking, curr_obj>>
    /\ UNCHANGED runqueue

schedule(p) == \E next \in pick_next(p) : schedule_to(p, next)

(* yield_current on p, and the policy's tick: request a reschedule.        *)
make_reschedule_request(p) ==
    /\ curr_obj[p] # NULL
    /\ resched' = [resched EXCEPT ![p] = TRUE]
    /\ UNCHANGED <<status, be_blocking, curr_obj, runqueue>>

-----------------------------------------------------------------------------
Next ==
    \/ \E t \in Thread : init_thread_data(t) \/ sleep_thread(t) \/ wake_thread(t)
    \/ \E p \in Pcpu : run_idle_thread(p) \/ schedule(p) \/ make_reschedule_request(p)

Spec == init_sched /\ [][Next]_vars

-----------------------------------------------------------------------------
(* A thread is queued exactly when it may run: it is initialised, not      *)
(* BLOCKED and has not been asked to sleep.  sleep_thread and wake_thread  *)
(* of remote pCPUs race with schedule() and with each other here.          *)
QueueMatchesStatus ==
    \A t \in Thread :
        t \in runqueue[home[t]]
            <=> status[t] \in {"RUNNING", "RUNNABLE"} /\ ~be_blocking[t]

(* Every queue holds only threads of its own pCPU.                         *)
QueueIsLocal == \A p \in Pcpu : \A t \in runqueue[p] : home[t] = p

(* A thread object is RUNNING exactly when it is its pCPU's curr_obj: no   *)
(* two threads run on one pCPU and no thread runs after it was blocked.    *)
RunningIsCurrent ==
    \A o \in Object : is_running(o) <=> curr_obj[pcpu_id(o)] = o

(* A pCPU runs its own idle thread or a thread created for it.             *)
CurrentIsLocal ==
    \A p \in Pcpu : curr_obj[p] # NULL => pcpu_id(curr_obj[p]) = p

(* be_blocking is a note to schedule() about the running thread only.      *)
BlockingIsRunning == \A o \in Object : be_blocking[o] => o \in Thread /\ is_running(o)

(* No wake-up and no sleep request is lost: while a pCPU idles (or has not *)
(* started) with a queued thread, and while its current thread is asked to *)
(* sleep, NEED_RESCHEDULE stays set (event.c: "This signal_event is not    *)
(* going to be lost").                                                     *)
NoLostWakeup ==
    \A p \in Pcpu :
        /\ curr_obj[p] \in {p, NULL} /\ runqueue[p] # {} => resched[p]
        /\ \A t \in Thread : curr_obj[p] = t /\ be_blocking[t] => resched[p]

(* Idle never sleeps: an idle thread object is uninitialised, RUNNING or   *)
(* RUNNABLE, so schedule() can always fall back to it.                     *)
IdleNeverBlocked == \A p \in Pcpu : status[p] # "BLOCKED"

(* A BLOCKED thread has to be woken before it runs: no step takes a thread *)
(* from BLOCKED to RUNNING, so schedule() never picks a sleeping thread.   *)
BlockedIsWokenFirst ==
    [][\A t \in Thread : status[t] = "BLOCKED" => status'[t] # "RUNNING"]_vars

(* The inductive invariant: the properties above together.                 *)
SchedInv ==
    /\ QueueMatchesStatus
    /\ QueueIsLocal
    /\ RunningIsCurrent
    /\ BlockingIsRunning
    /\ NoLostWakeup
    /\ CurrentIsLocal
    /\ IdleNeverBlocked

=============================================================================
