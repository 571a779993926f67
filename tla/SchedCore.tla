------------------------------ MODULE SchedCore ------------------------------
(***************************************************************************)
(* What the scheduling policies of hypervisor/common/sched_*.c share: the  *)
(* thread objects and per-pCPU control blocks of common/schedule.c.  The   *)
(* run queue is a list, the head first; the single slot of the noop policy *)
(* is a list of at most one thread.                                        *)
(***************************************************************************)
EXTENDS Lists

CONSTANTS
    Thread, Pcpu, home, NULL,   \* as in ThreadSched
    Scheduler     \* the policies a build may select: CONFIG_SCHED_*

ASSUME ThreadAssumption ==
    /\ Thread \cap Pcpu = {} /\ NULL \notin Thread \cup Pcpu \cup Nat
    /\ home \in [Thread -> Pcpu]

VARIABLES
    status, be_blocking, curr_obj, resched,   \* as in ThreadSched
    runqueue,     \* the policy's queue of every pCPU
    scheduler     \* ctl->scheduler, the same on every pCPU

Object == Thread \cup Pcpu
is_idle_thread(o) == o \in Pcpu
is_blocked(o) == status[o] = "BLOCKED"
is_running(o) == status[o] = "RUNNING"
is_inqueue(o) == o \in Range(runqueue[home[o]])

runqueue_remove(o) == [runqueue EXCEPT ![home[o]] = without(@, o)]

=============================================================================
