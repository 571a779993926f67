------------------------------ MODULE SchedPrio ------------------------------
(***************************************************************************)
(* The two policies without accounting: fixed priorities,                  *)
(* hypervisor/common/sched_prio.c, and one thread per pCPU,                *)
(* hypervisor/common/sched_noop.c.                                         *)
(***************************************************************************)
EXTENDS SchedCore

CONSTANT priority   \* data->priority of every thread

ASSUME PriorityAssumption == priority \in [Thread -> Nat]

-----------------------------------------------------------------------------
(* Fault: the search stops at the first thread, whatever its priority.     *)
prio_queue_add_first(t) ==
    [runqueue EXCEPT ![home[t]] = insert_before(@, t, Thread)]

prio_queue_add(t) ==
    [runqueue EXCEPT ![home[t]] =
        insert_before(@, t, {u \in Thread : priority[u] < priority[t]})]

sched_prio_sleep(t) == runqueue' = runqueue_remove(t)

sched_prio_wake(t) == runqueue' = prio_queue_add(t)

sched_prio_pick_next(p, next) ==
    /\ next = IF runqueue[p] = <<>> THEN p ELSE Head(runqueue[p])
    /\ UNCHANGED runqueue

-----------------------------------------------------------------------------
sched_noop_sleep(t) ==
    runqueue' = IF runqueue[home[t]] = <<t>> THEN [runqueue EXCEPT ![home[t]] = <<>>]
                ELSE runqueue

sched_noop_wake(t) ==
    runqueue' = IF runqueue[home[t]] = <<>> THEN [runqueue EXCEPT ![home[t]] = <<t>>]
                ELSE runqueue

sched_noop_pick_next(p, next) ==
    /\ next = IF runqueue[p] = <<>> THEN p ELSE Head(runqueue[p])
    /\ UNCHANGED runqueue

=============================================================================
