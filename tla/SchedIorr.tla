------------------------------ MODULE SchedIorr ------------------------------
(***************************************************************************)
(* The I/O-sensitive round-robin policy, hypervisor/common/sched_iorr.c.   *)
(*                                                                         *)
(* Time is abstract: the cycles between two readings of cpu_ticks() are a  *)
(* choice from 0..MaxElapsed, slice_cycles is Slice, and the debt of a     *)
(* thread that overran its slice is capped by MaxDebt.                     *)
(***************************************************************************)
EXTENDS SchedCore

CONSTANTS
    Slice,        \* data->slice_cycles
    MaxElapsed,   \* bound: most cycles between two accounting points
    MaxDebt       \* bound: most cycles a thread overruns its slice by

ASSUME SliceAssumption == Slice \in Nat \ {0} /\ MaxElapsed \in Nat /\ MaxDebt \in Nat

VARIABLE left_cycles  \* data->left_cycles

runqueue_add_head(o) ==
    IF is_inqueue(o) THEN runqueue ELSE [runqueue EXCEPT ![home[o]] = <<o>> \o @]

(* runqueue_remove and then runqueue_add_tail.                             *)
move_to_tail(o) == [runqueue_remove(o) EXCEPT ![home[o]] = Append(@, o)]

(* The effect of `while (left <= 0) left += slice_cycles'.                 *)
replenish(left) ==
    IF left > 0 THEN left ELSE left + Slice * ((-left) \div Slice + 1)

-----------------------------------------------------------------------------
sched_iorr_init_data(t) == left_cycles' = [left_cycles EXCEPT ![t] = Slice]

sched_iorr_sleep(t) == runqueue' = runqueue_remove(t) /\ UNCHANGED left_cycles

sched_iorr_wake(t) == runqueue' = runqueue_add_head(t) /\ UNCHANGED left_cycles

(* sched_iorr_pick_next: the queue and the cycles left after the current   *)
(* thread, if it may still run, has paid for `elapsed' cycles and moved to *)
(* the tail, then the head of that queue, replenished.                     *)

still_runs(o) == o \in Thread /\ is_inqueue(o)

requeued(p) ==
    IF still_runs(curr_obj[p]) THEN move_to_tail(curr_obj[p]) ELSE runqueue

charged(p, elapsed) ==
    LET o == curr_obj[p]
        left == left_cycles[o] - elapsed IN
    IF still_runs(o)
    THEN [left_cycles EXCEPT ![o] = IF left <= 0 THEN left + Slice ELSE left]
    ELSE left_cycles

(* Fault: the current thread keeps its place at the head of the queue.     *)
pick_next_keeps_head(p, next) ==
    \E elapsed \in 0 .. MaxElapsed :
        /\ runqueue' = runqueue
        /\ next = IF runqueue[p] = <<>> THEN p ELSE Head(runqueue[p])
        /\ left_cycles' = IF next = p THEN charged(p, elapsed)
                          ELSE [charged(p, elapsed) EXCEPT ![next] = replenish(@)]

(* Fault: the thread picked is not replenished.                            *)
pick_next_no_replenish(p, next) ==
    \E elapsed \in 0 .. MaxElapsed :
        /\ runqueue' = requeued(p)
        /\ next = IF requeued(p)[p] = <<>> THEN p ELSE Head(requeued(p)[p])
        /\ left_cycles' = charged(p, elapsed)

sched_iorr_pick_next(p, next) ==
    \E elapsed \in 0 .. MaxElapsed :
        LET queue == requeued(p)
            left == charged(p, elapsed) IN
        /\ runqueue' = queue
        /\ next = IF queue[p] = <<>> THEN p ELSE Head(queue[p])
        /\ left_cycles' = IF next = p THEN left ELSE [left EXCEPT ![next] = replenish(@)]

(* sched_tick_handler, the periodic tick: `request' says whether it calls  *)
(* make_reschedule_request.                                                *)
sched_iorr_tick(p, request) ==
    LET current == curr_obj[p] IN
    \/ /\ current \in Thread
       /\ \E elapsed \in 1 .. MaxElapsed :
              LET left == left_cycles[current] - elapsed IN
              /\ left >= -MaxDebt
              /\ left_cycles' = [left_cycles EXCEPT ![current] = left]
              /\ request = (left <= 0)
    \/ /\ current = p
       /\ request = (runqueue[p] # <<>>)
       /\ UNCHANGED left_cycles

=============================================================================
