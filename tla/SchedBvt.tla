------------------------------- MODULE SchedBvt -------------------------------
(***************************************************************************)
(* The borrowed-virtual-time policy, hypervisor/common/sched_bvt.c.  A     *)
(* thread's virtual time advances with the time it runs, at vt_ratio,      *)
(* which is proportional to 1/weight; the queue is ordered by it, and a    *)
(* one-shot tick ends a thread's run some way behind the second thread of  *)
(* the queue.  evt always equals avt, because warp is not implemented.     *)
(*                                                                         *)
(* Time is the number of cycles since start_tsc of the current thread, and *)
(* MaxVt bounds the virtual time explored.                                 *)
(***************************************************************************)
EXTENDS SchedCore

CONSTANTS
    vt_ratio,   \* data->vt_ratio of every thread
    Mcu,        \* data->mcu and tick_period, in cycles
    Csa,        \* BVT_CSA_MCU, the context switch allowance
    MaxVt       \* bound: virtual time

ASSUME BvtAssumption ==
    /\ Mcu \in Nat \ {0} /\ Csa \in Nat /\ MaxVt \in Nat
    /\ vt_ratio \in [Thread -> Nat \ {0}]

VARIABLES
    avt,        \* data->avt
    residual,   \* data->residual, below mcu
    svt,        \* bvt_ctl->svt of every pCPU
    ran,        \* now - start_tsc of the pCPU's current thread
    deadline    \* value of ran at which tick_timer expires, or NULL

bvtVars == <<avt, residual, svt, ran, deadline>>

-----------------------------------------------------------------------------
(* runqueue_add with the virtual times vt.                                 *)
runqueue_add(q, t, vt) == insert_before(q, t, {u \in Thread : vt[u] > vt[t]})

sched_bvt_sleep(t) == runqueue' = runqueue_remove(t) /\ UNCHANGED bvtVars

(* A thread that slept long starts from the scheduler's virtual time.      *)
sched_bvt_wake(t) ==
    LET p == home[t]
        vt == [avt EXCEPT ![t] = IF @ > svt[p] - Csa THEN @ ELSE svt[p]] IN
    /\ avt' = vt
    /\ runqueue' = [runqueue EXCEPT ![p] = runqueue_add(@, t, vt)]
    /\ UNCHANGED <<residual, svt, ran, deadline>>

(* update_vt: the virtual time the current thread has after ran[p] cycles. *)
v_delta(p) == ran[p] * vt_ratio[curr_obj[p]] + residual[curr_obj[p]]

update_vt(p) ==
    IF is_idle_thread(curr_obj[p]) THEN avt
    ELSE [avt EXCEPT ![curr_obj[p]] = @ + v_delta(p) \div Mcu]

resorted(p) ==
    LET t == curr_obj[p] IN
    IF t \in Thread /\ is_inqueue(t)
    THEN [runqueue EXCEPT ![p] = runqueue_add(runqueue_remove(t)[p], t, update_vt(p))]
    ELSE runqueue

(* Fault: the countdown is taken from the difference of virtual times,     *)
(* not converted to the time the first thread may run.                     *)
run_countdown_virtual(q, vt) ==
    IF Len(q) < 2 THEN NULL ELSE (vt[q[2]] - vt[q[1]] + Csa) * Mcu

(* The countdown of the one-shot tick of a queue: none for fewer than two  *)
(* threads.                                                                *)
run_countdown(q, vt) ==
    IF Len(q) < 2 THEN NULL
    ELSE ((vt[q[2]] - vt[q[1]]) \div vt_ratio[q[1]] + Csa) * Mcu

sched_bvt_pick_next(p, next) ==
    LET queue == resorted(p)
        vt == update_vt(p) IN
    /\ runqueue' = queue
    /\ avt' = vt
    /\ residual' = IF is_idle_thread(curr_obj[p]) THEN residual
                   ELSE [residual EXCEPT ![curr_obj[p]] = v_delta(p) % Mcu]
    /\ svt' = IF queue[p] = <<>> THEN svt ELSE [svt EXCEPT ![p] = vt[Head(queue[p])]]
    /\ deadline' = [deadline EXCEPT ![p] = run_countdown(queue[p], vt)]
    /\ next = IF queue[p] = <<>> THEN p ELSE Head(queue[p])
    /\ ran' = [ran EXCEPT ![p] = 0]

(* sched_tick_handler: the one-shot timer has expired.                     *)
sched_bvt_tick(p, request) ==
    /\ deadline[p] # NULL /\ ran[p] >= deadline[p]
    /\ deadline' = [deadline EXCEPT ![p] = NULL]
    /\ request = (curr_obj[p] \in Thread \/ runqueue[p] # <<>>)
    /\ UNCHANGED <<avt, residual, svt, ran>>

(* A cycle passes on a pCPU that runs a thread.                            *)
bvt_cycle(p) ==
    /\ curr_obj[p] \in Thread
    /\ update_vt(p)[curr_obj[p]] + vt_ratio[curr_obj[p]] <= MaxVt
    /\ ran' = [ran EXCEPT ![p] = @ + 1]
    /\ UNCHANGED <<avt, residual, svt, deadline>>

=============================================================================
