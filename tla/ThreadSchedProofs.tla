------------------------- MODULE ThreadSchedProofs -------------------------
(***************************************************************************)
(* Proofs about ThreadSched, for any set of threads, any set of pCPUs and  *)
(* any assignment of threads to pCPUs.                                     *)
(***************************************************************************)
EXTENDS ThreadSched, TLAPS

(* Every step of the scheduler keeps the variables in their types.         *)
LEMMA TypeStep == TypeOK /\ SchedInv /\ [Next]_vars => TypeOK'
<1> SUFFICES ASSUME TypeOK, SchedInv, [Next]_vars
             PROVE  TypeOK'
    OBVIOUS
<1> USE HomeType, ThreadsDistinct DEF TypeOK, Object, Status
<1>1. CASE UNCHANGED vars
    BY <1>1 DEF vars
<1>2. ASSUME NEW t \in Thread, init_thread_data(t) PROVE TypeOK'
    BY <1>2 DEF init_thread_data
<1>3. ASSUME NEW t \in Thread, sleep_thread(t) PROVE TypeOK'
    BY <1>3 DEF sleep_thread
<1>4. ASSUME NEW t \in Thread, wake_thread(t) PROVE TypeOK'
    <2>1. runqueue' \in [Pcpu -> SUBSET Thread]
        BY <1>4 DEF wake_thread
    <2>2. status' \in [Object -> Status]
        BY <1>4 DEF wake_thread
    <2>3. be_blocking' \in [Object -> BOOLEAN]
        BY <1>4 DEF wake_thread
    <2>4. resched' \in [Pcpu -> BOOLEAN] /\ curr_obj' = curr_obj
        BY <1>4 DEF wake_thread
    <2> QED
        BY <2>1, <2>2, <2>3, <2>4
<1>5. ASSUME NEW p \in Pcpu, run_idle_thread(p) PROVE TypeOK'
    BY <1>5 DEF run_idle_thread
<1>6. ASSUME NEW p \in Pcpu, schedule(p) PROVE TypeOK'
    <2>1. PICK next \in pick_next(p) : schedule_to(p, next)
        BY <1>6 DEF schedule
    <2>2. next \in Object /\ curr_obj[p] \in Object
        BY <2>1 DEF pick_next, schedule_to
    <2>3. CASE curr_obj[p] # next
        <3>1. status' \in [Object -> Status]
            BY <2>1, <2>2, <2>3 DEF schedule_to, switch_status
        <3>2. be_blocking' \in [Object -> BOOLEAN]
            BY <2>1, <2>2, <2>3 DEF schedule_to
        <3>3. curr_obj' \in [Pcpu -> Object \cup {NULL}]
            BY <2>1, <2>2, <2>3 DEF schedule_to
        <3>4. resched' \in [Pcpu -> BOOLEAN] /\ runqueue' \in [Pcpu -> SUBSET Thread]
            BY <2>1, <2>2, <2>3 DEF schedule_to
        <3> QED
            BY <3>1, <3>2, <3>3, <3>4
    <2>4. CASE curr_obj[p] = next
        BY <2>1, <2>2, <2>4 DEF schedule_to
    <2> QED
        BY <2>3, <2>4
<1>7. ASSUME NEW p \in Pcpu, make_reschedule_request(p) PROVE TypeOK'
    BY <1>7 DEF make_reschedule_request
<1> QED
    BY <1>1, <1>2, <1>3, <1>4, <1>5, <1>6, <1>7 DEF Next

(* Every step keeps the run queues, the thread statuses, curr_obj,         *)
(* be_blocking and NEED_RESCHEDULE consistent with each other.             *)
LEMMA SchedStep == TypeOK /\ SchedInv /\ [Next]_vars => SchedInv'
<1> SUFFICES ASSUME TypeOK, SchedInv, [Next]_vars
             PROVE  SchedInv'
    OBVIOUS
<1> USE HomeType, ThreadsDistinct
    DEF TypeOK, Object, Status, SchedInv, QueueMatchesStatus, QueueIsLocal,
        RunningIsCurrent, CurrentIsLocal, BlockingIsRunning, NoLostWakeup,
        IdleNeverBlocked, pcpu_id, is_running, is_blocked
<1>1. CASE UNCHANGED vars
    BY <1>1 DEF vars
<1>2. ASSUME NEW t \in Thread, init_thread_data(t) PROVE SchedInv'
    BY <1>2 DEF init_thread_data
<1>3. ASSUME NEW t \in Thread, sleep_thread(t) PROVE SchedInv'
    <2>1. CASE is_running(t)
        <3>1. /\ runqueue' = [runqueue EXCEPT ![home[t]] = @ \ {t}]
              /\ resched' = [resched EXCEPT ![home[t]] = TRUE]
              /\ be_blocking' = [be_blocking EXCEPT ![t] = TRUE]
              /\ UNCHANGED <<status, curr_obj>>
            BY <1>3, <2>1 DEF sleep_thread
        <3>2. QueueMatchesStatus' /\ QueueIsLocal'
            BY <2>1, <3>1
        <3>3. RunningIsCurrent' /\ CurrentIsLocal' /\ IdleNeverBlocked'
            BY <3>1
        <3>4. BlockingIsRunning'
            BY <2>1, <3>1
        <3>5. NoLostWakeup'
            BY <2>1, <3>1
        <3> QED
            BY <3>2, <3>3, <3>4, <3>5
    <2>2. CASE ~is_running(t)
        <3>1. /\ runqueue' = [runqueue EXCEPT ![home[t]] = @ \ {t}]
              /\ status' = [status EXCEPT ![t] = "BLOCKED"]
              /\ UNCHANGED <<resched, be_blocking, curr_obj>>
            BY <1>3, <2>2 DEF sleep_thread
        <3>2. QueueMatchesStatus' /\ QueueIsLocal'
            BY <2>2, <3>1
        <3>3. RunningIsCurrent' /\ CurrentIsLocal' /\ IdleNeverBlocked'
            BY <2>2, <3>1
        <3>4. BlockingIsRunning' /\ NoLostWakeup'
            BY <2>2, <3>1
        <3> QED
            BY <3>2, <3>3, <3>4
    <2> QED
        BY <2>1, <2>2
<1>4. ASSUME NEW t \in Thread, wake_thread(t) PROVE SchedInv'
    <2>1. CASE is_blocked(t)
        <3>1. /\ runqueue' = [runqueue EXCEPT ![home[t]] = @ \cup {t}]
              /\ status' = [status EXCEPT ![t] = "RUNNABLE"]
              /\ resched' = [resched EXCEPT ![home[t]] = TRUE]
              /\ be_blocking' = [be_blocking EXCEPT ![t] = FALSE]
              /\ UNCHANGED curr_obj
            BY <1>4, <2>1 DEF wake_thread
        <3>2. QueueMatchesStatus'
            BY <2>1, <3>1
        <3>3. QueueIsLocal' /\ CurrentIsLocal' /\ IdleNeverBlocked'
            BY <3>1
        <3>4. RunningIsCurrent'
            BY <2>1, <3>1
        <3>5. BlockingIsRunning'
            BY <2>1, <3>1
        <3>6. NoLostWakeup'
            BY <3>1
        <3> QED
            BY <3>2, <3>3, <3>4, <3>5, <3>6
    <2>2. CASE ~is_blocked(t) /\ be_blocking[t]
        <3>1. /\ runqueue' = [runqueue EXCEPT ![home[t]] = @ \cup {t}]
              /\ be_blocking' = [be_blocking EXCEPT ![t] = FALSE]
              /\ UNCHANGED <<status, resched, curr_obj>>
            BY <1>4, <2>2 DEF wake_thread
        <3>2. curr_obj[home[t]] = t /\ is_running(t)
            BY <2>2
        <3>3. QueueMatchesStatus' /\ QueueIsLocal'
            BY <3>1, <3>2
        <3>4. RunningIsCurrent' /\ CurrentIsLocal' /\ IdleNeverBlocked'
            BY <3>1
        <3>5. BlockingIsRunning'
            BY <3>1
        <3>6. NoLostWakeup'
            BY <3>1, <3>2
        <3> QED
            BY <3>3, <3>4, <3>5, <3>6
    <2>3. CASE ~is_blocked(t) /\ ~be_blocking[t]
        BY <1>4, <2>3 DEF wake_thread
    <2> QED
        BY <2>1, <2>2, <2>3
<1>5. ASSUME NEW p \in Pcpu, run_idle_thread(p) PROVE SchedInv'
    BY <1>5 DEF run_idle_thread
<1>6. ASSUME NEW p \in Pcpu, schedule(p) PROVE SchedInv'
    <2>1. PICK next \in pick_next(p) : schedule_to(p, next)
        BY <1>6 DEF schedule
    <2> DEFINE prev == curr_obj[p]
    <2>2. /\ prev \in Object /\ pcpu_id(prev) = p /\ is_running(prev)
          /\ next \in Object /\ pcpu_id(next) = p
        BY <2>1 DEF pick_next, schedule_to
    <2>3. /\ runqueue' = runqueue
          /\ resched' = [resched EXCEPT ![p] = FALSE]
        BY <2>1 DEF schedule_to
    <2>4. next = p => runqueue[p] = {}
        BY <2>1 DEF pick_next
    <2>5. next # p => next \in runqueue[p]
        BY <2>1 DEF pick_next
    <2>6. CASE prev = next
        <3>1. UNCHANGED <<status, be_blocking, curr_obj>>
            BY <2>1, <2>6 DEF schedule_to
        <3>2. \A t \in Thread : prev = t => ~be_blocking[t]
            BY <2>2, <2>5, <2>6
        <3> QED
            BY <2>2, <2>3, <2>4, <2>6, <3>1, <3>2
    <2>7. CASE prev # next
        <3>1. /\ curr_obj' = [curr_obj EXCEPT ![p] = next]
              /\ be_blocking' = [be_blocking EXCEPT ![prev] = FALSE]
            BY <2>1, <2>7 DEF schedule_to
        <3>2. \A o \in Object : status'[o] =
                  CASE o = next -> "RUNNING"
                    [] o = prev -> (IF be_blocking[prev] THEN "BLOCKED" ELSE "RUNNABLE")
                    [] OTHER -> status[o]
            BY <2>1, <2>2, <2>7 DEF schedule_to, switch_status
        <3>3. QueueMatchesStatus'
            BY <2>2, <2>3, <2>5, <2>7, <3>1, <3>2
        <3>4. RunningIsCurrent'
            BY <2>2, <2>7, <3>1, <3>2
        <3>5. BlockingIsRunning'
            BY <2>2, <2>7, <3>1, <3>2
        <3>6. NoLostWakeup'
            BY <2>2, <2>3, <2>4, <2>5, <2>7, <3>1
        <3>7. QueueIsLocal' /\ CurrentIsLocal'
            BY <2>2, <2>3, <3>1
        <3>8. IdleNeverBlocked'
            BY <2>2, <2>7, <3>2
        <3> QED
            BY <3>3, <3>4, <3>5, <3>6, <3>7, <3>8
    <2> QED
        BY <2>6, <2>7
<1>7. ASSUME NEW p \in Pcpu, make_reschedule_request(p) PROVE SchedInv'
    BY <1>7 DEF make_reschedule_request
<1> QED
    BY <1>1, <1>2, <1>3, <1>4, <1>5, <1>6, <1>7 DEF Next

(* The state init_sched leaves behind satisfies the invariant.             *)
LEMMA SchedInit == init_sched => TypeOK /\ SchedInv
BY HomeType, ThreadsDistinct
   DEF init_sched, TypeOK, Object, Status, SchedInv, QueueMatchesStatus,
       QueueIsLocal, RunningIsCurrent, CurrentIsLocal, BlockingIsRunning,
       NoLostWakeup, IdleNeverBlocked, pcpu_id, is_running, is_blocked

(* The scheduler of schedule.c is consistent in every reachable state: the *)
(* variables have their types and the inductive invariant holds.           *)
THEOREM SchedCorrect == Spec => [](TypeOK /\ SchedInv)
<1>1. TypeOK /\ SchedInv /\ [Next]_vars => (TypeOK /\ SchedInv)'
    BY TypeStep, SchedStep
<1> QED
    BY SchedInit, <1>1, PTL DEF Spec

(* The run queues hold exactly the threads that may run, whatever remote   *)
(* sleep_thread and wake_thread calls interleave with schedule().          *)
THEOREM QueueCorrect == Spec => []QueueMatchesStatus
BY SchedCorrect, PTL DEF SchedInv

(* RUNNING and curr_obj agree: a pCPU runs one thread, and one of its own. *)
THEOREM RunningCorrect == Spec => []RunningIsCurrent
BY SchedCorrect, PTL DEF SchedInv

(* NEED_RESCHEDULE is set while an idle pCPU has a queued thread or the    *)
(* current thread is asked to sleep: schedule() never clears it too early. *)
THEOREM WakeupNotLost == Spec => []NoLostWakeup
BY SchedCorrect, PTL DEF SchedInv

(* schedule() never switches to a sleeping thread.                         *)
THEOREM BlockedNeverPicked == Spec => BlockedIsWokenFirst
<1> DEFINE Step == \A t \in Thread : status[t] = "BLOCKED" => status'[t] # "RUNNING"
<1>1. TypeOK /\ SchedInv /\ [Next]_vars => [Step]_vars
    <2> SUFFICES ASSUME TypeOK, SchedInv, Next, NEW t \in Thread,
                        status[t] = "BLOCKED"
                 PROVE  status'[t] # "RUNNING"
        OBVIOUS
    <2> USE HomeType, ThreadsDistinct DEF TypeOK, Object, Status
    <2>1. ASSUME NEW u \in Thread, init_thread_data(u) \/ sleep_thread(u) \/ wake_thread(u)
          PROVE  status'[t] # "RUNNING"
        BY <2>1 DEF init_thread_data, sleep_thread, wake_thread
    <2>2. ASSUME NEW p \in Pcpu, run_idle_thread(p) \/ make_reschedule_request(p)
          PROVE  status'[t] # "RUNNING"
        BY <2>2 DEF run_idle_thread, make_reschedule_request
    <2>3. ASSUME NEW p \in Pcpu, schedule(p) PROVE status'[t] # "RUNNING"
        <3>1. PICK next \in pick_next(p) : schedule_to(p, next)
            BY <2>3 DEF schedule
        <3>2. next # t
            BY <3>1 DEF pick_next, SchedInv, QueueMatchesStatus, QueueIsLocal
        <3>3. curr_obj[p] \in Object /\ next \in Object
            BY <3>1 DEF pick_next, schedule_to
        <3> QED
            BY <3>1, <3>2, <3>3 DEF schedule_to, switch_status
    <2> QED
        BY <2>1, <2>2, <2>3 DEF Next
<1> QED
    BY SchedCorrect, <1>1, PTL DEF Spec, BlockedIsWokenFirst

=============================================================================
