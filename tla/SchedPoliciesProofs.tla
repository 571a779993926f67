------------------------ MODULE SchedPoliciesProofs ------------------------
(***************************************************************************)
(* Proofs about SchedPolicies, for any threads, pCPUs, priorities, virtual *)
(* time ratios and slice: every policy implements the contract ThreadSched *)
(* describes, and keeps its own promise about which thread runs.           *)
(***************************************************************************)
EXTENDS SchedPolicies, WellFoundedInduction, TLAPS

-----------------------------------------------------------------------------
(* The list operations of a run queue.                                     *)

(* Every entry of q precedes the later ones in the relation R.             *)
ordered(q, R) == \A i, j \in DOMAIN q : i < j => <<q[i], q[j]>> \in R
irreflexive(R) == \A x \in Thread : <<x, x>> \notin R

(* In the order R, t comes before the threads of `later' and what follows  *)
(* them in q, and after the others.                                        *)
fits(q, t, later, R) ==
    /\ \A x \in Range(q) : x \notin later => <<x, t>> \in R
    /\ \A x \in Range(q) : x \in later => <<t, x>> \in R
    /\ \A x, y \in Range(q) : x \in later /\ <<x, y>> \in R => <<t, y>> \in R

(* A set of places that is not empty has a first one.                      *)
LEMMA First ==
    ASSUME NEW S \in SUBSET Nat, S # {}
    PROVE  \E i \in S : \A j \in S : i <= j
<1> DEFINE less == OpToRel(<, Nat)
<1>1. PICK i \in S : \A j \in S : <<j, i>> \notin less
    BY Zenon, NatLessThanWellFounded, WFMin
<1>2. \A j \in S : ~(j < i)
    BY Zenon, <1>1 DEF OpToRel
<1> QED BY <1>2

(* list_del_init of an entry leaves the others, in their order.            *)
LEMMA WithoutOrdered ==
    ASSUME NEW q \in Seq(Thread), NEW o, NEW R, ordered(q, R), irreflexive(R)
    PROVE  /\ without(q, o) \in Seq(Thread) /\ ordered(without(q, o), R)
           /\ Range(without(q, o)) = Range(q) \ {o}
<1>1. CASE o \notin Range(q)
    BY Zenon, <1>1 DEF without
<1>2. CASE o \in Range(q)
    <2> DEFINE at == CHOOSE k \in DOMAIN q : q[k] = o
               r == [k \in 1 .. Len(q) - 1 |-> IF k < at THEN q[k] ELSE q[k + 1]]
    <2>1. at \in 1 .. Len(q) /\ q[at] = o
        BY <1>2 DEF Range
    <2>2. without(q, o) = r
        BY Zenon, <1>2 DEF without
    <2> HIDE DEF at
    <2>3. /\ r \in Seq(Thread) /\ Len(r) = Len(q) - 1
          /\ \A i \in 1 .. Len(r) : r[i] = IF i < at THEN q[i] ELSE q[i + 1]
        BY <2>1
    <2> HIDE DEF r
    <2>4. ordered(r, R)
        <3> SUFFICES ASSUME NEW i \in 1 .. Len(r), NEW j \in 1 .. Len(r), i < j
                     PROVE  <<r[i], r[j]>> \in R
            <4>1. DOMAIN r = 1 .. Len(r)
                BY <2>3
            <4> QED BY Zenon, <4>1 DEF ordered
        <3> DEFINE k == IF i < at THEN i ELSE i + 1
                   l == IF j < at THEN j ELSE j + 1
        <3>1. r[i] = q[k] /\ r[j] = q[l] /\ k \in 1 .. Len(q) /\ l \in 1 .. Len(q) /\ k < l
            BY <2>1, <2>3
        <3> QED BY <3>1 DEF ordered
    <2>5. \A i \in 1 .. Len(q) : i # at => q[i] # o
        <3> SUFFICES ASSUME NEW i \in 1 .. Len(q), i # at, q[i] = o PROVE FALSE
            BY Zenon
        <3>1. <<o, o>> \in R /\ o \in Thread
            BY <2>1 DEF ordered
        <3> QED BY Zenon, <3>1 DEF irreflexive
    <2>6. Range(r) \subseteq Range(q) \ {o}
        BY SMTT(60), <2>1, <2>3, <2>5 DEF Range
    <2>7. ASSUME NEW x \in Range(q), x # o PROVE x \in Range(r)
        <3>1. PICK i \in 1 .. Len(q) : q[i] = x
            BY DEF Range
        <3>2. i # at
            BY Zenon, <2>1, <2>7, <3>1
        <3>3. CASE i < at
            BY <2>1, <2>3, <3>1, <3>3 DEF Range
        <3>4. CASE i > at
            <4>1. i - 1 \in 1 .. Len(r) /\ r[i - 1] = x
                BY <2>1, <2>3, <3>1, <3>4
            <4> QED BY <2>3, <4>1 DEF Range
        <3> QED BY <2>1, <3>2, <3>3, <3>4
    <2> QED BY Zenon, <2>2, <2>3, <2>4, <2>6, <2>7
<1> QED BY Zenon, <1>1, <1>2

(* The walk of an ordered policy puts t behind the entries that precede it *)
(* and before those it precedes.                                           *)
LEMMA InsertOrdered ==
    ASSUME NEW q \in Seq(Thread), NEW t \in Thread, NEW later, NEW R, ordered(q, R),
           fits(q, t, later, R)
    PROVE  /\ insert_before(q, t, later) \in Seq(Thread)
           /\ ordered(insert_before(q, t, later), R)
           /\ Range(insert_before(q, t, later)) = Range(q) \cup {t}
<1> DEFINE at == CHOOSE k \in 1 .. Len(q) + 1 :
                     /\ k <= Len(q) => q[k] \in later
                     /\ \A j \in 1 .. k - 1 : q[j] \notin later
           r == [k \in 1 .. Len(q) + 1 |->
                    IF k < at THEN q[k] ELSE IF k = at THEN t ELSE q[k - 1]]
<1>F. /\ \A x \in Range(q) : x \notin later => <<x, t>> \in R
      /\ \A x \in Range(q) : x \in later => <<t, x>> \in R
      /\ \A x, y \in Range(q) : x \in later /\ <<x, y>> \in R => <<t, y>> \in R
    BY Zenon DEF fits
<1>1. /\ at \in 1 .. Len(q) + 1
      /\ at <= Len(q) => q[at] \in later
      /\ \A j \in 1 .. at - 1 : q[j] \notin later
    <2> DEFINE T == {k \in 1 .. Len(q) + 1 : k <= Len(q) => q[k] \in later}
    <2>1. T \in SUBSET Nat /\ Len(q) + 1 \in T
        OBVIOUS
    <2> HIDE DEF T
    <2>2. PICK k \in T : \A j \in T : k <= j
        BY Zenon, <2>1, First
    <2>3. /\ k \in 1 .. Len(q) + 1
          /\ k <= Len(q) => q[k] \in later
          /\ \A j \in 1 .. k - 1 : q[j] \notin later
        BY <2>2 DEF T
    <2> QED BY Zenon, <2>3
<1>2. insert_before(q, t, later) = r
    BY Zenon DEF insert_before
<1> HIDE DEF at
<1>3. /\ r \in Seq(Thread) /\ Len(r) = Len(q) + 1
      /\ \A i \in 1 .. Len(r) : r[i] = IF i < at THEN q[i] ELSE IF i = at THEN t ELSE q[i - 1]
    BY <1>1
<1> HIDE DEF r
<1>R. /\ Len(q) \in Nat /\ at \in Nat /\ DOMAIN q = 1 .. Len(q) /\ DOMAIN r = 1 .. Len(q) + 1
      /\ \A i \in 1 .. Len(q) : q[i] \in Range(q)
    BY <1>1, <1>3 DEF Range
<1>V. ASSUME NEW i \in 1 .. Len(q) + 1
      PROVE  /\ i < at => r[i] = q[i] /\ i \in 1 .. Len(q)
             /\ i = at => r[i] = t
             /\ i > at => r[i] = q[i - 1] /\ i - 1 \in 1 .. Len(q)
    BY <1>1, <1>3, <1>R
<1>4. ordered(r, R)
    <2> SUFFICES ASSUME NEW i \in 1 .. Len(q) + 1, NEW j \in 1 .. Len(q) + 1, i < j
                 PROVE  <<r[i], r[j]>> \in R
        BY Zenon, <1>R DEF ordered
    <2>1. CASE j < at
        <3>1. r[i] = q[i] /\ r[j] = q[j] /\ i \in 1 .. Len(q) /\ j \in 1 .. Len(q)
            BY <1>1, <1>3, <1>R, <2>1
        <3> QED BY Zenon, <1>R, <3>1 DEF ordered
    <2>2. CASE j = at
        <3>1. r[i] = q[i] /\ r[j] = t /\ i \in 1 .. Len(q) /\ i \in 1 .. at - 1
            BY <1>1, <1>3, <1>R, <2>2
        <3> QED BY Zenon, <1>1, <1>F, <1>R, <3>1
    <2>3. CASE i < at /\ j > at
        <3>1. r[i] = q[i] /\ r[j] = q[j - 1] /\ i \in 1 .. Len(q) /\ j - 1 \in 1 .. Len(q) /\ i < j - 1
            BY <1>R, <1>V, <2>3
        <3> QED BY Zenon, <1>R, <3>1 DEF ordered
    <2>4. CASE i = at
        <3>1. r[i] = t /\ r[j] = q[j - 1] /\ j - 1 \in 1 .. Len(q) /\ at \in 1 .. Len(q) /\ at <= j - 1
            BY <1>1, <1>3, <1>R, <2>4
        <3>2. q[at] \in later
            BY <1>1, <3>1
        <3>3. CASE at = j - 1
            BY Zenon, <1>F, <1>R, <3>1, <3>2, <3>3
        <3>4. CASE at < j - 1
            <4>1. <<q[at], q[j - 1]>> \in R
                BY Zenon, <1>R, <3>1, <3>4 DEF ordered
            <4> QED BY Zenon, <1>F, <1>R, <3>1, <3>2, <4>1
        <3> QED BY <1>R, <3>1, <3>3, <3>4
    <2>5. CASE i > at
        <3>1. /\ r[i] = q[i - 1] /\ r[j] = q[j - 1]
              /\ i - 1 \in 1 .. Len(q) /\ j - 1 \in 1 .. Len(q) /\ i - 1 < j - 1
            BY <1>1, <1>3, <1>R, <2>5
        <3> QED BY Zenon, <1>R, <3>1 DEF ordered
    <2> QED BY <1>R, <2>1, <2>2, <2>3, <2>4, <2>5
<1>5. Range(r) \subseteq Range(q) \cup {t}
    <2> SUFFICES ASSUME NEW i \in 1 .. Len(q) + 1 PROVE r[i] \in Range(q) \cup {t}
        BY Zenon, <1>R DEF Range
    <2> QED BY <1>R, <1>V
<1>6. t \in Range(r)
    <2>1. at \in DOMAIN r /\ r[at] = t
        BY Zenon, <1>1, <1>R, <1>V
    <2> QED BY Zenon, <2>1 DEF Range
<1>7. ASSUME NEW x \in Range(q) PROVE x \in Range(r)
    <2>1. PICK i \in 1 .. Len(q) : q[i] = x
        BY Zenon, <1>R DEF Range
    <2>2. CASE i < at
        <3>1. i \in DOMAIN r /\ r[i] = x
            BY <1>R, <1>V, <2>1, <2>2
        <3> QED BY Zenon, <3>1 DEF Range
    <2>3. CASE ~(i < at)
        <3>1. i + 1 \in 1 .. Len(q) + 1 /\ r[i + 1] = x
            BY <1>R, <1>V, <2>1, <2>3
        <3> QED BY Zenon, <1>R, <3>1 DEF Range
    <2> QED BY Zenon, <2>2, <2>3
<1> QED BY Zenon, <1>2, <1>3, <1>4, <1>5, <1>6, <1>7

-----------------------------------------------------------------------------
(* The invariant.                                                          *)

(* No thread is queued twice, and the queue of the ordered policies is in  *)
(* the order of the priorities or of the virtual times.                    *)
precedes ==
    {e \in Thread \X Thread :
        /\ e[1] # e[2]
        /\ scheduler = "prio" => priority[e[1]] >= priority[e[2]]
        /\ scheduler = "bvt" => avt[e[1]] <= avt[e[2]]}

QueueType == scheduler \in Scheduler /\ runqueue \in [Pcpu -> Seq(Thread)]
TimeType ==
    /\ left_cycles \in [Thread -> Int]
    /\ avt \in [Thread -> Nat] /\ residual \in [Thread -> 0 .. Mcu - 1]
    /\ svt \in [Pcpu -> Nat] /\ ran \in [Pcpu -> Nat]
    /\ deadline \in [Pcpu -> Nat \cup {NULL}]

QueuesOrdered == \A p \in Pcpu : ordered(runqueue[p], precedes)
OnlyAssigned == \A t \in Thread : status[t] # "NONE" => t \in assigned[scheduler]

(* What ThreadSchedProofs proves of the framework, said of the queues.     *)
FrameInv ==
    /\ status \in [Object -> {"NONE", "RUNNING", "RUNNABLE", "BLOCKED"}]
    /\ be_blocking \in [Object -> BOOLEAN]
    /\ curr_obj \in [Pcpu -> Object \cup {NULL}]
    /\ resched \in [Pcpu -> BOOLEAN]
    /\ \A t \in Thread : t \in Range(runqueue[home[t]])
           <=> status[t] \in {"RUNNING", "RUNNABLE"} /\ ~be_blocking[t]
    /\ \A p \in Pcpu : \A t \in Range(runqueue[p]) : home[t] = p
    /\ \A t \in Thread : is_running(t) <=> curr_obj[home[t]] = t
    /\ \A p \in Pcpu : \/ curr_obj[p] \in {p, NULL}
                       \/ curr_obj[p] \in Thread /\ home[curr_obj[p]] = p
    /\ \A o \in Object : be_blocking[o] => o \in Thread /\ is_running(o)
    /\ \A p \in Pcpu :
           /\ curr_obj[p] \in {p, NULL} /\ Range(runqueue[p]) # {} => resched[p]
           /\ \A t \in Thread : curr_obj[p] = t /\ be_blocking[t] => resched[p]

QueueInv == QueueType /\ TimeType /\ QueuesOrdered /\ OnlyAssigned

-----------------------------------------------------------------------------
(* What the policies do to the queues.                                     *)

(* The order of a queue, entry by entry.                                   *)
LEMMA Precedes ==
    ASSUME NEW x, NEW y
    PROVE  <<x, y>> \in precedes <=>
               /\ x \in Thread /\ y \in Thread /\ x # y
               /\ scheduler = "prio" => priority[x] >= priority[y]
               /\ scheduler = "bvt" => avt[x] <= avt[y]
BY Zenon DEF precedes

(* No thread goes before itself.                                           *)
LEMMA PrecedesIrreflexive == irreflexive(precedes)
BY Zenon, Precedes DEF irreflexive

(* An empty list has no entries.                                           *)
LEMMA EmptyQueue ==
    ASSUME NEW S, NEW q \in Seq(S)
    PROVE  /\ q = <<>> <=> Range(q) = {}
           /\ q # <<>> => Head(q) = q[1] /\ q[1] \in Range(q)
<1>1. q # <<>> => 1 \in DOMAIN q /\ Head(q) = q[1]
    OBVIOUS
<1>2. q = <<>> => DOMAIN q = {}
    OBVIOUS
<1> QED BY Zenon, <1>1, <1>2 DEF Range

(* A queued thread belongs to the queue's pCPU and may run.                *)
LEMMA QueuedRunsHere ==
    ASSUME FrameInv, QueueType
    PROVE  /\ \A p \in Pcpu : \A t \in Range(runqueue[p]) : t \in Thread /\ home[t] = p
           /\ \A t \in Thread : t \in Range(runqueue[home[t]])
                  <=> status[t] \in {"RUNNING", "RUNNABLE"} /\ ~be_blocking[t]
<1>1. \A p \in Pcpu : Range(runqueue[p]) \subseteq Thread
    BY DEF QueueType, Range
<1> QED BY Zenon, <1>1 DEF FrameInv

(* The slot of the noop policy holds the one thread its pCPU has, or none. *)
LEMMA NoopSlot ==
    ASSUME FrameInv, QueueInv, scheduler = "noop", NEW t \in Thread, status[t] # "NONE"
    PROVE  runqueue[home[t]] \in {<<>>, <<t>>}
<1> DEFINE q == runqueue[home[t]]
<1>1. q \in Seq(Thread) /\ home[t] \in Pcpu
    BY Zenon, ThreadAssumption DEF QueueInv, QueueType
<1>2. \A u \in Range(q) : u = t
    <2> SUFFICES ASSUME NEW u \in Range(q) PROVE u = t
        BY Zenon
    <2>1. u \in Thread /\ home[u] = home[t] /\ status[u] # "NONE"
        BY Zenon, <1>1, QueuedRunsHere DEF QueueInv
    <2>2. u \in assigned["noop"] /\ t \in assigned["noop"] /\ "noop" \in Scheduler
        BY Zenon, <2>1 DEF QueueInv, OnlyAssigned, QueueType
    <2> QED BY Zenon, <2>1, <2>2, AssignedAssumption
<1>3. \A i, j \in DOMAIN q : ~(i < j)
    <2>1. \A i, j \in DOMAIN q : i < j => q[i] # q[j]
        BY Zenon, <1>1, Precedes DEF QueueInv, QueuesOrdered, ordered
    <2> QED BY Zenon, <1>2, <2>1 DEF Range
<1> SUFFICES q \in {<<>>, <<t>>}
    BY Zenon
<1> HIDE DEF q
<1>4. CASE Len(q) = 0
    BY <1>1, <1>4
<1>5. CASE Len(q) > 0
    <2>1. Len(q) = 1
        <3>1. DOMAIN q = 1 .. Len(q) /\ Len(q) \in Nat
            BY <1>1
        <3>2. CASE Len(q) > 1
            <4>1. 1 \in DOMAIN q /\ 2 \in DOMAIN q
                BY <3>1, <3>2
            <4> QED BY <1>3, <4>1
        <3> QED BY <1>5, <3>1, <3>2
    <2>2. q[1] = t
        BY <1>1, <1>2, <2>1 DEF Range
    <2> QED BY <1>1, <2>1, <2>2
<1> QED BY <1>1, <1>4, <1>5

(* Every policy's sleep takes the thread off its queue and leaves the rest *)
(* as it is.                                                               *)
LEMMA SleepRemoves ==
    ASSUME FrameInv, QueueInv, NEW t \in Thread, status[t] # "NONE", policy_sleep(t)
    PROVE  /\ runqueue' \in [Pcpu -> Seq(Thread)] /\ UNCHANGED policyVars
           /\ \A p \in Pcpu : /\ ordered(runqueue'[p], precedes)
                              /\ Range(runqueue'[p]) = IF p = home[t] THEN Range(runqueue[p]) \ {t}
                                                       ELSE Range(runqueue[p])
<1>0. /\ runqueue \in [Pcpu -> Seq(Thread)] /\ home[t] \in Pcpu
      /\ \A p \in Pcpu : ordered(runqueue[p], precedes)
    BY Zenon, ThreadAssumption DEF QueueInv, QueueType, QueuesOrdered
<1>1. UNCHANGED policyVars
    BY Zenon DEF policy_sleep, policyVars, sched_iorr_sleep, sched_bvt_sleep
<1>2. CASE runqueue' = runqueue_remove(t)
    <2>1. runqueue' = [runqueue EXCEPT ![home[t]] = without(runqueue[home[t]], t)]
        BY Zenon, <1>2 DEF runqueue_remove
    <2>2. /\ without(runqueue[home[t]], t) \in Seq(Thread)
          /\ ordered(without(runqueue[home[t]], t), precedes)
          /\ Range(without(runqueue[home[t]], t)) = Range(runqueue[home[t]]) \ {t}
        BY Zenon, <1>0, WithoutOrdered, PrecedesIrreflexive
    <2> QED BY Zenon, <1>0, <1>1, <2>1, <2>2
<1>3. CASE scheduler = "noop" /\ sched_noop_sleep(t)
    <2>1. CASE runqueue[home[t]] = <<t>>
        <3>1. runqueue' = [runqueue EXCEPT ![home[t]] = <<>>]
            BY Zenon, <1>3, <2>1 DEF sched_noop_sleep
        <3>2. Range(<<t>>) = {t} /\ Range(<<>>) = {} /\ ordered(<<>>, precedes)
            BY DEF Range, ordered
        <3>3. runqueue' \in [Pcpu -> Seq(Thread)]
            BY <1>0, <3>1
        <3>4. runqueue'[home[t]] = <<>> /\ \A p \in Pcpu : p # home[t] => runqueue'[p] = runqueue[p]
            BY Zenon, <1>0, <3>1
        <3> QED BY Zenon, <1>0, <1>1, <2>1, <3>2, <3>3, <3>4
    <2>2. CASE runqueue[home[t]] = <<>>
        <3>1. runqueue' = runqueue
            BY <1>3, <2>2 DEF sched_noop_sleep
        <3>2. Range(<<>>) = {}
            BY DEF Range
        <3> QED BY Zenon, <1>0, <1>1, <2>2, <3>1, <3>2
    <2> QED BY Zenon, <1>3, <2>1, <2>2, NoopSlot
<1> QED BY Zenon, <1>2, <1>3
        DEF policy_sleep, sched_iorr_sleep, sched_bvt_sleep, sched_prio_sleep

(* A list with t before its head or behind its tail.                       *)
LEMMA HeadOrdered ==
    ASSUME NEW q \in Seq(Thread), NEW t \in Thread, NEW R, ordered(q, R),
           \A x \in Range(q) : <<t, x>> \in R
    PROVE  <<t>> \o q \in Seq(Thread) /\ ordered(<<t>> \o q, R) /\ Range(<<t>> \o q) = Range(q) \cup {t}
<1> DEFINE r == <<t>> \o q
<1>1. /\ r \in Seq(Thread) /\ DOMAIN r = 1 .. Len(q) + 1 /\ DOMAIN q = 1 .. Len(q) /\ Len(q) \in Nat
      /\ r[1] = t /\ \A i \in 1 .. Len(q) : r[i + 1] = q[i]
    OBVIOUS
<1> HIDE DEF r
<1>2. \A i \in 1 .. Len(q) + 1 : i = 1 \/ (i - 1 \in 1 .. Len(q) /\ r[i] = q[i - 1])
    <2> SUFFICES ASSUME NEW i \in 1 .. Len(q) + 1, i # 1
                 PROVE  i - 1 \in 1 .. Len(q) /\ r[i] = q[i - 1]
        BY Zenon
    <2>1. i - 1 \in 1 .. Len(q) /\ (i - 1) + 1 = i
        BY <1>1
    <2> QED BY Zenon, <1>1, <2>1
<1>3. ordered(r, R)
    <2> SUFFICES ASSUME NEW i \in 1 .. Len(q) + 1, NEW j \in 1 .. Len(q) + 1, i < j
                 PROVE  <<r[i], r[j]>> \in R
        BY Zenon, <1>1 DEF ordered
    <2>1. j - 1 \in 1 .. Len(q) /\ r[j] = q[j - 1]
        BY <1>1, <1>2
    <2>2. CASE i = 1
        BY Zenon, <1>1, <2>1, <2>2 DEF Range
    <2>3. CASE i # 1
        <3>1. i - 1 \in 1 .. Len(q) /\ r[i] = q[i - 1] /\ i - 1 < j - 1
            BY <1>1, <1>2, <2>3
        <3> QED BY Zenon, <1>1, <2>1, <3>1 DEF ordered
    <2> QED BY Zenon, <2>2, <2>3
<1>4. Range(r) \subseteq Range(q) \cup {t}
    <2> SUFFICES ASSUME NEW i \in 1 .. Len(q) + 1 PROVE r[i] \in Range(q) \cup {t}
        BY <1>1 DEF Range
    <2> QED BY Zenon, <1>1, <1>2 DEF Range
<1>5. t \in Range(r)
    BY <1>1 DEF Range
<1>6. ASSUME NEW x \in Range(q) PROVE x \in Range(r)
    <2>1. PICK i \in 1 .. Len(q) : q[i] = x
        BY Zenon, <1>1 DEF Range
    <2>2. i + 1 \in DOMAIN r /\ r[i + 1] = x
        BY <1>1, <2>1
    <2> QED BY Zenon, <2>2 DEF Range
<1> QED BY Zenon, <1>1, <1>3, <1>4, <1>5, <1>6 DEF r

(* list_add_tail of a thread that may go last keeps the order.             *)
LEMMA TailOrdered ==
    ASSUME NEW q \in Seq(Thread), NEW t \in Thread, NEW R, ordered(q, R),
           \A x \in Range(q) : <<x, t>> \in R
    PROVE  /\ Append(q, t) \in Seq(Thread) /\ ordered(Append(q, t), R)
           /\ Range(Append(q, t)) = Range(q) \cup {t}
<1> DEFINE r == Append(q, t)
<1>1. /\ r \in Seq(Thread) /\ DOMAIN r = 1 .. Len(q) + 1 /\ DOMAIN q = 1 .. Len(q) /\ Len(q) \in Nat
      /\ r[Len(q) + 1] = t /\ \A i \in 1 .. Len(q) : r[i] = q[i]
    OBVIOUS
<1> HIDE DEF r
<1>2. ordered(r, R)
    <2> SUFFICES ASSUME NEW i \in 1 .. Len(q) + 1, NEW j \in 1 .. Len(q) + 1, i < j
                 PROVE  <<r[i], r[j]>> \in R
        BY Zenon, <1>1 DEF ordered
    <2>1. i \in 1 .. Len(q) /\ r[i] = q[i] /\ q[i] \in Range(q)
        BY <1>1 DEF Range
    <2>2. CASE j = Len(q) + 1
        BY Zenon, <1>1, <2>1, <2>2
    <2>3. CASE j \in 1 .. Len(q)
        BY Zenon, <1>1, <2>1, <2>3 DEF ordered
    <2> QED BY <1>1, <2>2, <2>3
<1>3. \A i \in 1 .. Len(q) + 1 : i = Len(q) + 1 \/ i \in 1 .. Len(q)
    BY <1>1
<1>4. Range(r) \subseteq Range(q) \cup {t}
    BY Zenon, <1>1, <1>3 DEF Range
<1>5. Len(q) + 1 \in DOMAIN r /\ \A i \in 1 .. Len(q) : i \in DOMAIN r
    BY <1>1
<1>6. t \in Range(r) /\ Range(q) \subseteq Range(r)
    BY Zenon, <1>1, <1>5 DEF Range
<1> QED BY Zenon, <1>1, <1>2, <1>4, <1>6 DEF r

(* A queue stays in order while the virtual times of its threads stay.     *)
LEMMA OrderKept ==
    ASSUME NEW q \in Seq(Thread), ordered(q, precedes), UNCHANGED scheduler,
           \A u \in Range(q) : avt'[u] = avt[u]
    PROVE  ordered(q, precedes')
<1> SUFFICES ASSUME NEW i \in DOMAIN q, NEW j \in DOMAIN q, i < j
             PROVE  <<q[i], q[j]>> \in precedes'
    BY Zenon DEF ordered
<1>1. <<q[i], q[j]>> \in precedes
    BY Zenon DEF ordered
<1>2. q[i] \in Range(q) /\ q[j] \in Range(q)
    BY Zenon DEF Range
<1> QED BY Zenon, <1>1, <1>2 DEF precedes

(* Every policy's wake puts the thread on its queue, in order.             *)
LEMMA WakeInserts ==
    ASSUME FrameInv, QueueInv, NEW t \in Thread, is_blocked(t) \/ be_blocking[t],
           policy_wake(t), UNCHANGED scheduler
    PROVE  /\ runqueue' \in [Pcpu -> Seq(Thread)]
           /\ \A u \in Thread : u # t => avt'[u] = avt[u]
           /\ avt' \in [Thread -> Nat]
           /\ UNCHANGED <<left_cycles, residual, svt, ran, deadline>>
           /\ \A p \in Pcpu : /\ ordered(runqueue'[p], precedes')
                              /\ Range(runqueue'[p]) = IF p = home[t] THEN Range(runqueue[p]) \cup {t}
                                                       ELSE Range(runqueue[p])
<1> DEFINE q == runqueue[home[t]]
<1>0. /\ runqueue \in [Pcpu -> Seq(Thread)] /\ home[t] \in Pcpu /\ q \in Seq(Thread)
      /\ \A p \in Pcpu : ordered(runqueue[p], precedes)
      /\ \A p \in Pcpu : \A u \in Range(runqueue[p]) : u \in Thread /\ home[u] = p
    BY Zenon, ThreadAssumption, QueuedRunsHere DEF QueueInv, QueueType, QueuesOrdered
<1>1. t \notin Range(q) /\ status[t] # "NONE"
    BY Zenon, QueuedRunsHere, ThreadAssumption
       DEF QueueInv, is_blocked, is_running, FrameInv, Object
<1>2. /\ avt' \in [Thread -> Nat] /\ \A u \in Thread : u # t => avt'[u] = avt[u]
      /\ UNCHANGED <<left_cycles, residual, svt, ran, deadline>>
    BY <1>0 DEF policy_wake, policyVars, bvtVars, sched_iorr_wake, sched_bvt_wake, QueueInv, TimeType
<1>3. \A p \in Pcpu : ordered(runqueue[p], precedes')
    <2> SUFFICES ASSUME NEW p \in Pcpu PROVE ordered(runqueue[p], precedes')
        BY Zenon
    <2>1. \A u \in Range(runqueue[p]) : u # t
        BY <1>0, <1>1
    <2>2. \A u \in Range(runqueue[p]) : avt'[u] = avt[u]
        BY Zenon, <1>0, <1>2, <2>1
    <2> QED BY Zenon, <1>0, <2>2, OrderKept
<1>4. \A x \in Range(q) : x \in Thread /\ x # t
    BY Zenon, <1>0, <1>1
<1> HIDE DEF q
<1>5. ASSUME NEW r \in Seq(Thread), runqueue' = [runqueue EXCEPT ![home[t]] = r],
             ordered(r, precedes'), Range(r) = Range(q) \cup {t}
      PROVE  /\ runqueue' \in [Pcpu -> Seq(Thread)]
             /\ \A p \in Pcpu : /\ ordered(runqueue'[p], precedes')
                                /\ Range(runqueue'[p]) = IF p = home[t] THEN Range(runqueue[p]) \cup {t}
                                                         ELSE Range(runqueue[p])
    BY Zenon, <1>0, <1>3, <1>5 DEF q
<1>6. CASE scheduler = "iorr" /\ sched_iorr_wake(t)
    <2>1. runqueue' = [runqueue EXCEPT ![home[t]] = <<t>> \o q]
        BY Zenon, <1>1, <1>6 DEF sched_iorr_wake, runqueue_add_head, is_inqueue, q
    <2>2. \A x \in Range(q) : <<t, x>> \in precedes'
        BY Zenon, <1>4, <1>6 DEF precedes
    <2>3. /\ <<t>> \o q \in Seq(Thread) /\ ordered(<<t>> \o q, precedes')
          /\ Range(<<t>> \o q) = Range(q) \cup {t}
        BY Zenon, <1>0, <1>3, <2>2, HeadOrdered DEF q
    <2> QED BY Zenon, <1>2, <1>5, <2>1, <2>3
<1>7. CASE scheduler = "bvt" /\ sched_bvt_wake(t)
    <2> DEFINE later == {u \in Thread : avt'[u] > avt'[t]}
               r == insert_before(q, t, later)
    <2>1. runqueue' = [runqueue EXCEPT ![home[t]] = r]
        BY Zenon, <1>7 DEF sched_bvt_wake, runqueue_add, q
    <2>2. \A x \in Range(q) : x \notin later => <<x, t>> \in precedes'
        BY <1>2, <1>4, <1>7 DEF precedes
    <2>3. \A x \in Range(q) : x \in later => <<t, x>> \in precedes'
        BY <1>2, <1>4, <1>7 DEF precedes
    <2>4. \A x, y \in Range(q) : x \in later /\ <<x, y>> \in precedes' => <<t, y>> \in precedes'
        BY <1>2, <1>4, <1>7 DEF precedes
    <2> HIDE DEF later
    <2>5. r \in Seq(Thread) /\ ordered(r, precedes') /\ Range(r) = Range(q) \cup {t}
        <3>1. q \in Seq(Thread) /\ ordered(q, precedes')
            BY Zenon, <1>0, <1>3 DEF q
        <3> HIDE DEF r
        <3>2. r = insert_before(q, t, later)
            BY Zenon DEF r
        <3>3. fits(q, t, later, precedes')
            BY Zenon, <2>2, <2>3, <2>4 DEF fits
        <3> QED BY Zenon, <3>1, <3>2, <3>3, InsertOrdered
    <2> HIDE DEF r
    <2> QED BY Zenon, <1>2, <1>5, <2>1, <2>5
<1>8. CASE scheduler = "prio" /\ sched_prio_wake(t)
    <2> DEFINE later == {u \in Thread : priority[u] < priority[t]}
               r == insert_before(q, t, later)
    <2>1. runqueue' = [runqueue EXCEPT ![home[t]] = r]
        BY Zenon, <1>8 DEF sched_prio_wake, prio_queue_add, q
    <2>2. \A x \in Range(q) : x \notin later => <<x, t>> \in precedes'
        BY <1>4, <1>8, PriorityAssumption DEF precedes
    <2>3. \A x \in Range(q) : x \in later => <<t, x>> \in precedes'
        BY <1>4, <1>8, PriorityAssumption DEF precedes
    <2>4. \A x, y \in Range(q) : x \in later /\ <<x, y>> \in precedes' => <<t, y>> \in precedes'
        BY <1>4, <1>8, PriorityAssumption DEF precedes
    <2> HIDE DEF later
    <2>5. r \in Seq(Thread) /\ ordered(r, precedes') /\ Range(r) = Range(q) \cup {t}
        <3>1. q \in Seq(Thread) /\ ordered(q, precedes')
            BY Zenon, <1>0, <1>3 DEF q
        <3> HIDE DEF r
        <3>2. r = insert_before(q, t, later)
            BY Zenon DEF r
        <3>3. fits(q, t, later, precedes')
            BY Zenon, <2>2, <2>3, <2>4 DEF fits
        <3> QED BY Zenon, <3>1, <3>2, <3>3, InsertOrdered
    <2> HIDE DEF r
    <2> QED BY Zenon, <1>2, <1>5, <2>1, <2>5
<1>9. CASE scheduler = "noop" /\ sched_noop_wake(t)
    <2>1. Range(<<t>>) = {t} /\ Range(<<>>) = {} /\ <<t>> \in Seq(Thread) /\ ordered(<<t>>, precedes')
        BY DEF Range, ordered
    <2>2. q = <<>>
        BY Zenon, <1>1, <1>9, <2>1, NoopSlot DEF q
    <2>3. runqueue' = [runqueue EXCEPT ![home[t]] = <<t>>]
        BY Zenon, <1>9, <2>2 DEF sched_noop_wake, q
    <2> QED BY Zenon, <1>2, <1>5, <2>1, <2>2, <2>3
<1> QED BY Zenon, <1>6, <1>7, <1>8, <1>9 DEF policy_wake

(* The pCPU's current thread is its idle thread or one created for it.     *)
LEMMA CurrentHere ==
    ASSUME FrameInv, NEW p \in Pcpu, curr_obj[p] # NULL
    PROVE  \/ curr_obj[p] = p /\ curr_obj[p] \notin Thread
           \/ curr_obj[p] \in Thread /\ home[curr_obj[p]] = p /\ curr_obj[p] \notin Pcpu
BY ThreadAssumption DEF FrameInv, Object

(* v_delta charges the time the current thread has run.                    *)
LEMMA VirtualTime ==
    ASSUME FrameInv, QueueInv, NEW p \in Pcpu, curr_obj[p] # NULL
    PROVE  /\ update_vt(p) \in [Thread -> Nat]
           /\ \A u \in Thread : u # curr_obj[p] => update_vt(p)[u] = avt[u]
           /\ curr_obj[p] \in Thread => v_delta(p) \in Nat
<1>1. CASE curr_obj[p] \notin Thread
    BY Zenon, <1>1, CurrentHere DEF update_vt, is_idle_thread, QueueInv, TimeType
<1>2. CASE curr_obj[p] \in Thread
    <2>1. /\ ran[p] \in Nat /\ vt_ratio[curr_obj[p]] \in Nat /\ residual[curr_obj[p]] \in Nat
          /\ avt[curr_obj[p]] \in Nat /\ avt \in [Thread -> Nat]
        BY <1>2, BvtAssumption DEF QueueInv, TimeType
    <2>2. v_delta(p) \in Nat
        <3>1. \A a, b \in Nat : a * b \in Nat
            OBVIOUS
        <3>2. ran[p] * vt_ratio[curr_obj[p]] \in Nat
            BY Zenon, <2>1, <3>1
        <3> QED BY <2>1, <3>2 DEF v_delta
    <2>3. v_delta(p) \div Mcu \in Nat
        BY <2>2, BvtAssumption
    <2>4. update_vt(p) = [avt EXCEPT ![curr_obj[p]] = avt[curr_obj[p]] + v_delta(p) \div Mcu]
        BY Zenon, <1>2, CurrentHere DEF update_vt, is_idle_thread
    <2>5. avt[curr_obj[p]] + v_delta(p) \div Mcu \in Nat
        BY <2>1, <2>3
    <2> QED BY Zenon, <2>1, <2>2, <2>4, <2>5
<1> QED BY Zenon, <1>1, <1>2

(* Every policy's pick_next keeps the queue's members and its order, and   *)
(* returns its head.                                                       *)
LEMMA PickKeeps ==
    ASSUME FrameInv, QueueInv, NEW p \in Pcpu, NEW next, curr_obj[p] # NULL,
           policy_pick_next(p, next), UNCHANGED scheduler
    PROVE  /\ runqueue' \in [Pcpu -> Seq(Thread)]
           /\ \A r \in Pcpu : /\ ordered(runqueue'[r], precedes')
                              /\ Range(runqueue'[r]) = Range(runqueue[r])
           /\ next = IF runqueue'[p] = <<>> THEN p ELSE Head(runqueue'[p])
<1> DEFINE q == runqueue[p]
           o == curr_obj[p]
<1>0. /\ runqueue \in [Pcpu -> Seq(Thread)] /\ q \in Seq(Thread)
      /\ \A r \in Pcpu : ordered(runqueue[r], precedes)
      /\ \A r \in Pcpu : \A u \in Range(runqueue[r]) : u \in Thread /\ home[u] = r
    BY Zenon, QueuedRunsHere DEF QueueInv, QueueType, QueuesOrdered
<1>1. next = IF runqueue'[p] = <<>> THEN p ELSE Head(runqueue'[p])
    BY Zenon DEF policy_pick_next, sched_iorr_pick_next, sched_bvt_pick_next, sched_prio_pick_next,
           sched_noop_pick_next
<1>2. ASSUME NEW r \in Seq(Thread), runqueue' = [runqueue EXCEPT ![p] = r],
             \A u \in Thread : home[u] # p => avt'[u] = avt[u],
             ordered(r, precedes'), Range(r) = Range(q)
      PROVE  /\ runqueue' \in [Pcpu -> Seq(Thread)]
             /\ \A s \in Pcpu : /\ ordered(runqueue'[s], precedes')
                                /\ Range(runqueue'[s]) = Range(runqueue[s])
    <2>1. runqueue' \in [Pcpu -> Seq(Thread)]
        BY Zenon, <1>0, <1>2
    <2>2. runqueue'[p] = r /\ \A s \in Pcpu : s # p => runqueue'[s] = runqueue[s]
        BY Zenon, <1>0, <1>2
    <2>3. ASSUME NEW s \in Pcpu, s # p PROVE ordered(runqueue[s], precedes')
        <3>1. \A u \in Range(runqueue[s]) : avt'[u] = avt[u]
            BY Zenon, <1>0, <1>2, <2>3
        <3> QED BY Zenon, <1>0, <3>1, OrderKept
    <2> QED BY Zenon, <1>2, <2>1, <2>2, <2>3
<1>3. ASSUME UNCHANGED <<runqueue, avt>>
      PROVE  /\ runqueue' \in [Pcpu -> Seq(Thread)]
             /\ \A s \in Pcpu : /\ ordered(runqueue'[s], precedes')
                                /\ Range(runqueue'[s]) = Range(runqueue[s])
    <2>1. precedes' = precedes
        BY Zenon, <1>3 DEF precedes
    <2> QED BY Zenon, <1>0, <1>3, <2>1
<1>5. ASSUME o \in Thread
      PROVE  /\ without(q, o) \in Seq(Thread) /\ ordered(without(q, o), precedes)
             /\ Range(without(q, o)) = Range(q) \ {o}
    <2>1. ordered(q, precedes)
        BY Zenon, <1>0
    <2> HIDE DEF q, o
    <2> QED BY Zenon, <1>0, <2>1, WithoutOrdered, PrecedesIrreflexive
<1>6. CASE scheduler = "iorr" /\ sched_iorr_pick_next(p, next) /\ UNCHANGED bvtVars
    <2>1. runqueue' = requeued(p) /\ UNCHANGED avt
        BY Zenon, <1>6 DEF sched_iorr_pick_next, bvtVars
    <2>2. CASE still_runs(o)
        <3>1. o \in Thread /\ home[o] = p /\ o \in Range(q)
            BY Zenon, <2>2, CurrentHere DEF still_runs, is_inqueue
        <3>2. runqueue' = [runqueue EXCEPT ![p] = Append(without(q, o), o)]
            BY <1>0, <2>1, <2>2, <3>1 DEF requeued, move_to_tail, runqueue_remove
        <3>3. ordered(without(q, o), precedes')
            BY Zenon, <1>5, <2>1, <3>1, OrderKept
        <3>4. \A x \in Range(without(q, o)) : <<x, o>> \in precedes'
            BY <1>0, <1>5, <1>6, <3>1 DEF precedes
        <3> DEFINE r == Append(without(q, o), o)
        <3>5. r \in Seq(Thread) /\ ordered(r, precedes') /\ Range(r) = Range(without(q, o)) \cup {o}
            BY Zenon, <1>5, <3>1, <3>3, <3>4, TailOrdered
        <3> HIDE DEF r
        <3>6. Range(r) = Range(q)
            BY Zenon, <1>5, <3>1, <3>5
        <3>7. runqueue' = [runqueue EXCEPT ![p] = r]
            BY Zenon, <3>2 DEF r
        <3> HIDE DEF q
        <3> QED BY Zenon, <1>1, <1>2, <2>1, <3>5, <3>6, <3>7
    <2>3. CASE ~still_runs(o)
        BY Zenon, <1>1, <1>3, <2>1, <2>3 DEF requeued
    <2> QED BY Zenon, <2>2, <2>3
<1>7. CASE scheduler = "bvt" /\ sched_bvt_pick_next(p, next)
    <2>1. runqueue' = resorted(p) /\ avt' = update_vt(p)
        BY Zenon, <1>7 DEF sched_bvt_pick_next
    <2>V. avt' \in [Thread -> Nat] /\ \A u \in Thread : u # o => avt'[u] = avt[u]
        BY Zenon, <2>1, VirtualTime
    <2>W. \A u \in Thread : home[u] # p => avt'[u] = avt[u]
        BY Zenon, <2>V, CurrentHere
    <2>2. CASE o \in Thread /\ is_inqueue(o)
        <3>1. o \in Thread /\ home[o] = p /\ o \in Range(q)
            BY Zenon, <2>2, CurrentHere DEF is_inqueue
        <3> DEFINE later == {u \in Thread : avt'[u] > avt'[o]}
                   w == without(q, o)
                   r == insert_before(w, o, later)
        <3>2. runqueue' = [runqueue EXCEPT ![p] = r]
            BY Zenon, <1>0, <2>1, <2>2, <3>1 DEF resorted, runqueue_add, runqueue_remove
        <3>3. w \in Seq(Thread) /\ ordered(w, precedes) /\ Range(w) = Range(q) \ {o}
            BY Zenon, <1>5, <3>1
        <3> HIDE DEF w
        <3>4. \A x \in Range(w) : x \in Thread /\ x # o
            BY Zenon, <1>0, <3>3
        <3>5. ordered(w, precedes')
            BY Zenon, <2>V, <3>3, <3>4, OrderKept
        <3>6. \A x \in Range(w) : x \notin later => <<x, o>> \in precedes'
            BY <1>7, <2>V, <3>1, <3>4 DEF precedes
        <3>7. \A x \in Range(w) : x \in later => <<o, x>> \in precedes'
            BY <1>7, <2>V, <3>1, <3>4 DEF precedes
        <3>8. \A x, y \in Range(w) : x \in later /\ <<x, y>> \in precedes' => <<o, y>> \in precedes'
            BY <1>7, <2>V, <3>1, <3>4 DEF precedes
        <3> HIDE DEF r, later
        <3>R. r = insert_before(w, o, later)
            BY Zenon DEF r
        <3>9. r \in Seq(Thread) /\ ordered(r, precedes') /\ Range(r) = Range(w) \cup {o}
            <4> HIDE DEF o
            <4>1. /\ insert_before(w, o, later) \in Seq(Thread)
                  /\ ordered(insert_before(w, o, later), precedes')
                  /\ Range(insert_before(w, o, later)) = Range(w) \cup {o}
                <5>1. fits(w, o, later, precedes')
                    BY Zenon, <3>6, <3>7, <3>8 DEF fits
                <5> QED BY Zenon, <3>1, <3>3, <3>5, <5>1, InsertOrdered
            <4> QED BY Zenon, <3>R, <4>1
        <3>10. Range(r) = Range(q)
            BY Zenon, <3>1, <3>3, <3>9
        <3> HIDE DEF q
        <3> QED BY Zenon, <1>1, <1>2, <2>W, <3>2, <3>9, <3>10
    <2>3. CASE ~(o \in Thread /\ is_inqueue(o))
        <3>1. runqueue' = runqueue
            BY Zenon, <2>1, <2>3 DEF resorted
        <3>2. o \notin Range(q)
            BY Zenon, <1>0, <2>3 DEF is_inqueue
        <3>3. \A u \in Range(q) : u \in Thread /\ u # o
            BY Zenon, <1>0, <3>2
        <3>4. ordered(q, precedes')
            BY Zenon, <1>0, <2>V, <3>3, OrderKept
        <3>5. runqueue' = [runqueue EXCEPT ![p] = q]
            BY Zenon, <1>0, <3>1
        <3> QED BY Zenon, <1>0, <1>1, <1>2, <2>W, <3>4, <3>5
    <2> QED BY Zenon, <2>2, <2>3
<1>8. CASE (sched_prio_pick_next(p, next) \/ sched_noop_pick_next(p, next)) /\ UNCHANGED policyVars
    BY Zenon, <1>1, <1>3, <1>8 DEF sched_prio_pick_next, sched_noop_pick_next, policyVars, bvtVars
<1> QED BY Zenon, <1>6, <1>7, <1>8 DEF policy_pick_next

-----------------------------------------------------------------------------
(* What the policies do to their accounts of time.                         *)

(* The loop that replenishes left_cycles ends with time left.              *)
LEMMA ReplenishIsPositive ==
    ASSUME NEW left \in Int
    PROVE  replenish(left) \in Int /\ replenish(left) > 0
<1>1. CASE left > 0
    BY <1>1 DEF replenish
<1>2. CASE ~(left > 0)
    <2>1. /\ (-left) \div Slice \in Int
          /\ -left < Slice * ((-left) \div Slice) + Slice
        BY <1>2, SliceAssumption
    <2> DEFINE d == (-left) \div Slice
    <2>2. replenish(left) = left + Slice * (d + 1)
        BY <1>2 DEF replenish
    <2> HIDE DEF d
    <2>3. Slice * (d + 1) = Slice * d + Slice /\ Slice * d \in Int
        BY <2>1, SliceAssumption DEF d
    <2> QED BY <2>1, <2>2, <2>3, SliceAssumption DEF d
<1> QED BY <1>1, <1>2

(* The countdown of the tick, converted to virtual time, is at most the    *)
(* lead of the second thread and the context switch allowance.             *)
LEMMA Countdown ==
    ASSUME NEW lead \in Nat, NEW r \in Nat \ {0}, NEW M \in Nat \ {0}, NEW C \in Nat
    PROVE  /\ (lead \div r + C) * M \in Nat
           /\ (((lead \div r + C) * M) * r) \div M <= lead + C * r
<1> DEFINE n == lead \div r
<1>1. n \in Nat /\ n * r <= lead
    <2>1. r * n <= lead /\ n \in Nat
        OBVIOUS
    <2> QED BY <2>1
<1> HIDE DEF n
<1>2. (n + C) * M \in Nat /\ (n + C) * r \in Nat
    BY <1>1
<1>3. ((n + C) * M) * r = ((n + C) * r) * M
    BY <1>1
<1>4. (((n + C) * r) * M) \div M = (n + C) * r
    BY <1>2
<1>5. (n + C) * r = n * r + C * r
    BY <1>1
<1>6. n * r \in Int /\ C * r \in Int
    BY <1>1
<1>7. (n + C) * r <= lead + C * r
    BY <1>1, <1>5, <1>6
<1> QED BY <1>2, <1>3, <1>4, <1>7 DEF n

(* iorr: the thread picked has time left, and only it and the thread that  *)
(* ran are accounted for.                                                  *)
LEMMA IorrPicks ==
    ASSUME FrameInv, QueueInv, NEW p \in Pcpu, NEW next \in Thread \cup {p}, curr_obj[p] # NULL,
           sched_iorr_pick_next(p, next)
    PROVE  /\ left_cycles' \in [Thread -> Int]
           /\ next \in Thread => left_cycles'[next] > 0
           /\ \A t \in Thread : t # next /\ t # curr_obj[p] => left_cycles'[t] = left_cycles[t]
<1>1. PICK elapsed \in 0 .. MaxElapsed :
          left_cycles' = IF next = p THEN charged(p, elapsed)
                         ELSE [charged(p, elapsed) EXCEPT ![next] = replenish(@)]
    BY Zenon DEF sched_iorr_pick_next
<1> DEFINE left == charged(p, elapsed)
<1>2. left \in [Thread -> Int] /\ \A t \in Thread : t # curr_obj[p] => left[t] = left_cycles[t]
    <2>1. left_cycles \in [Thread -> Int] /\ elapsed \in Int /\ Slice \in Int
        BY SliceAssumption DEF QueueInv, TimeType
    <2>2. CASE still_runs(curr_obj[p])
        <3>1. curr_obj[p] \in Thread
            BY Zenon, <2>2 DEF still_runs
        <3> DEFINE rest == left_cycles[curr_obj[p]] - elapsed
        <3>2. rest \in Int /\ rest + Slice \in Int
            BY <2>1, <3>1
        <3>3. left = [left_cycles EXCEPT ![curr_obj[p]] = IF rest <= 0 THEN rest + Slice ELSE rest]
            BY Zenon, <2>2 DEF charged
        <3> HIDE DEF rest
        <3>4. (IF rest <= 0 THEN rest + Slice ELSE rest) \in Int
            BY Zenon, <3>2
        <3> QED BY Zenon, <2>1, <3>1, <3>3, <3>4
    <2>3. CASE ~still_runs(curr_obj[p])
        BY Zenon, <2>1, <2>3 DEF charged
    <2> QED BY Zenon, <2>2, <2>3
<1> HIDE DEF left
<1>3. CASE next = p
    <2>1. left_cycles' = left /\ next \notin Thread
        BY Zenon, <1>1, <1>3, ThreadAssumption DEF left
    <2> QED BY Zenon, <1>2, <2>1
<1>4. CASE next # p
    <2>1. left_cycles' = [left EXCEPT ![next] = replenish(left[next])] /\ next \in Thread
        BY Zenon, <1>1, <1>4 DEF left
    <2>2. replenish(left[next]) \in Int /\ replenish(left[next]) > 0
        BY Zenon, <1>2, <2>1, ReplenishIsPositive
    <2> QED BY Zenon, <1>2, <2>1, <2>2
<1> QED BY Zenon, <1>3, <1>4

(* bvt: the tick is armed for the thread picked as long as it has a rival, *)
(* and comes before the thread's virtual time passes a rival's by more     *)
(* than the context switch allowance.                                      *)
bounded(p, t) ==
    /\ deadline[p] # NULL
    /\ \A u \in Range(runqueue[p]) \ {t} :
           avt[t] + (deadline[p] * vt_ratio[t]) \div Mcu <= avt[u] + Csa * vt_ratio[t]

(* pick_next of bvt arms the tick in time, and charges only the thread     *)
(* that ran.                                                               *)
LEMMA BvtPicks ==
    ASSUME FrameInv, QueueInv, NEW p \in Pcpu, NEW next \in Thread \cup {p}, curr_obj[p] # NULL,
           sched_bvt_pick_next(p, next), scheduler = "bvt",
           NEW q \in Seq(Thread), q = runqueue'[p], ordered(q, precedes'),
           UNCHANGED <<scheduler, left_cycles>>
    PROVE  /\ TimeType'
           /\ next \in Thread /\ Len(q) > 1 => bounded(p, next)'
           /\ \A s \in Pcpu : s # p => deadline'[s] = deadline[s]
           /\ \A t \in Thread : t # curr_obj[p] => avt'[t] = avt[t]
<1> DEFINE vt == update_vt(p)
<1>0. TimeType
    BY Zenon DEF QueueInv
<1>1. /\ avt' = vt /\ vt \in [Thread -> Nat]
      /\ \A t \in Thread : t # curr_obj[p] => avt'[t] = avt[t]
    BY Zenon, VirtualTime DEF sched_bvt_pick_next
<1> HIDE DEF vt
<1>2. /\ next = IF q = <<>> THEN p ELSE Head(q)
      /\ deadline' = [deadline EXCEPT ![p] = run_countdown(q, vt)]
      /\ svt' = IF q = <<>> THEN svt ELSE [svt EXCEPT ![p] = vt[Head(q)]]
      /\ ran' = [ran EXCEPT ![p] = 0]
    BY Zenon DEF sched_bvt_pick_next, vt
<1>3. residual' \in [Thread -> 0 .. Mcu - 1]
    <2>1. CASE curr_obj[p] \in Thread
        <3>1. v_delta(p) % Mcu \in 0 .. Mcu - 1
            BY <2>1, VirtualTime, BvtAssumption
        <3>2. residual' = [residual EXCEPT ![curr_obj[p]] = v_delta(p) % Mcu]
            BY Zenon, <2>1, CurrentHere DEF sched_bvt_pick_next, is_idle_thread
        <3> QED BY Zenon, <1>0, <2>1, <3>1, <3>2 DEF TimeType
    <2>2. CASE curr_obj[p] \notin Thread
        <3>1. residual' = residual
            BY Zenon, <2>2, CurrentHere DEF sched_bvt_pick_next, is_idle_thread
        <3> QED BY Zenon, <1>0, <3>1 DEF TimeType
    <2> QED BY Zenon, <2>1, <2>2
<1>4. svt' \in [Pcpu -> Nat] /\ ran' \in [Pcpu -> Nat]
    <2>1. q # <<>> => Head(q) \in Thread
        OBVIOUS
    <2>2. 0 \in Nat
        OBVIOUS
    <2> QED BY Zenon, <1>0, <1>1, <1>2, <2>1, <2>2 DEF TimeType
<1>5. CASE Len(q) < 2
    <2>1. run_countdown(q, vt) = NULL
        BY Zenon, <1>5 DEF run_countdown
    <2>2. /\ deadline' \in [Pcpu -> Nat \cup {NULL}]
          /\ \A s \in Pcpu : s # p => deadline'[s] = deadline[s]
        BY Zenon, <1>0, <1>2, <2>1 DEF TimeType
    <2>3. ~(Len(q) > 1)
        BY <1>5
    <2> QED BY Zenon, <1>0, <1>1, <1>3, <1>4, <2>2, <2>3 DEF TimeType
<1>6. CASE ~(Len(q) < 2)
    <2> DEFINE t == q[1]
               lead == vt[q[2]] - vt[q[1]]
               d == (lead \div vt_ratio[t] + Csa) * Mcu
    <2>1. /\ 1 \in DOMAIN q /\ 2 \in DOMAIN q /\ DOMAIN q = 1 .. Len(q) /\ Head(q) = t /\ q # <<>>
          /\ \A i \in DOMAIN q : q[i] \in Thread
        BY <1>6
    <2>2. \A i, j \in DOMAIN q : i < j => vt[q[i]] <= vt[q[j]]
        <3> SUFFICES ASSUME NEW i \in DOMAIN q, NEW j \in DOMAIN q, i < j PROVE vt[q[i]] <= vt[q[j]]
            OBVIOUS
        <3>1. <<q[i], q[j]>> \in precedes' /\ scheduler' = "bvt"
            BY Zenon DEF ordered
        <3>2. avt'[q[i]] <= avt'[q[j]]
            BY <3>1 DEF precedes
        <3> QED BY Zenon, <1>1, <3>2
    <2>3. /\ lead \in Nat /\ vt[q[1]] \in Nat /\ vt[q[2]] \in Nat
          /\ vt_ratio[t] \in Nat \ {0} /\ t \in Thread
        <3>1. t \in Thread /\ q[2] \in Thread
            BY Zenon, <2>1
        <3>2. vt[q[1]] \in Nat /\ vt[q[2]] \in Nat /\ vt_ratio[t] \in Nat \ {0}
            BY Zenon, <1>1, <3>1, BvtAssumption
        <3>3. vt[q[1]] <= vt[q[2]]
            BY <2>1, <2>2
        <3> QED BY <3>1, <3>2, <3>3
    <2>4. run_countdown(q, vt) = d
        BY Zenon, <1>6 DEF run_countdown
    <2> HIDE DEF lead
    <2>5. d \in Nat /\ (d * vt_ratio[t]) \div Mcu <= lead + Csa * vt_ratio[t]
        BY Zenon, <2>3, Countdown, BvtAssumption
    <2>I. (d * vt_ratio[t]) \div Mcu \in Int /\ Csa * vt_ratio[t] \in Int
        <3> HIDE DEF d
        <3>1. \A a, b \in Nat : a * b \in Nat
            OBVIOUS
        <3>2. d * vt_ratio[t] \in Nat /\ Csa * vt_ratio[t] \in Nat
            BY Zenon, <2>3, <2>5, <3>1, BvtAssumption
        <3>3. \A a \in Nat : a \div Mcu \in Int
            BY BvtAssumption
        <3> QED BY <3>2, <3>3
    <2> HIDE DEF d
    <2>6. /\ deadline' \in [Pcpu -> Nat \cup {NULL}] /\ deadline'[p] = d
          /\ \A s \in Pcpu : s # p => deadline'[s] = deadline[s]
        BY Zenon, <1>0, <1>2, <2>4, <2>5 DEF TimeType
    <2>7. next = t
        BY Zenon, <1>2, <2>1
    <2>8. ASSUME NEW u \in Range(q) \ {t}
          PROVE  vt[t] + (d * vt_ratio[t]) \div Mcu <= vt[u] + Csa * vt_ratio[t]
        <3>1. PICK i \in DOMAIN q : q[i] = u
            BY Zenon DEF Range
        <3>2. i = 2 \/ 2 < i
            BY <2>1, <2>8, <3>1
        <3>3. vt[q[2]] <= vt[u] /\ vt[u] \in Nat
            BY <1>1, <2>1, <2>2, <3>1, <3>2
        <3> DEFINE x == (d * vt_ratio[t]) \div Mcu
                   y == Csa * vt_ratio[t]
        <3>4. x \in Int /\ y \in Int /\ x <= (vt[q[2]] - vt[t]) + y
            BY Zenon, <2>5, <2>I DEF lead
        <3>5. vt[t] \in Nat /\ vt[q[2]] \in Nat
            BY Zenon, <2>3
        <3> HIDE DEF x, y
        <3>6. vt[t] + x <= vt[u] + y
            <4>1. \A a, b, c \in Nat, m, n \in Int : m <= (b - a) + n /\ b <= c => a + m <= c + n
                OBVIOUS
            <4> QED BY Zenon, <3>3, <3>4, <3>5, <4>1
        <3> QED BY Zenon, <3>6 DEF x, y
    <2>9. d # NULL
        BY <2>5, ThreadAssumption
    <2>10. bounded(p, next)'
        <3> SUFFICES /\ deadline'[p] # NULL
                     /\ \A u \in Range(runqueue'[p]) \ {next} :
                           avt'[next] + (deadline'[p] * vt_ratio[next]) \div Mcu
                               <= avt'[u] + Csa * vt_ratio[next]
            BY Zenon DEF bounded
        <3> QED BY Zenon, <1>1, <2>6, <2>7, <2>8, <2>9
    <2> QED BY Zenon, <1>0, <1>1, <1>3, <1>4, <2>6, <2>10 DEF TimeType
<1> QED BY Zenon, <1>5, <1>6

-----------------------------------------------------------------------------
(* The steps.                                                              *)

(* The steps of Next by what they do to the framework and to the policy.   *)
Quiet == UNCHANGED <<schedVars, policyVars, scheduler>>

(* Every step is one of these.                                             *)
LEMMA StepCases ==
    ASSUME [Next]_vars
    PROVE  \/ \E t \in Thread : init_thread_data(t)
           \/ \E c \in Pcpu \cup OtherPcpu, t \in Thread : sleep_thread(c, t)
           \/ \E c \in Pcpu \cup OtherPcpu, t \in Thread : wake_thread(c, t)
           \/ \E p \in Pcpu : run_idle_thread(p)
           \/ \E p \in Pcpu : curr_obj[p] # NULL /\ schedule(p)
           \/ \E p \in Pcpu : yield_current(p)
           \/ \E p \in Pcpu : sched_tick_handler(p)
           \/ \E p \in Pcpu : cycle(p)
           \/ Quiet
<1>1. ASSUME NEW p \in Pcpu, vcpu_thread_schedules(p) PROVE curr_obj[p] # NULL /\ schedule(p)
    BY Zenon, <1>1, ThreadAssumption DEF vcpu_thread_schedules
<1>2. ASSUME NEW p \in Pcpu, default_idle(p) PROVE (curr_obj[p] # NULL /\ schedule(p)) \/ Quiet
    BY Zenon, <1>2, ThreadAssumption DEF default_idle, Quiet
<1>3. ASSUME NEW p \in Pcpu, sswi_handler(p) PROVE Quiet
    BY Zenon, <1>3 DEF sswi_handler, Quiet
<1>4. UNCHANGED vars => Quiet
    BY Zenon DEF vars, Quiet
<1> QED BY Zenon, <1>1, <1>2, <1>3, <1>4 DEF Next

(* What a step other than schedule, wake and sleep does.                   *)
LEMMA TickKeeps ==
    ASSUME FrameInv, QueueInv, NEW p \in Pcpu, sched_tick_handler(p)
    PROVE  /\ UNCHANGED <<status, be_blocking, curr_obj, runqueue, scheduler, avt>>
           /\ resched' \in {resched, [resched EXCEPT ![p] = TRUE]}
           /\ curr_obj[p] # NULL /\ TimeType'
           /\ scheduler = "iorr" => \A t \in Thread :
                  \/ left_cycles'[t] = left_cycles[t]
                  \/ curr_obj[p] = t /\ (left_cycles'[t] > 0 \/ resched'[p])
           /\ scheduler = "bvt" => \A s \in Pcpu :
                  \/ deadline'[s] = deadline[s]
                  \/ s = p /\ (curr_obj[p] \in Thread => resched'[p])
<1>0. TimeType /\ resched \in [Pcpu -> BOOLEAN]
    BY Zenon DEF QueueInv, FrameInv
<1>1. UNCHANGED <<status, be_blocking, curr_obj, runqueue, scheduler>> /\ curr_obj[p] # NULL
    BY Zenon DEF sched_tick_handler
<1>2. PICK request \in BOOLEAN :
          /\ \/ scheduler = "iorr" /\ sched_iorr_tick(p, request) /\ UNCHANGED bvtVars
             \/ scheduler = "bvt" /\ sched_bvt_tick(p, request) /\ UNCHANGED left_cycles
          /\ IF request THEN make_reschedule_request(p, p) ELSE UNCHANGED <<resched, swi>>
    BY Zenon DEF sched_tick_handler
<1>3. resched' = IF request THEN [resched EXCEPT ![p] = TRUE] ELSE resched
    BY Zenon, <1>2 DEF make_reschedule_request
<1>R. resched' \in {resched, [resched EXCEPT ![p] = TRUE]}
    BY Zenon, <1>3
<1>4. request => resched'[p]
    BY Zenon, <1>0, <1>3
<1>5. CASE scheduler = "iorr" /\ sched_iorr_tick(p, request) /\ UNCHANGED bvtVars
    <2>0. scheduler # "bvt" /\ UNCHANGED <<avt, residual, svt, ran, deadline>>
        BY <1>5 DEF bvtVars
    <2>1. CASE UNCHANGED left_cycles
        <3>1. TimeType'
            BY Zenon, <1>0, <2>0, <2>1 DEF TimeType
        <3>2. \A t \in Thread : left_cycles'[t] = left_cycles[t]
            BY <2>1
        <3> QED BY <1>1, <1>R, <2>0, <3>1, <3>2
    <2>2. CASE left_cycles' # left_cycles
        <3> DEFINE o == curr_obj[p]
        <3>1. PICK elapsed \in 1 .. MaxElapsed :
                  /\ o \in Thread
                  /\ left_cycles' = [left_cycles EXCEPT ![o] = left_cycles[o] - elapsed]
                  /\ request = (left_cycles[o] - elapsed <= 0)
            BY Zenon, <1>5, <2>2 DEF sched_iorr_tick
        <3> HIDE DEF o
        <3>2. left_cycles[o] - elapsed \in Int
            <4>1. elapsed \in Int
                BY SliceAssumption
            <4>2. left_cycles[o] \in Int
                BY Zenon, <1>0, <3>1 DEF TimeType
            <4> QED BY <4>1, <4>2
        <3> DEFINE left == left_cycles[o] - elapsed
        <3> HIDE DEF left
        <3>3. left \in Int /\ left_cycles' = [left_cycles EXCEPT ![o] = left] /\ request = (left <= 0)
            BY Zenon, <3>1, <3>2 DEF left
        <3>4. left > 0 \/ request
            <4>1. left > 0 \/ left <= 0
                BY <3>3
            <4> QED BY Zenon, <3>3, <4>1
        <3>5. left_cycles' \in [Thread -> Int] /\ left_cycles'[o] = left
              /\ \A t \in Thread : t # o => left_cycles'[t] = left_cycles[t]
            BY Zenon, <1>0, <3>1, <3>3 DEF TimeType
        <3>6. TimeType'
            BY Zenon, <1>0, <2>0, <3>5 DEF TimeType
        <3>7. \A t \in Thread :
                  \/ left_cycles'[t] = left_cycles[t]
                  \/ curr_obj[p] = t /\ (left_cycles'[t] > 0 \/ resched'[p])
            <4>1. left_cycles'[o] > 0 \/ resched'[p]
                BY Zenon, <1>4, <3>4, <3>5
            <4> QED BY <3>5, <4>1 DEF o
        <3> QED BY Zenon, <1>1, <1>R, <2>0, <3>6, <3>7
    <2> QED BY Zenon, <2>1, <2>2
<1>6. CASE scheduler = "bvt" /\ sched_bvt_tick(p, request) /\ UNCHANGED left_cycles
    <2>1. /\ deadline' = [deadline EXCEPT ![p] = NULL]
          /\ curr_obj[p] \in Thread => request
          /\ UNCHANGED <<left_cycles, avt, residual, svt, ran>> /\ scheduler # "iorr"
        BY <1>6 DEF sched_bvt_tick
    <2>2. deadline' \in [Pcpu -> Nat \cup {NULL}] /\ \A s \in Pcpu : s # p => deadline'[s] = deadline[s]
        BY Zenon, <1>0, <2>1 DEF TimeType
    <2>3. TimeType'
        BY Zenon, <1>0, <2>1, <2>2 DEF TimeType
    <2> QED BY Zenon, <1>1, <1>R, <1>4, <2>1, <2>2, <2>3
<1> QED BY Zenon, <1>2, <1>5, <1>6

(* What does not touch the queues nor the virtual times keeps the order.   *)
LEMMA SameOrder ==
    ASSUME QueuesOrdered, UNCHANGED <<runqueue, avt, scheduler>>
    PROVE  QueuesOrdered'
<1>1. precedes' = precedes
    BY Zenon DEF precedes
<1> QED BY Zenon, <1>1 DEF QueuesOrdered, ordered

(* What schedule() does with the answer of the policy.                     *)
LEMMA ScheduleKeeps ==
    ASSUME FrameInv, QueueInv, NEW p \in Pcpu, curr_obj[p] # NULL, schedule(p)
    PROVE  \E next \in Thread \cup {p} :
              /\ policy_pick_next(p, next) /\ switch_to(curr_obj[p], next, p)
              /\ UNCHANGED scheduler /\ resched' = [resched EXCEPT ![p] = FALSE]
              /\ runqueue' \in [Pcpu -> Seq(Thread)]
              /\ \A r \in Pcpu : /\ ordered(runqueue'[r], precedes')
                                 /\ Range(runqueue'[r]) = Range(runqueue[r])
              /\ IF Range(runqueue[p]) = {} THEN next = p
                 ELSE next \in Range(runqueue[p]) /\ next \in Thread /\ home[next] = p
              /\ runqueue'[p] # <<>> => next = runqueue'[p][1]
              /\ TimeType'
<1>1. PICK next \in Thread \cup {p} : policy_pick_next(p, next) /\ switch_to(curr_obj[p], next, p)
    BY Zenon DEF schedule
<1>2. UNCHANGED scheduler /\ resched' = [resched EXCEPT ![p] = FALSE]
    BY Zenon DEF schedule
<1>3. /\ runqueue' \in [Pcpu -> Seq(Thread)]
      /\ \A r \in Pcpu : /\ ordered(runqueue'[r], precedes')
                         /\ Range(runqueue'[r]) = Range(runqueue[r])
      /\ next = IF runqueue'[p] = <<>> THEN p ELSE Head(runqueue'[p])
    BY Zenon, <1>1, <1>2, PickKeeps
<1> DEFINE q == runqueue'[p]
<1>4. q \in Seq(Thread) /\ ordered(q, precedes') /\ Range(q) = Range(runqueue[p])
    BY Zenon, <1>3
<1>5. /\ IF Range(runqueue[p]) = {} THEN next = p ELSE next \in Range(runqueue[p])
      /\ q # <<>> => next = q[1]
    BY Zenon, <1>3, <1>4, EmptyQueue
<1>6. next \in Range(runqueue[p]) => next \in Thread /\ home[next] = p
    BY Zenon, QueuedRunsHere DEF QueueInv
<1>7. TimeType'
    <2>0. TimeType
        BY Zenon DEF QueueInv
    <2>1. CASE scheduler = "iorr" /\ sched_iorr_pick_next(p, next) /\ UNCHANGED bvtVars
        <3>1. left_cycles' \in [Thread -> Int]
            BY Zenon, <2>1, IorrPicks
        <3>2. UNCHANGED <<avt, residual, svt, ran, deadline>>
            BY <2>1 DEF bvtVars
        <3> QED BY Zenon, <2>0, <3>1, <3>2 DEF TimeType
    <2>2. CASE scheduler = "bvt" /\ sched_bvt_pick_next(p, next) /\ UNCHANGED left_cycles
        BY Zenon, <1>2, <1>4, <2>2, BvtPicks
    <2>3. CASE UNCHANGED policyVars
        <3>1. UNCHANGED <<left_cycles, avt, residual, svt, ran, deadline>>
            BY <2>3 DEF policyVars, bvtVars
        <3> QED BY Zenon, <2>0, <3>1 DEF TimeType
    <2> QED BY Zenon, <1>1, <2>1, <2>2, <2>3 DEF policy_pick_next
<1> QED BY Zenon, <1>1, <1>2, <1>3, <1>5, <1>6, <1>7

(* A thread with a status is one the scenario configures: no step but      *)
(* init_thread_data gives a thread object its first status.                *)
LEMMA SameAssigned ==
    ASSUME OnlyAssigned, UNCHANGED scheduler,
           \A t \in Thread : status'[t] # "NONE" => status[t] # "NONE"
    PROVE  OnlyAssigned'
BY Zenon DEF OnlyAssigned

(* Every step keeps the queues ordered.                                    *)
LEMMA QueueStep ==
    ASSUME FrameInv, QueueInv, [Next]_vars
    PROVE  QueueInv'
<1>0. /\ QueueType /\ TimeType /\ QueuesOrdered /\ OnlyAssigned
      /\ status \in [Object -> {"NONE", "RUNNING", "RUNNABLE", "BLOCKED"}]
    BY Zenon DEF QueueInv, FrameInv
<1>1. ASSUME NEW t \in Thread, init_thread_data(t) PROVE QueueInv'
    <2>1. UNCHANGED <<runqueue, scheduler, avt, residual, svt, ran, deadline>>
        BY <1>1 DEF init_thread_data, bvtVars
    <2>2. left_cycles' \in [Thread -> Int]
        <3>1. Slice \in Int /\ left_cycles \in [Thread -> Int]
            BY <1>0, SliceAssumption DEF TimeType
        <3> QED BY Zenon, <1>1, <3>1 DEF init_thread_data, sched_iorr_init_data
    <2>3. TimeType'
        BY Zenon, <1>0, <2>1, <2>2 DEF TimeType
    <2>4. OnlyAssigned'
        <3>1. \A u \in Thread : u # t => status'[u] = status[u]
            BY Zenon, <1>0, <1>1 DEF init_thread_data, Object
        <3>2. t \in assigned[scheduler]
            BY Zenon, <1>1 DEF init_thread_data
        <3> QED BY Zenon, <1>0, <2>1, <3>1, <3>2 DEF OnlyAssigned
    <2> QED BY Zenon, <1>0, <2>1, <2>3, <2>4, SameOrder DEF QueueInv, QueueType
<1>2. ASSUME NEW c, NEW t \in Thread, sleep_thread(c, t) PROVE QueueInv'
    <2>1. status[t] # "NONE" /\ policy_sleep(t) /\ UNCHANGED scheduler
        BY Zenon, <1>2 DEF sleep_thread
    <2>2. /\ runqueue' \in [Pcpu -> Seq(Thread)] /\ UNCHANGED policyVars
          /\ \A p \in Pcpu : ordered(runqueue'[p], precedes)
        BY Zenon, <2>1, SleepRemoves
    <2>3. UNCHANGED <<left_cycles, avt, residual, svt, ran, deadline>>
        BY <2>2 DEF policyVars, bvtVars
    <2>4. precedes' = precedes
        BY Zenon, <2>1, <2>3 DEF precedes
    <2>5. OnlyAssigned'
        <3>1. \A u \in Thread : u # t => status'[u] = status[u]
            BY Zenon, <1>0, <1>2 DEF sleep_thread, Object
        <3> QED BY Zenon, <1>0, <2>1, <3>1, SameAssigned
    <2>6. TimeType'
        BY Zenon, <1>0, <2>3 DEF TimeType
    <2>7. QueuesOrdered'
        BY Zenon, <2>2, <2>4 DEF QueuesOrdered
    <2> QED BY Zenon, <1>0, <2>1, <2>2, <2>5, <2>6, <2>7 DEF QueueInv, QueueType
<1>3. ASSUME NEW c, NEW t \in Thread, wake_thread(c, t) PROVE QueueInv'
    <2>1. (is_blocked(t) \/ be_blocking[t]) /\ policy_wake(t) /\ UNCHANGED scheduler
        BY Zenon, <1>3 DEF wake_thread
    <2>2. /\ runqueue' \in [Pcpu -> Seq(Thread)] /\ avt' \in [Thread -> Nat]
          /\ UNCHANGED <<left_cycles, residual, svt, ran, deadline>>
          /\ \A p \in Pcpu : ordered(runqueue'[p], precedes')
        BY Zenon, <2>1, WakeInserts
    <2>3. OnlyAssigned'
        <3>1. \A u \in Thread : u # t => status'[u] = status[u]
            BY Zenon, <1>0, <1>3 DEF wake_thread, Object
        <3>2. status[t] # "NONE"
            <4>1. be_blocking[t] => status[t] = "RUNNING"
                BY Zenon DEF FrameInv, is_running, Object
            <4> QED BY <2>1, <4>1 DEF is_blocked
        <3> QED BY Zenon, <1>0, <2>1, <3>1, <3>2, SameAssigned
    <2>4. TimeType'
        BY Zenon, <1>0, <2>2 DEF TimeType
    <2>5. QueuesOrdered'
        BY Zenon, <2>2 DEF QueuesOrdered
    <2> QED BY Zenon, <1>0, <2>1, <2>2, <2>3, <2>4, <2>5 DEF QueueInv, QueueType
<1>4. ASSUME NEW p \in Pcpu, curr_obj[p] # NULL, schedule(p) PROVE QueueInv'
    <2>1. PICK next \in Thread \cup {p} :
              /\ switch_to(curr_obj[p], next, p) /\ UNCHANGED scheduler
              /\ runqueue' \in [Pcpu -> Seq(Thread)]
              /\ \A r \in Pcpu : ordered(runqueue'[r], precedes')
              /\ IF Range(runqueue[p]) = {} THEN next = p
                 ELSE next \in Range(runqueue[p]) /\ next \in Thread /\ home[next] = p
              /\ TimeType'
        BY Zenon, <1>4, ScheduleKeeps
    <2>2. \A u \in Thread : status'[u] = status[u] \/ u \in {next, curr_obj[p]}
        BY Zenon, <1>0, <2>1 DEF switch_to, Object
    <2>3. next \in Thread => status[next] # "NONE"
        <3>1. next \in Thread => next # p
            BY Zenon, ThreadAssumption
        <3>2. next \in Thread => status[next] \in {"RUNNING", "RUNNABLE"}
            BY Zenon, <1>0, <2>1, <3>1, QueuedRunsHere
        <3> QED BY <3>2
    <2>4. curr_obj[p] \in Thread => status[curr_obj[p]] # "NONE"
        <3>1. curr_obj[p] \in Thread => status[curr_obj[p]] = "RUNNING"
            BY Zenon, <1>4, CurrentHere DEF FrameInv, is_running
        <3> QED BY <3>1
    <2>5. OnlyAssigned'
        BY Zenon, <1>0, <2>1, <2>2, <2>3, <2>4, SameAssigned
    <2> QED BY Zenon, <1>0, <2>1, <2>5 DEF QueueInv, QueueType, QueuesOrdered
<1>5. ASSUME NEW p \in Pcpu, run_idle_thread(p) PROVE QueueInv'
    <2>1. UNCHANGED <<runqueue, scheduler, left_cycles, avt, residual, svt, ran, deadline>>
        BY <1>5 DEF run_idle_thread, policyVars, bvtVars
    <2>2. \A u \in Thread : status'[u] = status[u]
        BY Zenon, <1>0, <1>5, ThreadAssumption DEF run_idle_thread, Object
    <2>3. OnlyAssigned'
        BY Zenon, <1>0, <2>1, <2>2, SameAssigned
    <2> QED BY Zenon, <1>0, <2>1, <2>3, SameOrder DEF QueueInv, QueueType, TimeType
<1>6. ASSUME NEW p \in Pcpu, sched_tick_handler(p) PROVE QueueInv'
    <2>1. UNCHANGED <<status, runqueue, scheduler, avt>> /\ TimeType'
        BY Zenon, <1>6, TickKeeps
    <2> QED BY Zenon, <1>0, <2>1, SameOrder, SameAssigned DEF QueueInv, QueueType
<1>7. ASSUME NEW p \in Pcpu, cycle(p) PROVE QueueInv'
    <2>1. /\ UNCHANGED <<status, runqueue, scheduler, left_cycles, avt, residual, svt, deadline>>
          /\ ran' = [ran EXCEPT ![p] = ran[p] + 1]
        BY <1>7 DEF cycle, schedVars, bvt_cycle
    <2>2. ran' \in [Pcpu -> Nat]
        <3>1. ran[p] + 1 \in Nat
            BY <1>0 DEF TimeType
        <3> QED BY Zenon, <1>0, <2>1, <3>1 DEF TimeType
    <2>3. TimeType'
        BY Zenon, <1>0, <2>1, <2>2 DEF TimeType
    <2> QED BY Zenon, <1>0, <2>1, <2>3, SameOrder, SameAssigned DEF QueueInv, QueueType
<1>8. CASE UNCHANGED <<status, runqueue, scheduler, left_cycles, avt, residual, svt, ran, deadline>>
    <2>1. TimeType'
        BY Zenon, <1>0, <1>8 DEF TimeType
    <2> QED BY Zenon, <1>0, <1>8, <2>1, SameOrder, SameAssigned DEF QueueInv, QueueType
<1>9. ASSUME NEW p \in Pcpu, yield_current(p) PROVE QueueInv'
    <2>1. UNCHANGED <<status, runqueue, scheduler, left_cycles, avt, residual, svt, ran, deadline>>
        BY <1>9 DEF yield_current, policyVars, bvtVars
    <2> QED BY Zenon, <1>8, <2>1
<1>10. CASE Quiet
    <2>1. UNCHANGED <<status, runqueue, scheduler, left_cycles, avt, residual, svt, ran, deadline>>
        BY <1>10 DEF Quiet, schedVars, policyVars, bvtVars
    <2> QED BY Zenon, <1>8, <2>1
<1> QED BY Zenon, StepCases, <1>1, <1>2, <1>3, <1>4, <1>5, <1>6, <1>7, <1>9, <1>10

(* Every step of a policy is one of the framework, or none: the policies   *)
(* implement what schedule.c relies on.                                    *)
LEMMA StepRefines ==
    ASSUME FrameInv, QueueInv, [Next]_vars
    PROVE  [Framework!Next]_(Framework!vars)
<1> DEFINE RQ == [p \in Pcpu |-> Range(runqueue[p])]
<1>1. ASSUME NEW t \in Thread, init_thread_data(t) PROVE Framework!Next
    <2>1. Framework!init_thread_data(t)
        BY Zenon, <1>1 DEF init_thread_data, Framework!init_thread_data
    <2> QED BY Zenon, <2>1 DEF Framework!Next
<1>2. ASSUME NEW c, NEW t \in Thread, sleep_thread(c, t) PROVE Framework!Next
    <2>1. status[t] # "NONE" /\ policy_sleep(t)
        BY Zenon, <1>2 DEF sleep_thread
    <2>2. \A p \in Pcpu : Range(runqueue'[p]) = IF p = home[t] THEN Range(runqueue[p]) \ {t}
                                                ELSE Range(runqueue[p])
        BY Zenon, <2>1, SleepRemoves
    <2>3. RQ' = [RQ EXCEPT ![home[t]] = RQ[home[t]] \ {t}]
        BY Zenon, <2>2, ThreadAssumption
    <2>4. Framework!sleep_thread(t)
        BY Zenon, <1>2, <2>1, <2>3
        DEF sleep_thread, make_reschedule_request, is_running,
            Framework!sleep_thread, Framework!is_running
    <2> QED BY Zenon, <2>4 DEF Framework!Next
<1>3. ASSUME NEW c, NEW t \in Thread, wake_thread(c, t) PROVE Framework!Next
    <2>1. (is_blocked(t) \/ be_blocking[t]) /\ policy_wake(t) /\ UNCHANGED scheduler
        BY Zenon, <1>3 DEF wake_thread
    <2>2. \A p \in Pcpu : Range(runqueue'[p]) = IF p = home[t] THEN Range(runqueue[p]) \cup {t}
                                                ELSE Range(runqueue[p])
        BY Zenon, <2>1, WakeInserts
    <2>3. RQ' = [RQ EXCEPT ![home[t]] = RQ[home[t]] \cup {t}]
        BY Zenon, <2>2, ThreadAssumption
    <2>4. status[t] # "NONE"
        <3>1. be_blocking[t] => status[t] = "RUNNING"
            BY Zenon DEF FrameInv, is_running, Object
        <3> QED BY <2>1, <3>1 DEF is_blocked
    <2>5. Framework!wake_thread(t)
        BY Zenon, <1>3, <2>1, <2>3, <2>4
        DEF wake_thread, make_reschedule_request, is_blocked,
            Framework!wake_thread, Framework!is_blocked
    <2> QED BY Zenon, <2>5 DEF Framework!Next
<1>4. ASSUME NEW p \in Pcpu, curr_obj[p] # NULL, schedule(p) PROVE Framework!Next
    <2>1. PICK next \in Thread \cup {p} :
              /\ switch_to(curr_obj[p], next, p) /\ resched' = [resched EXCEPT ![p] = FALSE]
              /\ \A r \in Pcpu : Range(runqueue'[r]) = Range(runqueue[r])
              /\ IF Range(runqueue[p]) = {} THEN next = p ELSE next \in Range(runqueue[p])
        BY Zenon, <1>4, ScheduleKeeps
    <2>2. RQ' = RQ
        BY Zenon, <2>1
    <2>3. next \in Framework!pick_next(p)
        BY Zenon, <2>1 DEF Framework!pick_next
    <2>4. Framework!schedule_to(p, next)
        BY Zenon, <1>4, <2>1, <2>2
        DEF switch_to, Framework!schedule_to, Framework!switch_status
    <2>5. Framework!schedule(p)
        BY Zenon, <2>3, <2>4 DEF Framework!schedule
    <2> QED BY Zenon, <2>5 DEF Framework!Next
<1>5. ASSUME NEW p \in Pcpu, run_idle_thread(p) PROVE Framework!Next
    <2>1. Framework!run_idle_thread(p)
        BY Zenon, <1>5 DEF run_idle_thread, Framework!run_idle_thread
    <2> QED BY Zenon, <2>1 DEF Framework!Next
<1>6. CASE UNCHANGED <<status, be_blocking, curr_obj, resched, runqueue>>
    BY Zenon, <1>6 DEF Framework!vars
<1>7. ASSUME NEW p \in Pcpu, curr_obj[p] # NULL, resched' = [resched EXCEPT ![p] = TRUE],
             UNCHANGED <<status, be_blocking, curr_obj, runqueue>>
      PROVE  Framework!Next
    <2>1. Framework!make_reschedule_request(p)
        BY Zenon, <1>7 DEF Framework!make_reschedule_request
    <2> QED BY Zenon, <2>1 DEF Framework!Next
<1>8. ASSUME NEW p \in Pcpu, yield_current(p) PROVE Framework!Next
    <2>1. /\ resched' = [resched EXCEPT ![p] = TRUE] /\ curr_obj[p] \in Thread
          /\ UNCHANGED <<status, be_blocking, curr_obj, runqueue>>
        BY Zenon, <1>8 DEF yield_current, make_reschedule_request
    <2>2. curr_obj[p] # NULL
        BY Zenon, <2>1, ThreadAssumption
    <2> QED BY Zenon, <1>7, <2>1, <2>2
<1>9. ASSUME NEW p \in Pcpu, sched_tick_handler(p)
      PROVE  [Framework!Next]_(Framework!vars)
    <2>1. /\ UNCHANGED <<status, be_blocking, curr_obj, runqueue>> /\ curr_obj[p] # NULL
          /\ resched' \in {resched, [resched EXCEPT ![p] = TRUE]}
        BY Zenon, <1>9, TickKeeps
    <2> QED BY Zenon, <1>6, <1>7, <2>1
<1>10. ASSUME NEW p \in Pcpu, cycle(p) PROVE [Framework!Next]_(Framework!vars)
    <2>1. UNCHANGED <<status, be_blocking, curr_obj, resched, runqueue>>
        BY Zenon, <1>10 DEF cycle, schedVars
    <2> QED BY Zenon, <1>6, <2>1
<1>11. CASE Quiet
    <2>1. UNCHANGED <<status, be_blocking, curr_obj, resched, runqueue>>
        BY Zenon, <1>11 DEF Quiet, schedVars
    <2> QED BY Zenon, <1>6, <2>1
<1> QED
    BY Zenon, StepCases, <1>1, <1>2, <1>3, <1>4, <1>5, <1>8, <1>9, <1>10, <1>11

(* A request sets NEED_RESCHEDULE and clears it nowhere.                   *)
LEMMA RequestKeeps ==
    ASSUME FrameInv, NEW s \in Pcpu, resched' \in {resched, [resched EXCEPT ![s] = TRUE]}
    PROVE  \A p \in Pcpu : resched[p] => resched'[p]
<1>1. resched \in [Pcpu -> BOOLEAN]
    BY Zenon DEF FrameInv
<1>2. CASE resched' = resched
    BY Zenon, <1>2
<1>3. CASE resched' = [resched EXCEPT ![s] = TRUE]
    BY Zenon, <1>1, <1>3
<1> QED BY Zenon, <1>2, <1>3

(* sleep_thread takes the thread off its queue, and asks a running thread  *)
(* to go.                                                                  *)
LEMMA SleepDoes ==
    ASSUME FrameInv, QueueInv, NEW c, NEW t \in Thread, sleep_thread(c, t)
    PROVE  /\ UNCHANGED <<curr_obj, scheduler, left_cycles, avt, deadline>>
           /\ \A p \in Pcpu : Range(runqueue'[p]) = IF p = home[t] THEN Range(runqueue[p]) \ {t}
                                                    ELSE Range(runqueue[p])
           /\ \A p \in Pcpu : resched[p] => resched'[p]
           /\ is_running(t) => resched'[home[t]]
           /\ ~is_running(t) => UNCHANGED resched
<1>0. home[t] \in Pcpu /\ resched \in [Pcpu -> BOOLEAN]
    BY Zenon, ThreadAssumption DEF FrameInv
<1>1. status[t] # "NONE" /\ policy_sleep(t) /\ UNCHANGED <<curr_obj, scheduler>>
    BY Zenon DEF sleep_thread
<1>2. /\ UNCHANGED policyVars
      /\ \A p \in Pcpu : Range(runqueue'[p]) = IF p = home[t] THEN Range(runqueue[p]) \ {t}
                                               ELSE Range(runqueue[p])
    BY Zenon, <1>1, SleepRemoves
<1>3. resched' = IF is_running(t) THEN [resched EXCEPT ![home[t]] = TRUE] ELSE resched
    BY Zenon DEF sleep_thread, make_reschedule_request
<1>4. UNCHANGED <<left_cycles, avt, deadline>>
    BY <1>2 DEF policyVars, bvtVars
<1> QED BY Zenon, <1>0, <1>1, <1>2, <1>3, <1>4

(* wake_thread queues the thread and leaves NEED_RESCHEDULE set, also for  *)
(* a thread that was on its way out.                                       *)
LEMMA WakeDoes ==
    ASSUME FrameInv, QueueInv, NEW c, NEW t \in Thread, wake_thread(c, t)
    PROVE  /\ UNCHANGED <<curr_obj, scheduler, left_cycles, deadline>>
           /\ \A p \in Pcpu : p # home[t] => Range(runqueue'[p]) = Range(runqueue[p])
           /\ \A u \in Thread : u # t => avt'[u] = avt[u]
           /\ \A p \in Pcpu : resched[p] => resched'[p]
           /\ \A p \in Pcpu : p # home[t] => resched'[p] = resched[p]
           /\ resched'[home[t]]
<1>0. home[t] \in Pcpu /\ resched \in [Pcpu -> BOOLEAN]
    BY Zenon, ThreadAssumption DEF FrameInv
<1>1. (is_blocked(t) \/ be_blocking[t]) /\ policy_wake(t) /\ UNCHANGED <<curr_obj, scheduler>>
    BY Zenon DEF wake_thread
<1>2. /\ UNCHANGED <<left_cycles, deadline>> /\ \A u \in Thread : u # t => avt'[u] = avt[u]
      /\ \A p \in Pcpu : p # home[t] => Range(runqueue'[p]) = Range(runqueue[p])
    BY Zenon, <1>1, WakeInserts
<1>3. resched' = IF is_blocked(t) THEN [resched EXCEPT ![home[t]] = TRUE] ELSE resched
    BY Zenon DEF wake_thread, make_reschedule_request
<1>4. be_blocking[t] => resched[home[t]]
    BY Zenon, <1>0 DEF FrameInv, Object
<1> QED BY Zenon, <1>0, <1>1, <1>2, <1>3, <1>4

(* schedule() runs the thread the policy answers on its own pCPU and       *)
(* leaves the other pCPUs alone.                                           *)
LEMMA ScheduleDoes ==
    ASSUME FrameInv, QueueInv, NEW p \in Pcpu, curr_obj[p] # NULL, schedule(p)
    PROVE  \E next \in Thread \cup {p} :
              /\ policy_pick_next(p, next) /\ UNCHANGED scheduler
              /\ runqueue' \in [Pcpu -> Seq(Thread)]
              /\ \A r \in Pcpu : /\ ordered(runqueue'[r], precedes')
                                 /\ Range(runqueue'[r]) = Range(runqueue[r])
              /\ IF Range(runqueue[p]) = {} THEN next = p
                 ELSE next \in Range(runqueue[p]) /\ next \in Thread /\ home[next] = p
              /\ runqueue'[p] # <<>> => next = runqueue'[p][1]
              /\ curr_obj'[p] = next
              /\ \A r \in Pcpu : r # p => curr_obj'[r] = curr_obj[r] /\ resched'[r] = resched[r]
<1>1. PICK next \in Thread \cup {p} :
          /\ policy_pick_next(p, next) /\ switch_to(curr_obj[p], next, p)
          /\ UNCHANGED scheduler /\ resched' = [resched EXCEPT ![p] = FALSE]
          /\ runqueue' \in [Pcpu -> Seq(Thread)]
          /\ \A r \in Pcpu : /\ ordered(runqueue'[r], precedes')
                             /\ Range(runqueue'[r]) = Range(runqueue[r])
          /\ IF Range(runqueue[p]) = {} THEN next = p
             ELSE next \in Range(runqueue[p]) /\ next \in Thread /\ home[next] = p
          /\ runqueue'[p] # <<>> => next = runqueue'[p][1]
    BY Zenon, ScheduleKeeps
<1>2. resched \in [Pcpu -> BOOLEAN] /\ curr_obj \in [Pcpu -> Object \cup {NULL}]
    BY Zenon DEF FrameInv
<1>3. \A r \in Pcpu : r # p => resched'[r] = resched[r]
    BY Zenon, <1>1, <1>2
<1>4. curr_obj'[p] = next /\ \A r \in Pcpu : r # p => curr_obj'[r] = curr_obj[r]
    BY Zenon, <1>1, <1>2 DEF switch_to
<1> QED BY Zenon, <1>1, <1>3, <1>4

-----------------------------------------------------------------------------
(* The invariants of the policies.                                         *)

(* Two pCPUs never run the same thread.                                    *)
LEMMA OtherCurrent ==
    ASSUME FrameInv, NEW p \in Pcpu, NEW t \in Thread, curr_obj[p] = t
    PROVE  home[t] = p /\ is_running(t) /\ curr_obj[p] # NULL
<1>1. curr_obj[p] # NULL
    BY Zenon, ThreadAssumption
<1>2. home[t] = p
    BY Zenon, <1>1, CurrentHere, ThreadAssumption
<1> QED BY Zenon, <1>1, <1>2 DEF FrameInv

(* iorr: no step leaves a thread without time on a pCPU without a request. *)
LEMMA SliceStep ==
    ASSUME FrameInv, QueueInv, SliceEnforced, [Next]_vars
    PROVE  SliceEnforced'
<1> SUFFICES ASSUME scheduler' = "iorr", NEW p \in Pcpu, NEW t \in Thread,
                    curr_obj'[p] = t, left_cycles'[t] <= 0, ~resched'[p]
             PROVE  FALSE
    BY Zenon DEF SliceEnforced
<1>K. CASE /\ scheduler' = scheduler /\ curr_obj[p] = t /\ left_cycles'[t] = left_cycles[t]
           /\ resched[p] => resched'[p]
    BY Zenon, <1>K DEF SliceEnforced
<1>1. ASSUME NEW u \in Thread, init_thread_data(u) PROVE FALSE
    <2>1. /\ UNCHANGED <<scheduler, curr_obj, resched>> /\ status[u] = "NONE"
          /\ left_cycles' \in {left_cycles, [left_cycles EXCEPT ![u] = Slice]}
        BY Zenon, <1>1 DEF init_thread_data, sched_iorr_init_data
    <2>2. status[t] = "RUNNING"
        BY Zenon, <2>1, OtherCurrent DEF is_running
    <2>3. u # t
        BY <2>1, <2>2
    <2>4. left_cycles'[t] = left_cycles[t]
        BY Zenon, <2>1, <2>3 DEF QueueInv, TimeType
    <2> QED BY Zenon, <1>K, <2>1, <2>4
<1>2. ASSUME NEW c, NEW u \in Thread, sleep_thread(c, u) PROVE FALSE
    BY Zenon, <1>2, <1>K, SleepDoes
<1>3. ASSUME NEW c, NEW u \in Thread, wake_thread(c, u) PROVE FALSE
    BY Zenon, <1>3, <1>K, WakeDoes
<1>4. ASSUME NEW s \in Pcpu, curr_obj[s] # NULL, schedule(s) PROVE FALSE
    <2>1. PICK next \in Thread \cup {s} :
              /\ policy_pick_next(s, next) /\ UNCHANGED scheduler
              /\ next # s => next \in Thread /\ home[next] = s
              /\ curr_obj'[s] = next
              /\ \A r \in Pcpu : r # s => curr_obj'[r] = curr_obj[r] /\ resched'[r] = resched[r]
        BY Zenon, <1>4, ScheduleDoes
    <2>2. sched_iorr_pick_next(s, next)
        <3>1. scheduler # "bvt" /\ scheduler # "prio" /\ scheduler # "noop"
            BY <2>1
        <3> QED BY Zenon, <2>1, <3>1 DEF policy_pick_next
    <2>3. /\ next \in Thread => left_cycles'[next] > 0
          /\ \A v \in Thread : v # next /\ v # curr_obj[s] => left_cycles'[v] = left_cycles[v]
          /\ left_cycles' \in [Thread -> Int]
        BY Zenon, <1>4, <2>2, IorrPicks
    <2>4. CASE s = p
        <3>1. left_cycles'[t] > 0 /\ left_cycles'[t] \in Int
            BY Zenon, <2>1, <2>3, <2>4
        <3> QED BY <3>1
    <2>5. CASE s # p
        <3>1. curr_obj[p] = t /\ home[t] = p
            BY Zenon, <2>1, <2>5, OtherCurrent
        <3>2. t # next /\ t # curr_obj[s]
            BY Zenon, <2>1, <2>5, <3>1, OtherCurrent, ThreadAssumption
        <3> QED BY Zenon, <1>K, <2>1, <2>3, <2>5, <3>1, <3>2
    <2> QED BY Zenon, <2>4, <2>5
<1>5. ASSUME NEW s \in Pcpu, run_idle_thread(s) PROVE FALSE
    <2>1. /\ curr_obj' = [curr_obj EXCEPT ![s] = s] /\ UNCHANGED <<resched, scheduler>>
          /\ UNCHANGED policyVars
        BY Zenon, <1>5 DEF run_idle_thread
    <2>2. curr_obj[p] = t
        <3>1. DOMAIN curr_obj = Pcpu
            BY Zenon DEF FrameInv
        <3>2. curr_obj'[s] = s /\ s \notin Thread
            BY Zenon, <2>1, <3>1, ThreadAssumption
        <3>3. p # s
            BY Zenon, <3>2
        <3> QED BY Zenon, <2>1, <3>1, <3>3
    <2>3. UNCHANGED left_cycles
        BY <2>1 DEF policyVars
    <2> QED BY Zenon, <1>K, <2>1, <2>2, <2>3
<1>6. ASSUME NEW s \in Pcpu, yield_current(s) PROVE FALSE
    <2>1. UNCHANGED <<curr_obj, scheduler, policyVars>> /\ resched' = [resched EXCEPT ![s] = TRUE]
        BY Zenon, <1>6 DEF yield_current, make_reschedule_request
    <2>2. UNCHANGED left_cycles
        BY <2>1 DEF policyVars
    <2> QED BY Zenon, <1>K, <2>1, <2>2, RequestKeeps
<1>7. ASSUME NEW s \in Pcpu, sched_tick_handler(s) PROVE FALSE
    <2>1. /\ UNCHANGED <<curr_obj, scheduler>>
          /\ resched' \in {resched, [resched EXCEPT ![s] = TRUE]}
          /\ scheduler = "iorr" => \A v \in Thread :
                 \/ left_cycles'[v] = left_cycles[v]
                 \/ curr_obj[s] = v /\ (left_cycles'[v] > 0 \/ resched'[s])
          /\ TimeType'
        BY Zenon, <1>7, TickKeeps
    <2>2. CASE left_cycles'[t] = left_cycles[t]
        BY Zenon, <1>K, <2>1, <2>2, RequestKeeps
    <2>3. CASE curr_obj[s] = t /\ (left_cycles'[t] > 0 \/ resched'[s])
        <3>1. s = p
            <4>1. curr_obj[p] = t
                BY Zenon, <2>1
            <4>2. home[t] = p
                BY Zenon, <4>1, OtherCurrent
            <4>3. home[t] = s
                BY Zenon, <2>3, OtherCurrent
            <4> QED BY Zenon, <4>2, <4>3
        <3>2. left_cycles'[t] > 0 /\ left_cycles'[t] \in Int
            BY Zenon, <2>1, <2>3, <3>1 DEF TimeType
        <3> QED BY <3>2
    <2> QED BY Zenon, <2>1, <2>2, <2>3
<1>8. ASSUME NEW s \in Pcpu, cycle(s) PROVE FALSE
    <2>1. scheduler = "bvt" /\ UNCHANGED scheduler
        BY Zenon, <1>8 DEF cycle
    <2> QED BY <2>1
<1>9. CASE Quiet
    <2>1. UNCHANGED <<curr_obj, scheduler, resched, left_cycles>>
        BY <1>9 DEF Quiet, schedVars, policyVars
    <2> QED BY Zenon, <1>K, <2>1
<1> QED BY Zenon, StepCases, <1>1, <1>2, <1>3, <1>4, <1>5, <1>6, <1>7, <1>8, <1>9

(* A queue is longer than one exactly when it holds two threads.           *)
LEMMA TwoQueued ==
    ASSUME NEW q \in Seq(Thread), ordered(q, precedes)
    PROVE  Len(q) > 1 <=> \E x, y \in Range(q) : x # y
<1>0. DOMAIN q = 1 .. Len(q) /\ Len(q) \in Nat
    OBVIOUS
<1>1. \A i, j \in DOMAIN q : i < j => q[i] # q[j]
    BY Zenon, Precedes DEF ordered
<1>2. CASE Len(q) > 1
    <2>1. 1 \in DOMAIN q /\ 2 \in DOMAIN q
        BY <1>0, <1>2
    <2>2. q[1] # q[2]
        BY <1>1, <2>1
    <2> QED BY Zenon, <1>2, <2>1, <2>2 DEF Range
<1>3. CASE ~(Len(q) > 1)
    <2>1. \A i, j \in DOMAIN q : i = j
        BY <1>0, <1>3
    <2> QED BY Zenon, <1>3, <2>1 DEF Range
<1> QED BY Zenon, <1>2, <1>3

(* bvt: a turn that is bounded stays so while no rival joins, the tick     *)
(* stays armed and the virtual times stand still.                          *)
LEMMA TurnKept ==
    ASSUME FrameInv, QueueInv, TurnIsBounded, NEW p \in Pcpu, NEW t \in Thread,
           scheduler = "bvt", curr_obj[p] = t, ~resched[p],
           Range(runqueue'[p]) \subseteq Range(runqueue[p]),
           \E x, y \in Range(runqueue'[p]) : x # y,
           deadline'[p] = deadline[p],
           \A u \in Range(runqueue[p]) \cup {t} : avt'[u] = avt[u]
    PROVE  bounded(p, t)'
<1>1. runqueue[p] \in Seq(Thread) /\ ordered(runqueue[p], precedes)
    BY Zenon DEF QueueInv, QueueType, QueuesOrdered
<1>2. Len(runqueue[p]) > 1
    BY Zenon, <1>1, TwoQueued
<1>3. bounded(p, t)
    BY Zenon, <1>2 DEF TurnIsBounded, bounded
<1> QED BY Zenon, <1>3 DEF bounded

(* bvt: no step lets the current thread outrun its rivals unnoticed.       *)
LEMMA TurnStep ==
    ASSUME FrameInv, QueueInv, QueueInv', TurnIsBounded, [Next]_vars
    PROVE  TurnIsBounded'
<1> SUFFICES ASSUME scheduler' = "bvt", NEW p \in Pcpu, NEW t \in Thread,
                    curr_obj'[p] = t, Len(runqueue'[p]) > 1, ~resched'[p]
             PROVE  bounded(p, t)'
    BY Zenon DEF TurnIsBounded, bounded
<1>0. \E x, y \in Range(runqueue'[p]) : x # y
    <2> DEFINE q == runqueue'[p]
    <2>1. q \in Seq(Thread) /\ ordered(q, precedes')
        BY Zenon DEF QueueInv, QueueType, QueuesOrdered
    <2> HIDE DEF q
    <2>2. DOMAIN q = 1 .. Len(q) /\ Len(q) \in Nat
        BY <2>1
    <2>3. 1 \in DOMAIN q /\ 2 \in DOMAIN q /\ 1 < 2
        BY <2>2 DEF q
    <2>4. <<q[1], q[2]>> \in precedes'
        BY Zenon, <2>1, <2>3 DEF ordered
    <2>5. q[1] # q[2]
        BY Zenon, <2>4 DEF precedes
    <2> QED BY Zenon, <2>3, <2>5 DEF Range, q
<1>K. CASE /\ scheduler' = scheduler /\ curr_obj[p] = t /\ deadline'[p] = deadline[p]
           /\ Range(runqueue'[p]) \subseteq Range(runqueue[p])
           /\ \A u \in Range(runqueue[p]) \cup {t} : avt'[u] = avt[u]
           /\ resched[p] => resched'[p]
    BY Zenon, <1>0, <1>K, TurnKept
<1>S. CASE /\ UNCHANGED <<scheduler, deadline, runqueue, avt>> /\ curr_obj[p] = t
           /\ resched[p] => resched'[p]
    BY Zenon, <1>K, <1>S
<1>H. \A u \in Range(runqueue[p]) : u \in Thread /\ home[u] = p
    BY Zenon, QueuedRunsHere DEF QueueInv
<1>1. ASSUME NEW u \in Thread, init_thread_data(u) PROVE bounded(p, t)'
    <2>1. UNCHANGED <<scheduler, curr_obj, resched, runqueue, deadline, avt>>
        BY <1>1 DEF init_thread_data, bvtVars
    <2> QED BY Zenon, <1>S, <2>1
<1>2. ASSUME NEW c, NEW u \in Thread, sleep_thread(c, u) PROVE bounded(p, t)'
    <2>1. /\ UNCHANGED <<curr_obj, scheduler, avt, deadline>>
          /\ Range(runqueue'[p]) = IF p = home[u] THEN Range(runqueue[p]) \ {u}
                                   ELSE Range(runqueue[p])
          /\ resched[p] => resched'[p]
        BY Zenon, <1>2, SleepDoes
    <2>2. Range(runqueue'[p]) \subseteq Range(runqueue[p])
        BY Zenon, <2>1
    <2> QED BY Zenon, <1>K, <2>1, <2>2
<1>3. ASSUME NEW c, NEW u \in Thread, wake_thread(c, u) PROVE bounded(p, t)'
    <2>1. /\ UNCHANGED <<curr_obj, scheduler, deadline>>
          /\ p # home[u] => Range(runqueue'[p]) = Range(runqueue[p])
          /\ \A v \in Thread : v # u => avt'[v] = avt[v]
          /\ resched[p] => resched'[p]
          /\ resched'[home[u]]
        BY Zenon, <1>3, WakeDoes
    <2>2. p # home[u]
        BY Zenon, <2>1
    <2>3. home[t] = p
        BY Zenon, <2>1, OtherCurrent
    <2>4. \A v \in Range(runqueue[p]) \cup {t} : avt'[v] = avt[v]
        BY Zenon, <1>H, <2>1, <2>2, <2>3
    <2> QED BY Zenon, <1>K, <2>1, <2>2, <2>4
<1>4. ASSUME NEW s \in Pcpu, curr_obj[s] # NULL, schedule(s) PROVE bounded(p, t)'
    <2>1. PICK next \in Thread \cup {s} :
              /\ policy_pick_next(s, next) /\ UNCHANGED scheduler
              /\ runqueue' \in [Pcpu -> Seq(Thread)]
              /\ \A r \in Pcpu : /\ ordered(runqueue'[r], precedes')
                                 /\ Range(runqueue'[r]) = Range(runqueue[r])
              /\ curr_obj'[s] = next
              /\ \A r \in Pcpu : r # s => curr_obj'[r] = curr_obj[r] /\ resched'[r] = resched[r]
        BY Zenon, <1>4, ScheduleDoes
    <2>2. scheduler = "bvt" /\ sched_bvt_pick_next(s, next) /\ UNCHANGED left_cycles
        <3>1. scheduler # "iorr" /\ scheduler # "prio" /\ scheduler # "noop"
            BY <2>1
        <3> QED BY Zenon, <2>1, <3>1 DEF policy_pick_next
    <2> DEFINE q == runqueue'[s]
    <2>3. q \in Seq(Thread) /\ ordered(q, precedes')
        BY Zenon, <2>1
    <2>4. /\ next \in Thread /\ Len(q) > 1 => bounded(s, next)'
          /\ \A r \in Pcpu : r # s => deadline'[r] = deadline[r]
          /\ \A v \in Thread : v # curr_obj[s] => avt'[v] = avt[v]
        BY Zenon, <1>4, <2>1, <2>2, <2>3, BvtPicks
    <2>5. CASE s = p
        <3>1. next = t
            BY Zenon, <2>1, <2>5
        <3>2. Len(q) > 1
            BY Zenon, <2>5
        <3>3. bounded(s, next)'
            BY Zenon, <2>4, <3>1, <3>2
        <3> QED BY Zenon, <2>5, <3>1, <3>3 DEF bounded
    <2>6. CASE s # p
        <3>1. curr_obj[p] = t
            BY Zenon, <2>1, <2>6
        <3>2. home[t] = p
            BY Zenon, <3>1, OtherCurrent
        <3>3. \A v \in Thread : home[v] = p => v # curr_obj[s]
            BY Zenon, <2>6, OtherCurrent
        <3>4. \A v \in Range(runqueue[p]) \cup {t} : avt'[v] = avt[v]
            BY Zenon, <1>H, <2>4, <3>2, <3>3
        <3> QED BY Zenon, <1>K, <2>1, <2>4, <2>6, <3>1, <3>4
    <2> QED BY Zenon, <2>5, <2>6
<1>5. ASSUME NEW s \in Pcpu, run_idle_thread(s) PROVE bounded(p, t)'
    <2>1. /\ curr_obj' = [curr_obj EXCEPT ![s] = s] /\ UNCHANGED <<resched, scheduler, runqueue>>
          /\ UNCHANGED policyVars
        BY Zenon, <1>5 DEF run_idle_thread
    <2>2. curr_obj[p] = t
        <3>1. DOMAIN curr_obj = Pcpu
            BY Zenon DEF FrameInv
        <3>2. curr_obj'[s] = s /\ s \notin Thread
            BY Zenon, <2>1, <3>1, ThreadAssumption
        <3>3. p # s
            BY Zenon, <3>2
        <3> QED BY Zenon, <2>1, <3>1, <3>3
    <2>3. UNCHANGED <<avt, deadline>>
        BY <2>1 DEF policyVars, bvtVars
    <2> QED BY Zenon, <1>S, <2>1, <2>2, <2>3
<1>6. ASSUME NEW s \in Pcpu, yield_current(s) PROVE bounded(p, t)'
    <2>1. /\ UNCHANGED <<curr_obj, scheduler, runqueue, policyVars>>
          /\ resched' = [resched EXCEPT ![s] = TRUE]
        BY Zenon, <1>6 DEF yield_current, make_reschedule_request
    <2>2. UNCHANGED <<avt, deadline>>
        BY <2>1 DEF policyVars, bvtVars
    <2> QED BY Zenon, <1>S, <2>1, <2>2, RequestKeeps
<1>7. ASSUME NEW s \in Pcpu, sched_tick_handler(s) PROVE bounded(p, t)'
    <2>1. /\ UNCHANGED <<curr_obj, scheduler, runqueue, avt>>
          /\ resched' \in {resched, [resched EXCEPT ![s] = TRUE]}
          /\ scheduler = "bvt" => \A r \in Pcpu :
                  \/ deadline'[r] = deadline[r]
                  \/ r = s /\ (curr_obj[s] \in Thread => resched'[s])
        BY Zenon, <1>7, TickKeeps
    <2>2. deadline'[p] = deadline[p]
        BY Zenon, <2>1
    <2> QED BY Zenon, <1>K, <2>1, <2>2, RequestKeeps
<1>8. ASSUME NEW s \in Pcpu, cycle(s) PROVE bounded(p, t)'
    <2>1. UNCHANGED <<curr_obj, scheduler, resched, runqueue, deadline, avt>>
        BY <1>8 DEF cycle, schedVars, bvt_cycle
    <2> QED BY Zenon, <1>S, <2>1
<1>9. CASE Quiet
    <2>1. UNCHANGED <<curr_obj, scheduler, resched, runqueue, deadline, avt>>
        BY <1>9 DEF Quiet, schedVars, policyVars, bvtVars
    <2> QED BY Zenon, <1>S, <2>1
<1> QED BY Zenon, StepCases, <1>1, <1>2, <1>3, <1>4, <1>5, <1>6, <1>7, <1>8, <1>9

(* prio and noop: what HighestRuns says of a pCPU, of the queue as a set.  *)
highest(p) ==
    IF Range(runqueue[p]) = {} THEN curr_obj[p] = p
    ELSE /\ curr_obj[p] \in Range(runqueue[p])
         /\ \A u \in Range(runqueue[p]) : priority[u] <= priority[curr_obj[p]]

(* prio and noop: no step leaves a thread on a pCPU while one of a higher  *)
(* priority waits and nothing was requested.                               *)
LEMMA HighestStep ==
    ASSUME FrameInv, QueueInv, QueueInv', HighestRuns, [Next]_vars
    PROVE  HighestRuns'
<1> SUFFICES ASSUME scheduler' \in {"prio", "noop"}, NEW p \in Pcpu,
                    curr_obj'[p] # NULL, ~resched'[p]
             PROVE  highest(p)'
    <2>1. ASSUME NEW r \in Pcpu PROVE runqueue'[r] = <<>> <=> Range(runqueue'[r]) = {}
        <3>1. runqueue'[r] \in Seq(Thread)
            BY Zenon DEF QueueInv, QueueType
        <3> QED BY Zenon, <3>1, EmptyQueue
    <2> QED BY Zenon, <2>1 DEF HighestRuns, highest
<1>H. /\ curr_obj[p] # NULL /\ ~resched[p] /\ scheduler \in {"prio", "noop"} => highest(p)
      /\ \A u \in Range(runqueue[p]) : u \in Thread /\ home[u] = p
    <2>1. runqueue[p] \in Seq(Thread)
        BY Zenon DEF QueueInv, QueueType
    <2>2. runqueue[p] = <<>> <=> Range(runqueue[p]) = {}
        BY Zenon, <2>1, EmptyQueue
    <2>3. \A u \in Range(runqueue[p]) : u \in Thread /\ home[u] = p
        BY Zenon, QueuedRunsHere DEF QueueInv
    <2> QED BY Zenon, <2>2, <2>3 DEF HighestRuns, highest
<1>K. CASE /\ UNCHANGED scheduler /\ curr_obj'[p] = curr_obj[p]
           /\ Range(runqueue'[p]) = Range(runqueue[p])
           /\ resched[p] => resched'[p]
    BY Zenon, <1>H, <1>K DEF highest
<1>1. ASSUME NEW u \in Thread, init_thread_data(u) PROVE highest(p)'
    <2>1. UNCHANGED <<scheduler, curr_obj, resched, runqueue>>
        BY Zenon, <1>1 DEF init_thread_data
    <2> QED BY Zenon, <1>K, <2>1
<1>2. ASSUME NEW c, NEW u \in Thread, sleep_thread(c, u) PROVE highest(p)'
    <2>1. /\ UNCHANGED <<curr_obj, scheduler>>
          /\ Range(runqueue'[p]) = IF p = home[u] THEN Range(runqueue[p]) \ {u}
                                   ELSE Range(runqueue[p])
          /\ resched[p] => resched'[p]
          /\ is_running(u) => resched'[home[u]]
        BY Zenon, <1>2, SleepDoes
    <2>2. CASE p # home[u]
        BY Zenon, <1>K, <2>1, <2>2
    <2>3. CASE p = home[u]
        <3>1. ~is_running(u)
            BY Zenon, <2>1, <2>3
        <3>2. curr_obj[p] # u
            BY Zenon, <3>1, OtherCurrent
        <3>3. highest(p)
            BY Zenon, <1>H, <2>1
        <3>4. Range(runqueue'[p]) = Range(runqueue[p]) \ {u}
            BY Zenon, <2>1, <2>3
        <3>5. CASE Range(runqueue[p]) = {}
            <4>1. Range(runqueue'[p]) = {} /\ curr_obj'[p] = p
                BY Zenon, <2>1, <3>3, <3>4, <3>5 DEF highest
            <4> QED BY Zenon, <4>1 DEF highest
        <3>6. CASE Range(runqueue[p]) # {}
            <4>1. /\ curr_obj'[p] \in Range(runqueue'[p])
                  /\ \A v \in Range(runqueue'[p]) : priority[v] <= priority[curr_obj'[p]]
                BY Zenon, <2>1, <3>2, <3>3, <3>4, <3>6 DEF highest
            <4> QED BY Zenon, <4>1 DEF highest
        <3> QED BY Zenon, <3>5, <3>6
    <2> QED BY Zenon, <2>2, <2>3
<1>3. ASSUME NEW c, NEW u \in Thread, wake_thread(c, u) PROVE highest(p)'
    <2>1. /\ UNCHANGED <<curr_obj, scheduler>>
          /\ p # home[u] => Range(runqueue'[p]) = Range(runqueue[p])
          /\ resched[p] => resched'[p]
          /\ resched'[home[u]]
        BY Zenon, <1>3, WakeDoes
    <2>2. p # home[u]
        BY Zenon, <2>1
    <2> QED BY Zenon, <1>K, <2>1, <2>2
<1>4. ASSUME NEW s \in Pcpu, curr_obj[s] # NULL, schedule(s) PROVE highest(p)'
    <2>1. PICK next \in Thread \cup {s} :
              /\ UNCHANGED scheduler
              /\ runqueue' \in [Pcpu -> Seq(Thread)]
              /\ \A r \in Pcpu : /\ ordered(runqueue'[r], precedes')
                                 /\ Range(runqueue'[r]) = Range(runqueue[r])
              /\ IF Range(runqueue[s]) = {} THEN next = s
                 ELSE next \in Range(runqueue[s]) /\ next \in Thread /\ home[next] = s
              /\ runqueue'[s] # <<>> => next = runqueue'[s][1]
              /\ curr_obj'[s] = next
              /\ \A r \in Pcpu : r # s => curr_obj'[r] = curr_obj[r] /\ resched'[r] = resched[r]
        BY Zenon, <1>4, ScheduleDoes
    <2>2. CASE s # p
        BY Zenon, <1>K, <2>1, <2>2
    <2>3. CASE s = p /\ Range(runqueue[p]) = {}
        <3>1. Range(runqueue'[p]) = {} /\ curr_obj'[p] = p
            BY Zenon, <2>1, <2>3
        <3> QED BY Zenon, <3>1 DEF highest
    <2>4. CASE s = p /\ Range(runqueue[p]) # {}
        <3> DEFINE q == runqueue'[p]
        <3>1. /\ q \in Seq(Thread) /\ ordered(q, precedes') /\ Range(q) = Range(runqueue[p])
              /\ next \in Range(q) /\ next \in Thread /\ home[next] = p /\ curr_obj'[p] = next
              /\ q # <<>> => next = q[1]
            BY Zenon, <2>1, <2>4
        <3> SUFFICES ASSUME NEW u \in Range(q) PROVE priority[u] <= priority[next]
            BY Zenon, <3>1 DEF highest
        <3>2. u \in Thread /\ priority[u] \in Nat /\ priority[next] \in Nat
            BY Zenon, <1>H, <3>1, PriorityAssumption
        <3>3. CASE u = next
            BY <3>2, <3>3
        <3>4. CASE u # next /\ scheduler = "prio"
            <4> HIDE DEF q
            <4>1. PICK i \in DOMAIN q : q[i] = u
                BY Zenon DEF Range
            <4>2. DOMAIN q = 1 .. Len(q) /\ Len(q) \in Nat
                BY <3>1
            <4>3. q # <<>>
                BY <4>1, <4>2
            <4>4. i # 1
                BY Zenon, <3>1, <3>4, <4>1, <4>3
            <4>5. 1 \in DOMAIN q /\ 1 < i
                BY <4>1, <4>2, <4>4
            <4>6. <<next, u>> \in precedes'
                BY Zenon, <3>1, <4>1, <4>3, <4>5 DEF ordered
            <4>7. priority[next] >= priority[u]
                BY Zenon, <2>1, <3>4, <4>6 DEF precedes
            <4> QED BY <3>2, <4>7
        <3>5. CASE scheduler = "noop"
            <4>1. status[next] # "NONE"
                <5>1. status[next] \in {"RUNNING", "RUNNABLE"}
                    BY Zenon, <3>1, QueuedRunsHere DEF QueueInv
                <5> QED BY <5>1
            <4>2. runqueue[p] \in {<<>>, <<next>>}
                BY Zenon, <3>1, <3>5, <4>1, NoopSlot
            <4>3. Range(<<>>) = {} /\ Range(<<next>>) = {next}
                BY DEF Range
            <4>4. Range(runqueue[p]) \subseteq {next}
                BY <4>2, <4>3
            <4>5. u \in Range(runqueue[p])
                BY Zenon, <3>1
            <4> QED BY Zenon, <3>3, <4>4, <4>5
        <3> QED BY Zenon, <2>1, <3>3, <3>4, <3>5
    <2> QED BY Zenon, <2>2, <2>3, <2>4
<1>5. ASSUME NEW s \in Pcpu, run_idle_thread(s) PROVE highest(p)'
    <2>1. /\ curr_obj' = [curr_obj EXCEPT ![s] = s] /\ UNCHANGED <<resched, scheduler, runqueue>>
          /\ curr_obj[s] = NULL
        BY Zenon, <1>5 DEF run_idle_thread
    <2>2. DOMAIN curr_obj = Pcpu
        BY Zenon DEF FrameInv
    <2>3. CASE s = p
        <3>1. curr_obj'[p] = p
            BY Zenon, <2>1, <2>2, <2>3
        <3>2. Range(runqueue[p]) = {}
            BY Zenon, <2>1, <2>3 DEF FrameInv
        <3> QED BY Zenon, <2>1, <3>1, <3>2 DEF highest
    <2>4. CASE s # p
        BY Zenon, <1>K, <2>1, <2>2, <2>4
    <2> QED BY Zenon, <2>3, <2>4
<1>6. ASSUME NEW s \in Pcpu, yield_current(s) PROVE highest(p)'
    <2>1. UNCHANGED <<curr_obj, scheduler, runqueue>> /\ resched' = [resched EXCEPT ![s] = TRUE]
        BY Zenon, <1>6 DEF yield_current, make_reschedule_request
    <2> QED BY Zenon, <1>K, <2>1, RequestKeeps
<1>7. ASSUME NEW s \in Pcpu, sched_tick_handler(s) PROVE highest(p)'
    <2>1. /\ UNCHANGED <<curr_obj, scheduler, runqueue>>
          /\ resched' \in {resched, [resched EXCEPT ![s] = TRUE]}
        BY Zenon, <1>7, TickKeeps
    <2> QED BY Zenon, <1>K, <2>1, RequestKeeps
<1>8. ASSUME NEW s \in Pcpu, cycle(s) PROVE highest(p)'
    <2>1. UNCHANGED <<curr_obj, scheduler, resched, runqueue>>
        BY Zenon, <1>8 DEF cycle, schedVars
    <2> QED BY Zenon, <1>K, <2>1
<1>9. CASE Quiet
    <2>1. UNCHANGED <<curr_obj, scheduler, resched, runqueue>>
        BY Zenon, <1>9 DEF Quiet, schedVars
    <2> QED BY Zenon, <1>K, <2>1
<1> QED BY Zenon, StepCases, <1>1, <1>2, <1>3, <1>4, <1>5, <1>6, <1>7, <1>8, <1>9

-----------------------------------------------------------------------------
(* The theorems.  What ThreadSchedProofs proves of the framework holds of  *)
(* the queues of a policy.                                                 *)
FP == INSTANCE ThreadSchedProofs WITH runqueue <- [p \in Pcpu |-> Range(runqueue[p])]

PolicyInv == QueueInv /\ FP!TypeOK /\ FP!SchedInv

(* The framework's invariant in the words used above.                      *)
LEMMA FrameOfPolicy ==
    ASSUME FP!TypeOK, FP!SchedInv
    PROVE  FrameInv
<1> USE ThreadAssumption
<1>1. /\ status \in [Object -> {"NONE", "RUNNING", "RUNNABLE", "BLOCKED"}]
      /\ be_blocking \in [Object -> BOOLEAN]
      /\ curr_obj \in [Pcpu -> Object \cup {NULL}]
      /\ resched \in [Pcpu -> BOOLEAN]
    BY DEF FP!TypeOK, FP!Object, FP!Status, Object
<1>2. \A t \in Thread : t \in Range(runqueue[home[t]])
           <=> status[t] \in {"RUNNING", "RUNNABLE"} /\ ~be_blocking[t]
    BY Zenon DEF FP!SchedInv, FP!QueueMatchesStatus
<1>3. \A p \in Pcpu : \A t \in Range(runqueue[p]) : home[t] = p
    BY Zenon DEF FP!SchedInv, FP!QueueIsLocal
<1>4. \A t \in Thread : is_running(t) <=> curr_obj[home[t]] = t
    BY Zenon DEF FP!SchedInv, FP!RunningIsCurrent, FP!Object, FP!pcpu_id, FP!is_running, is_running
<1>5. \A p \in Pcpu : \/ curr_obj[p] \in {p, NULL}
                      \/ curr_obj[p] \in Thread /\ home[curr_obj[p]] = p
    BY Zenon, <1>1 DEF FP!SchedInv, FP!CurrentIsLocal, FP!pcpu_id, Object
<1>6. \A o \in Object : be_blocking[o] => o \in Thread /\ is_running(o)
    BY Zenon DEF FP!SchedInv, FP!BlockingIsRunning, FP!Object, FP!is_running, Object, is_running
<1>7. \A p \in Pcpu :
           /\ curr_obj[p] \in {p, NULL} /\ Range(runqueue[p]) # {} => resched[p]
           /\ \A t \in Thread : curr_obj[p] = t /\ be_blocking[t] => resched[p]
    BY Zenon DEF FP!SchedInv, FP!NoLostWakeup
<1> QED BY Zenon, <1>1, <1>2, <1>3, <1>4, <1>5, <1>6, <1>7 DEF FrameInv

(* The invariant holds initially.                                          *)
LEMMA PolicyInit == Init => PolicyInv /\ Framework!init_sched
<1> SUFFICES ASSUME Init PROVE PolicyInv /\ Framework!init_sched
    OBVIOUS
<1>1. \A p \in Pcpu : runqueue[p] = <<>>
    BY Zenon DEF Init
<1>2. Range(<<>>) = {} /\ ordered(<<>>, precedes)
    BY DEF Range, ordered
<1>3. [p \in Pcpu |-> Range(runqueue[p])] = [p \in Pcpu |-> {}]
    BY Zenon, <1>1, <1>2
<1>4. FP!init_sched
    BY Zenon, <1>3 DEF Init, FP!init_sched, FP!Object, Object
<1>5. Framework!init_sched
    BY Zenon, <1>3 DEF Init, Framework!init_sched, Framework!Object, Object
<1>6. FP!TypeOK /\ FP!SchedInv
    BY ThreadAssumption, FP!SchedInit, <1>4
<1>7. QueueType /\ QueuesOrdered
    <2>1. runqueue \in [Pcpu -> Seq(Thread)]
        BY DEF Init
    <2> QED BY Zenon, <1>1, <1>2, <2>1 DEF Init, QueueType, QueuesOrdered
<1>8. TimeType
    <2>1. 0 \in Nat /\ 0 \in Int /\ 0 \in 0 .. Mcu - 1
        BY BvtAssumption
    <2> QED BY Zenon, <2>1 DEF Init, TimeType
<1>9. OnlyAssigned
    BY Zenon DEF Init, OnlyAssigned, Object
<1> QED BY Zenon, <1>5, <1>6, <1>7, <1>8, <1>9 DEF PolicyInv, QueueInv

(* Every step keeps the invariant, and is a step of the framework.         *)
LEMMA PolicyStep == PolicyInv /\ [Next]_vars => PolicyInv' /\ [Framework!Next]_(Framework!vars)
<1> SUFFICES ASSUME PolicyInv, [Next]_vars
             PROVE  PolicyInv' /\ [Framework!Next]_(Framework!vars)
    OBVIOUS
<1>1. FrameInv /\ QueueInv
    BY Zenon, FrameOfPolicy DEF PolicyInv
<1>2. QueueInv'
    BY Zenon, <1>1, QueueStep
<1>3. [Framework!Next]_(Framework!vars)
    BY Zenon, <1>1, StepRefines
<1>4. [FP!Next]_(FP!vars)
    <2>1. Framework!vars' = Framework!vars => FP!vars' = FP!vars
        BY Zenon DEF Framework!vars, FP!vars
    <2>2. Framework!Next => FP!Next
        BY Zenon DEF Framework!Next, FP!Next, Framework!init_thread_data, FP!init_thread_data,
            Framework!sleep_thread, FP!sleep_thread, Framework!wake_thread, FP!wake_thread,
            Framework!run_idle_thread, FP!run_idle_thread, Framework!schedule, FP!schedule,
            Framework!schedule_to, FP!schedule_to, Framework!pick_next, FP!pick_next,
            Framework!switch_status, FP!switch_status,
            Framework!make_reschedule_request, FP!make_reschedule_request,
            Framework!is_running, FP!is_running, Framework!is_blocked, FP!is_blocked
    <2> QED BY Zenon, <1>3, <2>1, <2>2
<1>5. FP!TypeOK' /\ FP!SchedInv'
    BY ThreadAssumption, FP!TypeStep, FP!SchedStep, <1>4 DEF PolicyInv
<1> QED BY Zenon, <1>2, <1>3, <1>5 DEF PolicyInv

(* The queue of every policy is consistent with the framework, and in the  *)
(* policy's order, in every reachable state.                               *)
THEOREM PolicyCorrect == Spec => []PolicyInv
BY PolicyInit, PolicyStep, PTL DEF Spec

(* Every policy implements the contract of schedule.c: what ThreadSched    *)
(* says of any queue, and ThreadSchedProofs proves, holds of the lists of  *)
(* iorr, bvt and prio and of the slot of noop.                             *)
THEOREM PolicyRefines == Spec => RefinesThreadSched
<1>1. Framework!Spec <=> Framework!init_sched /\ [][Framework!Next]_(Framework!vars)
    BY DEF Framework!Spec
<1> QED BY PolicyInit, PolicyStep, PolicyCorrect, <1>1, PTL DEF Spec, RefinesThreadSched

(* No thread runs before a pCPU's idle thread does.                        *)
LEMMA NothingRuns == Init => \A p \in Pcpu, t \in Thread : curr_obj[p] # t
<1>1. NULL \notin Thread
    BY ThreadAssumption
<1>2. Init => \A p \in Pcpu : curr_obj[p] = NULL
    BY Zenon DEF Init
<1> QED BY Zenon, <1>1, <1>2

(* iorr: the current thread has time left, or is on its way out.           *)
THEOREM SliceIsEnforced == Spec => []SliceEnforced
<1>1. Init => SliceEnforced
    BY Zenon, NothingRuns DEF SliceEnforced
<1>2. PolicyInv /\ SliceEnforced /\ [Next]_vars => SliceEnforced'
    BY Zenon, FrameOfPolicy, SliceStep DEF PolicyInv
<1> QED BY PolicyCorrect, <1>1, <1>2, PTL DEF Spec

(* bvt: the tick comes before the current thread has outrun a rival by     *)
(* more than the context switch allowance.                                 *)
THEOREM TurnAlwaysBounded == Spec => []TurnIsBounded
<1>1. Init => TurnIsBounded
    BY Zenon, NothingRuns DEF TurnIsBounded
<1>2. PolicyInv /\ PolicyInv' /\ TurnIsBounded /\ [Next]_vars => TurnIsBounded'
    BY Zenon, FrameOfPolicy, TurnStep DEF PolicyInv
<1> QED BY PolicyCorrect, <1>1, <1>2, PTL DEF Spec

(* prio and noop: the queued thread of the highest priority runs, unless a *)
(* reschedule is pending.                                                  *)
THEOREM HighestAlwaysRuns == Spec => []HighestRuns
<1>1. Init => HighestRuns
    BY ZenonT(60) DEF Init, HighestRuns
<1>2. PolicyInv /\ PolicyInv' /\ HighestRuns /\ [Next]_vars => HighestRuns'
    BY Zenon, FrameOfPolicy, HighestStep DEF PolicyInv
<1> QED BY PolicyCorrect, <1>1, <1>2, PTL DEF Spec

(* Every variable of the policies and of the idle loop keeps its type.     *)
THEOREM PolicyTyped == Spec => []TypeOK
<1> DEFINE IdleType == /\ idle_at \in [Pcpu -> {"check", "wfi_next", "wfi"}]
                       /\ idle_if \in [Pcpu -> BOOLEAN] /\ swi \in [Pcpu -> BOOLEAN]
<1>1. Init => IdleType
    BY DEF Init
<1>2. IdleType /\ [Next]_vars => IdleType'
    <2> SUFFICES ASSUME IdleType, [Next]_vars PROVE IdleType'
        OBVIOUS
    <2>1. ASSUME NEW s \in Pcpu, end_wfi(s)
          PROVE  /\ idle_at' \in [Pcpu -> {"check", "wfi_next", "wfi"}]
                 /\ idle_if' \in [Pcpu -> BOOLEAN]
        BY Zenon, <2>1 DEF end_wfi
    <2>2. ASSUME NEW c, called_on(c)
          PROVE  /\ idle_at' \in [Pcpu -> {"check", "wfi_next", "wfi"}]
                 /\ idle_if' \in [Pcpu -> BOOLEAN]
        BY Zenon, <2>1, <2>2 DEF called_on
    <2>3. ASSUME NEW c, NEW s, make_reschedule_request(c, s) PROVE swi' \in [Pcpu -> BOOLEAN]
        BY Zenon, <2>3 DEF make_reschedule_request
    <2>4. ASSUME NEW t \in Thread, init_thread_data(t) PROVE IdleType'
        BY Zenon, <2>4 DEF init_thread_data
    <2>5. ASSUME NEW c, NEW t \in Thread, sleep_thread(c, t) \/ wake_thread(c, t) PROVE IdleType'
        BY Zenon, <2>2, <2>3, <2>5 DEF sleep_thread, wake_thread
    <2>6. ASSUME NEW s \in Pcpu, schedule(s) \/ run_idle_thread(s) PROVE IdleType'
        BY Zenon, <2>6 DEF schedule, run_idle_thread
    <2>7. ASSUME NEW s \in Pcpu, yield_current(s) PROVE IdleType'
        BY Zenon, <2>3, <2>7 DEF yield_current
    <2>8. ASSUME NEW s \in Pcpu, default_idle(s) PROVE IdleType'
        BY Zenon, <2>6, <2>8 DEF default_idle
    <2>9. ASSUME NEW s \in Pcpu, sswi_handler(s) PROVE IdleType'
        BY Zenon, <2>1, <2>9 DEF sswi_handler
    <2>10. ASSUME NEW s \in Pcpu, sched_tick_handler(s) PROVE IdleType'
        BY Zenon, <2>1, <2>3, <2>10 DEF sched_tick_handler
    <2>11. ASSUME NEW s \in Pcpu, cycle(s) PROVE IdleType'
        BY Zenon, <2>11 DEF cycle
    <2>12. CASE UNCHANGED vars
        BY Zenon, <2>12 DEF vars
    <2> QED BY Zenon, <2>4, <2>5, <2>6, <2>7, <2>8, <2>9, <2>10, <2>11, <2>12
            DEF Next, vcpu_thread_schedules
<1>3. PolicyInv /\ IdleType => TypeOK
    BY Zenon, FrameOfPolicy DEF PolicyInv, FrameInv, QueueInv, QueueType, TimeType, TypeOK
<1> HIDE DEF IdleType
<1> QED BY PolicyCorrect, <1>1, <1>2, <1>3, PTL DEF Spec

=============================================================================
