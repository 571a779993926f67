--------------------------- MODULE BlockDevProofs ---------------------------
(***************************************************************************)
(* Proofs about a disk.  First the block backend under its most general    *)
(* client: whatever requests, cancellations and close its clients call,    *)
(* with any number of threads and requests, no request is left in the      *)
(* queue without a thread that is on its way to it.  Then BlockDev: both   *)
(* controllers use the backend as that client may, also while it is being  *)
(* closed, so what is shown of the backend holds of a disk; and the        *)
(* backend has no transfer of a request that the guest has back.           *)
(***************************************************************************)
EXTENDS BlockDev, TLAPS

-----------------------------------------------------------------------------
(* The block backend.                                                      *)


Elem == [req : Req, off : Nat, block : Nat, status : {"PEND", "BLOCK"}]
Thread == [at : At, req : Req \cup {NULL}, block : Nat]

(* Threads leave blockif_thr only once the context is closing.             *)
ExitMeansClosing == \A w \in Worker : worker[w].at = "exit" => closing

(* A request on its own does not show who serves it: one that is blocked   *)
(* relies on the one it waits for, and one that came after the last thread *)
(* has left on the callback it came from.                                  *)
BlockInv == BlockTypeOK /\ BlockedHasBlocker /\ ExitMeansClosing /\ PendingIsServed

-----------------------------------------------------------------------------

(* Taking an element off the queue moves those behind it up by one.        *)
LEMMA RemovalMoves ==
    ASSUME NEW q \in Seq(Elem), NEW i \in 1 .. Len(q)
    PROVE  /\ TAILQ_REMOVE(q, i) \in Seq(Elem)
           /\ Len(TAILQ_REMOVE(q, i)) = Len(q) - 1
           /\ \A j \in 1 .. (Len(q) - 1) :
                 TAILQ_REMOVE(q, i)[j] = IF j < i THEN q[j] ELSE q[j + 1]
<1> DEFINE a == SubSeq(q, 1, i - 1)
           b == SubSeq(q, i + 1, Len(q))
<1>1. a \in Seq(Elem) /\ Len(a) = i - 1 /\ \A j \in 1 .. (i - 1) : a[j] = q[j]
    OBVIOUS
<1>2. b \in Seq(Elem) /\ Len(b) = Len(q) - i /\ \A j \in 1 .. (Len(q) - i) : b[j] = q[i + j]
    OBVIOUS
<1> HIDE DEF a, b
<1>3. TAILQ_REMOVE(q, i) = a \o b
    BY Zenon DEF TAILQ_REMOVE, a, b
<1>4. a \o b \in Seq(Elem) /\ Len(a \o b) = Len(q) - 1
    <2>1. a \o b \in Seq(Elem)
        BY <1>1, <1>2
    <2>2. Len(a \o b) = Len(a) + Len(b)
        <3>1. \A s, t \in Seq(Elem) : Len(s \o t) = Len(s) + Len(t)
            OBVIOUS
        <3> QED BY Zenon, <1>1, <1>2, <3>1
    <2>3. Len(q) \in Nat /\ i \in Nat
        OBVIOUS
    <2> QED BY <1>1, <1>2, <2>1, <2>2, <2>3
<1>5. ASSUME NEW j \in 1 .. (Len(q) - 1)
      PROVE  (a \o b)[j] = IF j < i THEN q[j] ELSE q[j + 1]
    <2>1. CASE j < i
        BY <1>1, <1>2, <2>1
    <2>2. CASE ~(j < i)
        <3>1. (a \o b)[j] = b[j - (i - 1)]
            BY <1>1, <1>2, <2>2
        <3>2. j - (i - 1) \in 1 .. (Len(q) - i) /\ i + (j - (i - 1)) = j + 1
            BY <2>2
        <3> QED BY Zenon, <1>2, <2>2, <3>1, <3>2
    <2> QED BY Zenon, <2>1, <2>2
<1> QED BY Zenon, <1>3, <1>4, <1>5

(* blockif_complete and blockif_cancel change the status of elements only. *)
LEMMA UnblockedKeeps ==
    ASSUME NEW q \in Seq(Elem), NEW b \in Nat
    PROVE  /\ unblocked(q, b) \in Seq(Elem)
           /\ Len(unblocked(q, b)) = Len(q)
           /\ \A i \in 1 .. Len(q) :
                 /\ unblocked(q, b)[i].req = q[i].req
                 /\ unblocked(q, b)[i].off = q[i].off
                 /\ unblocked(q, b)[i].block = q[i].block
                 /\ unblocked(q, b)[i].status = IF q[i].off = b THEN "PEND" ELSE q[i].status
<1> DEFINE u == unblocked(q, b)
<1>1. DOMAIN q = 1 .. Len(q) /\ \A i \in 1 .. Len(q) : q[i] \in Elem
    OBVIOUS
<1>2. u = [i \in 1 .. Len(q) |-> IF q[i].off = b THEN [q[i] EXCEPT !.status = "PEND"] ELSE q[i]]
    BY Zenon, <1>1 DEF unblocked
<1>3. \A i \in 1 .. Len(q) : u[i] \in Elem
    BY SMTT(60), <1>1, <1>2 DEF Elem
<1>4. u \in Seq(Elem) /\ Len(u) = Len(q)
    <2>1. u \in [1 .. Len(q) -> Elem]
        BY Zenon, <1>2, <1>3
    <2> QED BY <2>1, <1>2
<1>5. \A i \in 1 .. Len(q) :
          /\ u[i].req = q[i].req /\ u[i].off = q[i].off /\ u[i].block = q[i].block
          /\ u[i].status = IF q[i].off = b THEN "PEND" ELSE q[i].status
    BY <1>1, <1>2 DEF Elem
<1> QED BY Zenon, <1>4, <1>5

(* blockif_dequeue, when the blocked requests of its queue wait for        *)
(* requests of that queue or of other threads.                             *)
LEMMA DequeueStep ==
    ASSUME BlockInv, NEW w \in Worker, NEW q \in Seq(Elem), worker[w].at # "exit",
           UNCHANGED closing,
           \A i \in 1 .. Len(q) : q[i].status = "BLOCK" =>
               \/ \E j \in 1 .. (i - 1) : q[j].block = q[i].off
               \/ \E v \in Worker \ {w} : in_flight(v) /\ worker[v].block = q[i].off,
           blockif_dequeue(w, q)
    PROVE  /\ pendq' \in Seq(Elem) /\ worker' \in [Worker -> Thread]
           /\ BlockedHasBlocker' /\ ExitMeansClosing' /\ PendingIsServed'
<1> USE DEF in_flight
<1>1. DOMAIN q = 1 .. Len(q) /\ \A i \in 1 .. Len(q) : q[i] \in Elem
    OBVIOUS
<1>2. worker \in [Worker -> Thread]
    BY Zenon DEF BlockInv, BlockTypeOK, Thread
<1>3. ASSUME NEW i \in 1 .. Len(q), first_pending(q, i), pendq' = TAILQ_REMOVE(q, i),
             worker' = [worker EXCEPT ![w] =
                [at |-> "busy", req |-> q[i].req, block |-> q[i].block]]
      PROVE  /\ pendq' \in Seq(Elem) /\ worker' \in [Worker -> Thread]
             /\ BlockedHasBlocker' /\ ExitMeansClosing' /\ PendingIsServed'
    <2>1. /\ pendq' \in Seq(Elem) /\ Len(pendq') = Len(q) - 1
          /\ \A j \in 1 .. (Len(q) - 1) : pendq'[j] = IF j < i THEN q[j] ELSE q[j + 1]
        BY Zenon, <1>3, RemovalMoves
    <2>2. worker' \in [Worker -> Thread]
        BY Zenon, <1>1, <1>2, <1>3 DEF Thread, Elem, At
    <2>3. worker'[w].at = "busy" /\ worker'[w].block = q[i].block
        BY Zenon, <1>2, <1>3
    <2>4. \A v \in Worker \ {w} : worker'[v] = worker[v]
        BY Zenon, <1>2, <1>3
    <2>5. BlockedHasBlocker'
        <3> SUFFICES ASSUME NEW k \in 1 .. (Len(q) - 1), pendq'[k].status = "BLOCK"
                     PROVE  \/ \E j \in 1 .. (k - 1) : pendq'[j].block = pendq'[k].off
                            \/ \E v \in Worker : /\ worker'[v].at \in {"busy", "callback", "complete"}
                                                 /\ worker'[v].block = pendq'[k].off
            <4>1. DOMAIN pendq' = 1 .. (Len(q) - 1)
                BY <2>1
            <4> QED BY Zenon, <4>1 DEF BlockedHasBlocker
        <3> DEFINE old == IF k < i THEN k ELSE k + 1
        <3>1. old \in 1 .. Len(q) /\ pendq'[k] = q[old]
            BY <2>1
        <3>0. Len(q) \in Nat /\ k \in Nat /\ i \in Nat
            OBVIOUS
        <3>2. CASE \E j \in 1 .. (old - 1) : q[j].block = q[old].off
            <4>1. PICK j \in 1 .. (old - 1) : q[j].block = q[old].off
                BY Zenon, <3>2
            <4>2. CASE j = i
                BY Zenon, <2>3, <3>1, <4>1, <4>2
            <4>3. CASE j < i
                <5>1. j \in 1 .. (k - 1)
                    BY <3>0, <4>3
                <5>2. pendq'[j] = q[j]
                    BY <2>1, <3>0, <4>3, <5>1
                <5> QED BY Zenon, <3>1, <4>1, <5>1, <5>2
            <4>4. CASE j > i
                <5>1. j - 1 \in 1 .. (k - 1) /\ ~(j - 1 < i) /\ (j - 1) + 1 = j
                    BY <3>0, <4>4
                <5>2. pendq'[j - 1] = q[j]
                    BY <2>1, <3>0, <5>1
                <5> QED BY Zenon, <3>1, <4>1, <5>1, <5>2
            <4> QED BY <4>2, <4>3, <4>4
        <3>3. CASE \E v \in Worker \ {w} : in_flight(v) /\ worker[v].block = q[old].off
            BY Zenon, <2>4, <3>1, <3>3
        <3> QED BY Zenon, <3>1, <3>2, <3>3
    <2>6. ExitMeansClosing'
        BY Zenon, <2>3, <2>4 DEF BlockInv, ExitMeansClosing
    <2>7. PendingIsServed'
        BY Zenon, <2>3 DEF PendingIsServed, active
    <2> QED BY Zenon, <2>1, <2>2, <2>5, <2>6, <2>7
<1>4. ASSUME ~has_pending(q), pendq' = q,
             worker' = [worker EXCEPT ![w] = idle_thread(IF closing THEN "exit" ELSE "wait")]
      PROVE  /\ pendq' \in Seq(Elem) /\ worker' \in [Worker -> Thread]
             /\ BlockedHasBlocker' /\ ExitMeansClosing' /\ PendingIsServed'
    <2>1. worker' \in [Worker -> Thread]
        BY Zenon, <1>2, <1>4 DEF Thread, At, idle_thread
    <2>2. \A v \in Worker \ {w} : worker'[v] = worker[v]
        BY Zenon, <1>2, <1>4
    <2>3. worker'[w].at = (IF closing THEN "exit" ELSE "wait")
        BY Zenon, <1>2, <1>4 DEF idle_thread
    <2>4. BlockedHasBlocker'
        BY <1>1, <1>4, <2>2 DEF BlockedHasBlocker
    <2>5. ExitMeansClosing'
        BY Zenon, <2>2, <2>3 DEF BlockInv, ExitMeansClosing, BlockTypeOK
    <2>6. PendingIsServed'
        <3> SUFFICES ASSUME q # << >> PROVE \E v \in Worker : active(v)'
            BY Zenon, <1>4 DEF PendingIsServed
        <3>1. 1 \in 1 .. Len(q)
            OBVIOUS
        <3>2. q[1].status = "BLOCK"
            BY Zenon, <1>1, <1>4, <3>1 DEF has_pending, Elem
        <3>3. PICK v \in Worker \ {w} : in_flight(v)
            BY <3>1, <3>2
        <3> QED BY Zenon, <2>2, <3>3 DEF active
    <2> QED BY Zenon, <1>4, <2>1, <2>4, <2>5, <2>6
<1> QED BY Zenon, <1>1, <1>3, <1>4 DEF blockif_dequeue

(* blockif_enqueue signals a waiting thread; where none waits, one is      *)
(* still on its way, or the caller is the callback of one.                 *)
LEMMA EnqueueStep ==
    ASSUME BlockInv, NEW r \in Req, NEW off \in Nat, NEW block \in Nat,
           may_request, UNCHANGED closing, blockif_enqueue(r, off, block)
    PROVE  /\ pendq' \in Seq(Elem) /\ worker' \in [Worker -> Thread]
           /\ BlockedHasBlocker' /\ ExitMeansClosing' /\ PendingIsServed'
<1> DEFINE status == IF follows(off) THEN "BLOCK" ELSE "PEND"
           e == [req |-> r, off |-> off, block |-> block, status |-> status]
<1> USE DEF in_flight
<1>1. /\ pendq \in Seq(Elem) /\ worker \in [Worker -> Thread] /\ DOMAIN pendq = 1 .. Len(pendq)
      /\ Len(pendq) \in Nat
    BY DEF BlockInv, BlockTypeOK, Elem, Thread
<1>2. e \in Elem
    BY Zenon DEF Elem
<1>3. pendq' = Append(pendq, e)
    BY Zenon DEF blockif_enqueue
<1> HIDE DEF e
<1>4. /\ pendq' \in Seq(Elem) /\ DOMAIN pendq' = 1 .. (Len(pendq) + 1)
      /\ \A i \in 1 .. Len(pendq) : pendq'[i] = pendq[i]
      /\ pendq'[Len(pendq) + 1] = e
    BY <1>1, <1>2, <1>3
<1>5. \/ UNCHANGED worker
      \/ \E w \in Worker : worker[w].at = "wait" /\ worker' = [worker EXCEPT ![w].at = "woken"]
    BY Zenon DEF blockif_enqueue, pthread_cond_signal
<1>6. worker' \in [Worker -> Thread]
    BY ZenonT(60), <1>1, <1>5 DEF Thread, At
<1>7. \A w \in Worker :
          \/ worker'[w] = worker[w]
          \/ worker[w].at = "wait" /\ worker'[w].at = "woken"
    BY Zenon, <1>1, <1>5 DEF Thread
<1>8. BlockedHasBlocker'
    <2> SUFFICES ASSUME NEW i \in 1 .. (Len(pendq) + 1), pendq'[i].status = "BLOCK"
                 PROVE  \/ \E j \in 1 .. (i - 1) : pendq'[j].block = pendq'[i].off
                        \/ \E w \in Worker : in_flight(w)' /\ worker'[w].block = pendq'[i].off
        BY Zenon, <1>4 DEF BlockedHasBlocker
    <2>1. CASE i \in 1 .. Len(pendq)
        <3>1. pendq[i].status = "BLOCK" /\ pendq'[i] = pendq[i]
            BY Zenon, <1>4, <2>1
        <3>2. CASE \E j \in 1 .. (i - 1) : pendq[j].block = pendq[i].off
            BY <1>1, <1>4, <2>1, <3>1, <3>2
        <3>3. CASE \E w \in Worker : in_flight(w) /\ worker[w].block = pendq[i].off
            BY Zenon, <1>7, <3>1, <3>3
        <3> QED BY Zenon, <1>1, <2>1, <3>1, <3>2, <3>3 DEF BlockInv, BlockedHasBlocker
    <2>2. CASE i = Len(pendq) + 1
        <3>1. follows(off) /\ pendq'[i].off = off
            BY <1>4, <2>2 DEF e
        <3>2. CASE \E j \in DOMAIN pendq : pendq[j].block = off
            <4>1. PICK j \in DOMAIN pendq : pendq[j].block = off
                BY Zenon, <3>2
            <4>2. j \in 1 .. (i - 1) /\ pendq'[j] = pendq[j]
                BY <1>1, <1>4, <2>2
            <4> QED BY Zenon, <3>1, <4>1, <4>2
        <3>3. CASE \E w \in Worker : in_flight(w) /\ worker[w].block = off
            BY Zenon, <1>7, <3>1, <3>3
        <3> QED BY Zenon, <3>1, <3>2, <3>3 DEF follows
    <2> QED BY <1>1, <2>1, <2>2
<1>9. ExitMeansClosing'
    BY Zenon, <1>7 DEF BlockInv, ExitMeansClosing
<1>10. PendingIsServed'
    <2>1. ASSUME NEW w \in Worker, active(w) PROVE active(w)'
        BY Zenon, <1>7, <2>1 DEF active
    <2>2. CASE follows(off)
        <3>1. CASE pendq # << >>
            BY Zenon, <2>1, <3>1 DEF BlockInv, PendingIsServed
        <3>2. CASE \E w \in Worker : in_flight(w)
            BY Zenon, <2>1, <3>2 DEF PendingIsServed, active
        <3> QED BY <1>1, <2>2, <3>1, <3>2 DEF follows
    <2>3. CASE ~follows(off) /\ \E w \in Worker : worker[w].at = "wait"
        <3>1. PICK w \in Worker : worker' = [worker EXCEPT ![w].at = "woken"]
            BY Zenon, <2>3 DEF blockif_enqueue, pthread_cond_signal
        <3>2. worker'[w].at = "woken"
            BY Zenon, <1>1, <3>1 DEF Thread
        <3> QED BY Zenon, <3>2 DEF PendingIsServed, active
    <2>4. CASE \A w \in Worker : worker[w].at # "wait"
        <3>1. CASE closing
            BY Zenon, <2>1, <3>1 DEF may_request, PendingIsServed, active
        <3>2. CASE ~closing
            BY Zenon, <2>1, <2>4, <3>2, BlockAssumption
               DEF BlockInv, ExitMeansClosing, PendingIsServed, active
        <3> QED BY Zenon, <3>1, <3>2
    <2> QED BY Zenon, <2>2, <2>3, <2>4
<1> QED BY Zenon, <1>4, <1>6, <1>8, <1>9, <1>10

(* A cancelled request that was queued releases those that waited for it,  *)
(* and the thread that served it serves them.                              *)
LEMMA CancelStep ==
    ASSUME BlockInv, NEW r \in Req, cancel_queued(r)
    PROVE  BlockInv'
<1> USE DEF in_flight
<1>1. /\ pendq \in Seq(Elem) /\ worker \in [Worker -> Thread] /\ DOMAIN pendq = 1 .. Len(pendq)
      /\ Len(pendq) \in Nat
    BY DEF BlockInv, BlockTypeOK, Elem, Thread
<1>2. PICK i \in 1 .. Len(pendq) : pendq' = unblocked(TAILQ_REMOVE(pendq, i), pendq[i].block)
    BY Zenon, <1>1 DEF cancel_queued
<1> DEFINE q == TAILQ_REMOVE(pendq, i)
           b == pendq[i].block
<1>3. b \in Nat
    <2>1. pendq[i] \in Elem
        BY <1>1
    <2> QED BY Zenon, <2>1 DEF Elem
<1>4. /\ q \in Seq(Elem) /\ Len(q) = Len(pendq) - 1
      /\ \A j \in 1 .. (Len(pendq) - 1) : q[j] = IF j < i THEN pendq[j] ELSE pendq[j + 1]
    BY Zenon, <1>1, RemovalMoves
<1> HIDE DEF q, b
<1>5. /\ pendq' \in Seq(Elem) /\ Len(pendq') = Len(q)
      /\ \A j \in 1 .. Len(q) :
            /\ pendq'[j].off = q[j].off /\ pendq'[j].block = q[j].block
            /\ pendq'[j].status = IF q[j].off = b THEN "PEND" ELSE q[j].status
    <2>1. pendq' = unblocked(q, b)
        BY Zenon, <1>2 DEF q, b
    <2>2. /\ unblocked(q, b) \in Seq(Elem) /\ Len(unblocked(q, b)) = Len(q)
          /\ \A j \in 1 .. Len(q) :
                /\ unblocked(q, b)[j].off = q[j].off /\ unblocked(q, b)[j].block = q[j].block
                /\ unblocked(q, b)[j].status = IF q[j].off = b THEN "PEND" ELSE q[j].status
        BY SMTT(60), <1>3, <1>4, UnblockedKeeps
    <2> QED BY Zenon, <2>1, <2>2
<1>6. UNCHANGED <<worker, closing, canceling>>
    BY Zenon DEF cancel_queued
<1>7. BlockedHasBlocker'
    <2> SUFFICES ASSUME NEW k \in 1 .. Len(q), pendq'[k].status = "BLOCK"
                 PROVE  \/ \E j \in 1 .. (k - 1) : pendq'[j].block = pendq'[k].off
                        \/ \E w \in Worker : in_flight(w) /\ worker[w].block = pendq'[k].off
        <3>1. DOMAIN pendq' = 1 .. Len(q)
            BY <1>5
        <3> QED BY Zenon, <1>6, <3>1 DEF BlockedHasBlocker
    <2> DEFINE old == IF k < i THEN k ELSE k + 1
    <2>1. k \in Nat /\ i \in Nat /\ Len(q) = Len(pendq) - 1
        BY <1>1, <1>4
    <2>2. old \in 1 .. Len(pendq) /\ q[k] = pendq[old]
        BY <1>4, <2>1
    <2>3. pendq'[k].off = pendq[old].off /\ pendq[old].status = "BLOCK" /\ pendq[old].off # b
        BY Zenon, <1>5, <2>2
    <2>4. CASE \E w \in Worker : in_flight(w) /\ worker[w].block = pendq[old].off
        BY Zenon, <2>3, <2>4
    <2>5. CASE \E j \in 1 .. (old - 1) : pendq[j].block = pendq[old].off
        <3>1. PICK j \in 1 .. (old - 1) : pendq[j].block = pendq[old].off
            BY Zenon, <2>5
        <3>2. j # i
            BY Zenon, <2>3, <3>1 DEF b
        <3>3. CASE j < i
            <4>1. j \in 1 .. (k - 1)
                BY <2>1, <3>3
            <4>2. j \in 1 .. Len(q) /\ q[j] = pendq[j]
                BY SMTT(60), <1>4, <2>1, <3>3, <4>1
            <4>3. pendq'[j].block = pendq[j].block
                BY Zenon, <1>5, <4>2
            <4> QED BY Zenon, <2>3, <3>1, <4>1, <4>3
        <3>4. CASE j > i
            <4>1. j - 1 \in 1 .. (k - 1) /\ ~(j - 1 < i) /\ (j - 1) + 1 = j
                BY <2>1, <3>4
            <4>2. j - 1 \in 1 .. Len(q) /\ q[j - 1] = pendq[j]
                BY <1>4, <2>1, <4>1
            <4>3. pendq'[j - 1].block = pendq[j].block
                BY Zenon, <1>5, <4>2
            <4> QED BY Zenon, <2>3, <3>1, <4>1, <4>3
        <3> QED BY <2>1, <3>2, <3>3, <3>4
    <2> HIDE DEF old
    <2> QED BY Zenon, <1>1, <2>2, <2>3, <2>4, <2>5 DEF BlockInv, BlockedHasBlocker
<1>8. pendq # << >>
    BY <1>1
<1>9. ExitMeansClosing' /\ PendingIsServed'
    BY Zenon, <1>6, <1>8 DEF BlockInv, ExitMeansClosing, PendingIsServed, active
<1> QED BY Zenon, <1>5, <1>6, <1>7, <1>9 DEF BlockInv, BlockTypeOK, Elem

-----------------------------------------------------------------------------

(* A new context has no requests and all its threads on their way.         *)
LEMMA BlockInit == blockif_open => BlockInv
<1> SUFFICES ASSUME blockif_open PROVE BlockInv
    BY Zenon
<1>1. worker \in [Worker -> Thread]
    BY Zenon DEF blockif_open, idle_thread, Thread, At
<1>2. pendq = << >> /\ << >> \in Seq(Elem) /\ DOMAIN << >> = {}
    BY DEF blockif_open
<1>3. closing \in BOOLEAN /\ canceling \in Worker \cup {NULL}
    BY Zenon DEF blockif_open
<1>4. \A w \in Worker : worker[w].at = "woken"
    BY Zenon DEF blockif_open, idle_thread
<1>5. BlockTypeOK
    BY Zenon, <1>1, <1>2, <1>3 DEF BlockTypeOK, Elem, Thread
<1>6. BlockedHasBlocker
    BY Zenon, <1>2 DEF BlockedHasBlocker
<1>7. ExitMeansClosing /\ PendingIsServed
    BY Zenon, <1>2, <1>4 DEF ExitMeansClosing, PendingIsServed
<1> QED BY Zenon, <1>5, <1>6, <1>7 DEF BlockInv

(* Every operation of the backend keeps the invariant.                     *)
LEMMA BlockStep == BlockInv /\ [BlockNext]_bvars => BlockInv'
<1> SUFFICES ASSUME BlockInv, [BlockNext]_bvars PROVE BlockInv'
    BY Zenon
<1> USE DEF in_flight
<1>0. /\ pendq \in Seq(Elem) /\ worker \in [Worker -> Thread] /\ DOMAIN pendq = 1 .. Len(pendq)
      /\ closing \in BOOLEAN /\ canceling \in Worker \cup {NULL}
    BY DEF BlockInv, BlockTypeOK, Elem, Thread
<1>1. ASSUME NEW r \in Req, NEW off \in Offset, NEW block \in Offset \cup {flush_end},
             may_request, blockif_request(r, off, block)
      PROVE  BlockInv'
    <2>1. off \in Nat /\ block \in Nat
        BY BlockAssumption DEF flush_end
    <2>2. UNCHANGED <<closing, canceling>>
        BY Zenon, <1>1 DEF blockif_request
    <2>3. CASE UNCHANGED <<pendq, worker>>
        BY Zenon, <2>2, <2>3
           DEF BlockInv, BlockTypeOK, BlockedHasBlocker, ExitMeansClosing,
               PendingIsServed, active
    <2>4. CASE blockif_enqueue(r, off, block)
        <3>1. /\ pendq' \in Seq(Elem) /\ worker' \in [Worker -> Thread]
              /\ BlockedHasBlocker' /\ ExitMeansClosing' /\ PendingIsServed'
            BY Zenon, <1>1, <2>1, <2>2, <2>4, EnqueueStep
        <3> QED BY Zenon, <1>0, <2>2, <3>1 DEF BlockInv, BlockTypeOK, Elem, Thread
    <2> QED BY Zenon, <1>1, <2>3, <2>4 DEF blockif_request
<1>2. ASSUME NEW r \in Req, cancel_queued(r) PROVE BlockInv'
    BY Zenon, <1>2, CancelStep
<1>3. ASSUME NEW r \in Req, cancel_busy(r) PROVE BlockInv'
    <2>1. canceling' \in Worker \cup {NULL} /\ UNCHANGED <<pendq, worker, closing>>
        BY Zenon, <1>3 DEF cancel_busy
    <2> QED BY Zenon, <2>1
        DEF BlockInv, BlockTypeOK, BlockedHasBlocker, ExitMeansClosing, PendingIsServed,
            active
<1>4. CASE cancel_returns
    <2>1. canceling' \in Worker \cup {NULL} /\ UNCHANGED <<pendq, worker, closing>>
        BY Zenon, <1>4 DEF cancel_returns
    <2> QED BY Zenon, <2>1
        DEF BlockInv, BlockTypeOK, BlockedHasBlocker, ExitMeansClosing, PendingIsServed,
            active
<1>5. ASSUME NEW w \in Worker, blockif_thr(w) PROVE BlockInv'
    <2>1. UNCHANGED <<closing, canceling>> /\ worker[w].at = "woken" /\ blockif_dequeue(w, pendq)
        BY Zenon, <1>5 DEF blockif_thr
    <2>2. \A i \in 1 .. Len(pendq) : pendq[i].status = "BLOCK" =>
               \/ \E j \in 1 .. (i - 1) : pendq[j].block = pendq[i].off
               \/ \E v \in Worker \ {w} : in_flight(v) /\ worker[v].block = pendq[i].off
        BY Zenon, <1>0, <2>1 DEF BlockInv, BlockedHasBlocker
    <2>3. /\ pendq' \in Seq(Elem) /\ worker' \in [Worker -> Thread]
          /\ BlockedHasBlocker' /\ ExitMeansClosing' /\ PendingIsServed'
        BY Zenon, <1>0, <2>1, <2>2, DequeueStep
    <2> QED BY Zenon, <1>0, <2>1, <2>3 DEF BlockInv, BlockTypeOK, Elem, Thread
<1>6. ASSUME NEW w \in Worker, blockif_proc(w) \/ callback_returns(w) PROVE BlockInv'
    <2>1. PICK a \in {"callback", "complete"} : worker' = [worker EXCEPT ![w].at = a]
        BY Zenon, <1>6 DEF blockif_proc, callback_returns
    <2>2. UNCHANGED <<pendq, closing, canceling>> /\ in_flight(w)
        BY Zenon, <1>6 DEF blockif_proc, callback_returns
    <2>3. worker' \in [Worker -> Thread]
        BY Zenon, <1>0, <2>1 DEF Thread, At
    <2>4. \A v \in Worker : /\ worker'[v].block = worker[v].block
                            /\ worker'[v].at = IF v = w THEN a ELSE worker[v].at
        BY Zenon, <1>0, <2>1 DEF Thread
    <2>5. BlockedHasBlocker'
        BY <2>2, <2>4 DEF BlockInv, BlockedHasBlocker
    <2>6. ExitMeansClosing' /\ PendingIsServed'
        BY Zenon, <2>2, <2>4 DEF BlockInv, ExitMeansClosing, PendingIsServed, active
    <2> QED BY Zenon, <1>0, <2>2, <2>3, <2>5, <2>6 DEF BlockInv, BlockTypeOK, Elem, Thread
<1>7. ASSUME NEW w \in Worker, blockif_complete(w) PROVE BlockInv'
    <2> DEFINE b == worker[w].block
               q == unblocked(pendq, b)
    <2>1. UNCHANGED <<closing, canceling>> /\ worker[w].at = "complete" /\ blockif_dequeue(w, q)
        BY Zenon, <1>7 DEF blockif_complete
    <2>2. b \in Nat
        BY Zenon, <1>0 DEF Thread
    <2>3. /\ q \in Seq(Elem) /\ Len(q) = Len(pendq)
          /\ \A i \in 1 .. Len(pendq) :
                /\ q[i].off = pendq[i].off /\ q[i].block = pendq[i].block
                /\ q[i].status = IF pendq[i].off = b THEN "PEND" ELSE pendq[i].status
        BY <1>0, <2>2, UnblockedKeeps
    <2> HIDE DEF q
    <2>4. ASSUME NEW i \in 1 .. Len(q), q[i].status = "BLOCK"
          PROVE  \/ \E j \in 1 .. (i - 1) : q[j].block = q[i].off
                 \/ \E v \in Worker \ {w} : in_flight(v) /\ worker[v].block = q[i].off
        <3>1. pendq[i].status = "BLOCK" /\ pendq[i].off # b /\ q[i].off = pendq[i].off
            BY Zenon, <2>3, <2>4
        <3>2. CASE \E j \in 1 .. (i - 1) : pendq[j].block = pendq[i].off
            BY <1>0, <2>3, <3>1, <3>2
        <3>3. CASE \E v \in Worker : in_flight(v) /\ worker[v].block = pendq[i].off
            BY Zenon, <3>1, <3>3
        <3> QED BY Zenon, <1>0, <2>3, <3>1, <3>2, <3>3 DEF BlockInv, BlockedHasBlocker
    <2>5. /\ pendq' \in Seq(Elem) /\ worker' \in [Worker -> Thread]
          /\ BlockedHasBlocker' /\ ExitMeansClosing' /\ PendingIsServed'
        BY Zenon, <2>1, <2>3, <2>4, DequeueStep
    <2> QED BY Zenon, <1>0, <2>1, <2>5 DEF BlockInv, BlockTypeOK, Elem, Thread
<1>8. CASE blockif_close
    <2>1. /\ UNCHANGED <<pendq, canceling>> /\ closing' = TRUE
          /\ worker' = [w \in Worker |-> IF worker[w].at = "wait" THEN idle_thread("woken")
                                                                  ELSE worker[w]]
        BY Zenon, <1>8 DEF blockif_close
    <2>2. worker' \in [Worker -> Thread]
        BY Zenon, <1>0, <2>1 DEF idle_thread, Thread, At
    <2>3. \A w \in Worker : worker[w].at # "wait" => worker'[w] = worker[w]
        BY Zenon, <2>1
    <2>4. BlockedHasBlocker'
        BY Zenon, <2>1, <2>3 DEF BlockInv, BlockedHasBlocker
    <2>5. ExitMeansClosing' /\ PendingIsServed'
        BY Zenon, <2>1, <2>3 DEF BlockInv, ExitMeansClosing, PendingIsServed, active
    <2> QED BY Zenon, <1>0, <2>1, <2>2, <2>4, <2>5 DEF BlockInv, BlockTypeOK, Elem, Thread
<1>9. CASE UNCHANGED bvars
    BY Zenon, <1>9
       DEF bvars, BlockInv, BlockTypeOK, BlockedHasBlocker, ExitMeansClosing,
           PendingIsServed, active
<1> QED BY Zenon, <1>1, <1>2, <1>3, <1>4, <1>5, <1>6, <1>7, <1>8, <1>9 DEF BlockNext

(* For any number of threads, of requests and any length of the queue: no  *)
(* request is left queued with every thread of the pool asleep or gone     *)
(* (block_if.c's blockif_enqueue, blockif_complete, blockif_cancel and     *)
(* blockif_close).                                                         *)
THEOREM NoRequestLeft == BlockSpec => []PendingIsServed
<1>1. BlockInv => PendingIsServed
    BY Zenon DEF BlockInv
<1> QED BY BlockInit, BlockStep, <1>1, PTL DEF BlockSpec

(* A request that blockif_enqueue has marked BLOCK never waits for one     *)
(* that has already gone: the request it follows is ahead of it in the     *)
(* queue or in the hands of a thread.                                      *)
THEOREM BlockedIsReleased == BlockSpec => []BlockedHasBlocker
<1>1. BlockInv => BlockedHasBlocker
    BY Zenon DEF BlockInv
<1> QED BY BlockInit, BlockStep, <1>1, PTL DEF BlockSpec

-----------------------------------------------------------------------------
(* The controllers.                                                        *)


(* A thread that has an element has a request of the client.               *)
BusyHasRequest == \A w \in Worker : in_flight(w) => worker[w].req \in Req

(* The client makes requests only before the close or in a callback: the   *)
(* notification handler and the register writes are over by then, and a    *)
(* thread that holds the port's mutex is in its callback.                  *)
ClientInv ==
    /\ client \in {"virtio", "ahci"}
    /\ avail \in Seq(Req)
    /\ closing => notify = "idle"
    /\ ci \subseteq Req /\ pending \subseteq Req /\ ccs \in Nat /\ ccs < Slots
    /\ port_mtx.slots \subseteq Req
    /\ port_mtx.by \in Worker \cup {NULL, "write"}
    /\ port_mtx.by = "write" => ~closing
    /\ port_mtx.by \in Worker => worker[port_mtx.by].at = "callback"
    /\ client = "virtio" => port_mtx.by = NULL

DiskInv == BlockInv /\ BusyHasRequest /\ ClientInv

-----------------------------------------------------------------------------

(* blockif_dequeue gives a thread the request of the element it takes.     *)
LEMMA BusyStep == BlockInv /\ BusyHasRequest /\ [BlockNext]_bvars => BusyHasRequest'
<1> SUFFICES ASSUME BlockInv, BusyHasRequest, [BlockNext]_bvars PROVE BusyHasRequest'
    BY Zenon
<1> USE DEF in_flight
<1>0. pendq \in Seq(Elem) /\ worker \in [Worker -> Thread] /\ DOMAIN pendq = 1 .. Len(pendq)
    BY DEF BlockInv, BlockTypeOK, Elem, Thread
<1>1. ASSUME NEW w \in Worker, NEW q \in Seq(Elem), blockif_dequeue(w, q) PROVE BusyHasRequest'
    <2>1. CASE \E i \in DOMAIN q : worker' = [worker EXCEPT ![w] =
                [at |-> "busy", req |-> q[i].req, block |-> q[i].block]]
        <3>1. PICK i \in DOMAIN q : worker' = [worker EXCEPT ![w] =
                [at |-> "busy", req |-> q[i].req, block |-> q[i].block]]
            BY Zenon, <2>1
        <3>2. q[i] \in Elem
            BY <1>1
        <3>3. q[i].req \in Req
            BY Zenon, <3>2 DEF Elem
        <3> QED BY Zenon, <1>0, <3>1, <3>3 DEF BusyHasRequest
    <2>2. CASE \E a \in {"exit", "wait"} : worker' = [worker EXCEPT ![w] = idle_thread(a)]
        BY <1>0, <2>2 DEF BusyHasRequest, idle_thread
    <2> QED BY Zenon, <1>1, <2>1, <2>2 DEF blockif_dequeue
<1>2. CASE UNCHANGED worker
    BY Zenon, <1>2 DEF BusyHasRequest
<1>3. ASSUME NEW w \in Worker, worker[w].at = "wait", worker' = [worker EXCEPT ![w].at = "woken"]
      PROVE  BusyHasRequest'
    BY Zenon, <1>0, <1>3 DEF BusyHasRequest, Thread
<1>4. ASSUME NEW r \in Req, NEW off \in Offset, NEW block \in Offset \cup {flush_end},
             blockif_request(r, off, block)
      PROVE  BusyHasRequest'
    BY Zenon, <1>2, <1>3, <1>4 DEF blockif_request, blockif_enqueue, pthread_cond_signal
<1>5. ASSUME NEW r \in Req, cancel_queued(r) \/ cancel_busy(r) PROVE BusyHasRequest'
    BY Zenon, <1>2, <1>5 DEF cancel_queued, cancel_busy
<1>6. CASE cancel_returns
    BY Zenon, <1>2, <1>6 DEF cancel_returns
<1>7. ASSUME NEW w \in Worker, blockif_thr(w) PROVE BusyHasRequest'
    BY Zenon, <1>0, <1>1, <1>7 DEF blockif_thr
<1>8. ASSUME NEW w \in Worker, blockif_complete(w) PROVE BusyHasRequest'
    <2>1. worker[w].block \in Nat
        BY Zenon, <1>0 DEF Thread
    <2>2. unblocked(pendq, worker[w].block) \in Seq(Elem)
        BY Zenon, <1>0, <2>1, UnblockedKeeps
    <2> QED BY Zenon, <1>1, <1>8, <2>2 DEF blockif_complete
<1>9. ASSUME NEW w \in Worker, blockif_proc(w) \/ callback_returns(w) PROVE BusyHasRequest'
    <2>1. PICK a \in {"callback", "complete"} : worker' = [worker EXCEPT ![w].at = a]
        BY Zenon, <1>9 DEF blockif_proc, callback_returns
    <2>2. in_flight(w)
        BY Zenon, <1>9 DEF blockif_proc, callback_returns
    <2> QED BY Zenon, <1>0, <2>1, <2>2 DEF BusyHasRequest, Thread
<1>10. CASE blockif_close
    BY Zenon, <1>0, <1>10 DEF blockif_close, BusyHasRequest, idle_thread
<1>11. CASE UNCHANGED bvars
    BY Zenon, <1>2, <1>11 DEF bvars
<1> QED BY Zenon, <1>4, <1>5, <1>6, <1>7, <1>8, <1>9, <1>10, <1>11 DEF BlockNext

(* No step but the return of its callback takes a thread out of it.        *)
LEMMA CallbackStays ==
    ASSUME BlockInv, [BlockNext]_bvars, NEW w \in Worker, worker[w].at = "callback",
           ~callback_returns(w)
    PROVE  worker'[w].at = "callback"
<1>0. worker \in [Worker -> Thread]
    BY Zenon DEF BlockInv, BlockTypeOK, Thread
<1>1. ASSUME NEW v \in Worker, blockif_thr(v) \/ blockif_complete(v) PROVE worker'[w].at = "callback"
    BY Zenon, <1>0, <1>1 DEF blockif_thr, blockif_complete, blockif_dequeue
<1>2. ASSUME NEW v \in Worker, blockif_proc(v) \/ callback_returns(v) PROVE worker'[w].at = "callback"
    BY Zenon, <1>0, <1>2 DEF blockif_proc, callback_returns
<1>3. ASSUME NEW r, NEW off, NEW block, blockif_request(r, off, block)
      PROVE  worker'[w].at = "callback"
    BY Zenon, <1>0, <1>3 DEF blockif_request, blockif_enqueue, pthread_cond_signal
<1>4. CASE blockif_close
    BY Zenon, <1>0, <1>4 DEF blockif_close
<1>5. CASE UNCHANGED worker
    BY Zenon, <1>5
<1>6. ASSUME NEW r \in Req, cancel_queued(r) \/ cancel_busy(r) PROVE UNCHANGED worker
    BY Zenon, <1>6 DEF cancel_queued, cancel_busy
<1> QED BY Zenon, <1>1, <1>2, <1>3, <1>4, <1>5, <1>6 DEF BlockNext, bvars, cancel_returns

-----------------------------------------------------------------------------

(* A new disk.                                                             *)
LEMMA DiskInit == Init => DiskInv
<1> SUFFICES ASSUME Init PROVE DiskInv
    BY Zenon
<1>1. BlockInv
    BY Zenon, BlockInit DEF Init
<1>2. BusyHasRequest
    BY Zenon DEF Init, blockif_open, idle_thread, BusyHasRequest, in_flight
<1>3. ClientInv
    BY SlotsAssumption, DiskAssumption, BlockAssumption
       DEF Init, blockif_open, virtio_init, ahci_init, free_mtx, ClientInv
<1> QED BY Zenon, <1>1, <1>2, <1>3 DEF DiskInv

(* Every step of a disk is one of the backend's, with a client that keeps  *)
(* to its contract, or leaves the backend alone.                           *)
LEMMA DiskUsesBackend == DiskInv /\ [Next]_vars => [BlockNext]_bvars
<1> SUFFICES ASSUME DiskInv, [Next]_vars PROVE [BlockNext]_bvars
    BY Zenon
<1> USE DEF DiskInv
<1>1. ASSUME NEW w \in Worker, blockif_thread(w) PROVE BlockNext
    BY Zenon, <1>1 DEF blockif_thread, BlockNext
<1>2. ASSUME NEW r \in Req, NEW off \in Offset, NEW block \in Offset \cup {flush_end},
             closing => \E w \in Worker : worker[w].at = "callback", blockif_request(r, off, block)
      PROVE  BlockNext
    BY Zenon, <1>2 DEF BlockNext, may_request
<1>3. {0, 512, 1024} \subseteq Offset
    BY DiskAssumption
<1>4. ASSUME ahci_handle_port PROVE BlockNext \/ UNCHANGED bvars
    <2>1. PICK s \in waiting_slots : ahci_handle_slot(s)
        BY Zenon, <1>4 DEF ahci_handle_port
    <2>2. s \in Req
        BY Zenon, <2>1 DEF waiting_slots, ClientInv
    <2>3. closing => \E w \in Worker : worker[w].at = "callback"
        BY Zenon, <1>4 DEF ahci_handle_port, holds, ClientInv
    <2>4. CASE transfer(s)
        BY <1>2, <1>3, <2>2, <2>3, <2>4 DEF transfer
    <2> QED BY Zenon, <2>1, <2>4 DEF ahci_handle_slot
<1>5. ASSUME NEW w \in Worker, callback(w) PROVE BlockNext \/ UNCHANGED bvars
    <2>1. CASE virtio_blk_done(w)
        BY Zenon, <2>1 DEF virtio_blk_done
    <2>2. CASE done_ends(w) \/ cb_returns(w)
        BY Zenon, <2>2 DEF done_ends, cb_returns, BlockNext
    <2>3. CASE cb_continues(w)
        <3>1. worker[w].at = "callback" /\ blockif_request(worker[w].req, 512, 1024)
            BY <2>3 DEF cb_continues
        <3>2. worker[w].req \in Req
            BY <3>1 DEF BusyHasRequest, in_flight
        <3> QED BY <1>2, <1>3, <3>1, <3>2
    <2>4. ASSUME NEW err \in BOOLEAN, cb_ends(w, err) PROVE UNCHANGED bvars
        BY Zenon, <2>4 DEF cb_ends
    <2> QED BY Zenon, <1>4, <1>5, <2>1, <2>2, <2>3, <2>4 DEF callback
<1>6. ASSUME virtio_blk_notify PROVE BlockNext \/ UNCHANGED bvars
    <2>1. CASE virtio_blk_proc
        <3>1. Head(avail) \in Req /\ ~closing
            BY <2>1 DEF virtio_blk_proc, vq_has_descs, ClientInv
        <3>2. UNCHANGED bvars \/ submit(Head(avail))
            BY Zenon, <2>1 DEF virtio_blk_proc
        <3> QED BY <1>2, <1>3, <3>1, <3>2 DEF submit
    <2>2. CASE notify_entered \/ proc_answered \/ inner_loop \/ vq_clear_used_ring_flags \/ outer_loop
        BY Zenon, <2>2
           DEF notify_entered, proc_answered, inner_loop, vq_clear_used_ring_flags,
               outer_loop
    <2> QED BY Zenon, <1>6, <2>1, <2>2 DEF virtio_blk_notify
<1>7. ASSUME NEW s \in Req, stop_cancels(s) \/ stop_interrupts(s) PROVE BlockNext
    BY Zenon, <1>7 DEF stop_cancels, stop_interrupts, BlockNext
<1>8. CASE stop_goes_on
    BY Zenon, <1>8 DEF stop_goes_on, BlockNext
<1>9. CASE write_returns \/ stop_ends
    BY Zenon, <1>9 DEF write_returns, stop_ends
<1>10. CASE vm_loop
    BY Zenon, <1>4, <1>6, <1>7, <1>8, <1>9, <1>10 DEF vm_loop
<1>11. CASE guest_reacts
    BY Zenon, <1>11
       DEF guest_reacts, virtio_guest, guest_kicks, guest_interrupted, guest_enables,
           guest_stops, guest_starts
<1>12. CASE guest_asks
    BY Zenon, <1>12 DEF guest_asks, guest_posts, guest_issues, guest_stops, ahci_reset
<1>13. CASE deinit
    BY Zenon, <1>13 DEF deinit, BlockNext
<1>14. CASE UNCHANGED vars
    BY Zenon, <1>14 DEF vars
<1> QED BY Zenon, <1>1, <1>5, <1>10, <1>11, <1>12, <1>13, <1>14 DEF Next

(* Steps of the virtio device do not touch the port, and keep the handler  *)
(* out once the context is closing.                                        *)
LEMMA VirtioStep ==
    ASSUME DiskInv, client = "virtio", UNCHANGED <<avars, client>>,
           \/ virtio_blk_notify \/ virtio_guest
           \/ \E r \in Req, k \in Kinds : guest_posts(r, k)
           \/ \E w \in Worker : virtio_blk_done(w) \/ done_ends(w)
    PROVE  ClientInv'
<1> USE DEF DiskInv
<1>1. /\ port_mtx' = port_mtx /\ ci' = ci /\ pending' = pending /\ ccs' = ccs /\ client' = client
      /\ port_mtx.by = NULL
    BY Zenon DEF ClientInv, avars, registers
<1>2. port_mtx'.by = NULL /\ NULL \notin Worker /\ NULL # "write"
    BY <1>1, BlockAssumption, DiskAssumption
<1>3. avail' \in Seq(Req) /\ closing' = closing /\ (closing => notify' = "idle")
    <2>1. CASE virtio_blk_notify
        <3>1. CASE virtio_blk_proc
            <4>1. avail # << >> /\ avail' = Tail(avail) /\ ~closing
                BY Zenon, <3>1 DEF virtio_blk_proc, vq_has_descs, ClientInv
            <4>2. closing' = closing
                BY Zenon, <3>1 DEF virtio_blk_proc, submit, blockif_request, bvars
            <4> QED BY <4>1, <4>2 DEF ClientInv
        <3>2. CASE notify_entered \/ proc_answered \/ inner_loop \/ vq_clear_used_ring_flags \/ outer_loop
            BY Zenon, <3>2
               DEF notify_entered, proc_answered, inner_loop, vq_clear_used_ring_flags,
                   outer_loop,
                        ClientInv, bvars, ring
        <3> QED BY Zenon, <2>1, <3>1, <3>2 DEF virtio_blk_notify
    <2>2. CASE virtio_guest
        BY Zenon, <2>2
           DEF virtio_guest, guest_kicks, guest_interrupted, guest_enables, ClientInv,
               bvars
    <2>3. ASSUME NEW r \in Req, NEW k \in Kinds, guest_posts(r, k)
          PROVE  avail' \in Seq(Req) /\ closing' = closing /\ (closing => notify' = "idle")
        BY <2>3 DEF guest_posts, ClientInv, bvars
    <2>4. ASSUME NEW w \in Worker, virtio_blk_done(w) \/ done_ends(w)
          PROVE  avail' \in Seq(Req) /\ closing' = closing /\ (closing => notify' = "idle")
        BY Zenon, <2>4 DEF virtio_blk_done, done_ends, callback_returns, ClientInv, bvars
    <2> QED BY Zenon, <2>1, <2>2, <2>3, <2>4
<1> QED BY Zenon, <1>1, <1>2, <1>3 DEF ClientInv

(* What the callback of a command with more transfers does, wherever they  *)
(* are on the disk.                                                        *)
continues(w, r, off, block) ==
    /\ worker[w].at = "callback" /\ worker[w].req = r
    /\ port_mtx.by = NULL
    /\ port_mtx' = [by |-> w, does |-> "return", slots |-> {}]
    /\ command[r] = "long" /\ command' = [command EXCEPT ![r] = "last"]
    /\ blockif_request(r, off, block)
    /\ UNCHANGED <<cmd, busy, waitforclear, ci, sact, pending, ccs>>

LEMMA ContinuesSomewhere ==
    ASSUME NEW w \in Worker, BusyHasRequest, cb_continues(w)
    PROVE  \E r \in Req, off \in Nat, block \in Nat : continues(w, r, off, block)
<1>1. worker[w].req \in Req
    BY DEF BusyHasRequest, in_flight, cb_continues
<1>2. continues(w, worker[w].req, 512, 1024)
    BY DEF cb_continues, continues, registers
<1> QED BY <1>1, <1>2

(* Steps of the port: the mutex is taken by a register write, before the   *)
(* close, or by a thread in its callback, and given back before it         *)
(* returns.                                                                *)
LEMMA AhciStep ==
    ASSUME DiskInv, client = "ahci", UNCHANGED <<vvars, client>>, [BlockNext]_bvars,
           \/ ahci_handle_port \/ write_returns \/ stop_goes_on \/ stop_ends
           \/ guest_stops \/ guest_starts \/ ahci_reset
           \/ \E s \in Req : stop_cancels(s) \/ stop_interrupts(s)
           \/ \E s \in Req, c \in Command : guest_issues(s, c)
           \/ \E w \in Worker : \/ cb_continues(w) \/ cb_returns(w)
                                \/ \E err \in BOOLEAN : cb_ends(w, err)
    PROVE  ClientInv'
<1> USE DEF DiskInv
<1>0. /\ avail' = avail /\ notify' = notify /\ client' = client
      /\ "write" \notin Worker /\ NULL \notin Worker /\ NULL # "write"
      /\ Slots \in Nat \ {0} /\ Req = 0 .. (Slots - 1)
    BY BlockAssumption, DiskAssumption, SlotsAssumption DEF vvars, ring
<1>1. closing' = closing
    BY ZenonT(60)
       DEF ahci_handle_port, ahci_handle_slot, transfer, blockif_request, write_returns,
           stop_goes_on,
           cancel_returns, stop_ends, guest_stops, guest_starts, ahci_reset, stop_cancels, cancel_queued,
           stop_interrupts, cancel_busy, guest_issues, cb_continues, cb_returns, callback_returns, cb_ends, bvars
<1>2. ASSUME UNCHANGED port_mtx, ci' \subseteq Req, pending' \subseteq Req, ccs' \in Nat, ccs' < Slots,
             \A w \in Worker : ~callback_returns(w)
      PROVE  ClientInv'
    BY Zenon, <1>0, <1>1, <1>2, CallbackStays DEF ClientInv
<1>3. ASSUME port_mtx' = free_mtx, ci' \subseteq Req, pending' \subseteq Req, ccs' \in Nat, ccs' < Slots
      PROVE  ClientInv'
    BY Zenon, <1>0, <1>1, <1>3 DEF ClientInv, free_mtx
<1>4. ASSUME ~closing, port_mtx'.by = "write", port_mtx'.slots \subseteq Req,
             ci' \subseteq Req, pending' \subseteq Req, UNCHANGED ccs
      PROVE  ClientInv'
    BY Zenon, <1>0, <1>1, <1>4 DEF ClientInv
<1>5. ASSUME NEW w \in Worker, worker[w].at = "callback", ~callback_returns(w),
             port_mtx'.by = w, port_mtx'.slots = {},
             ci' \subseteq Req, pending' \subseteq Req, ccs' \in Nat, ccs' < Slots
      PROVE  ClientInv'
    BY Zenon, <1>0, <1>1, <1>5, CallbackStays DEF ClientInv
<1>R. ASSUME \/ UNCHANGED worker
             \/ \E v \in Worker : worker[v].at = "wait" /\ worker' = [worker EXCEPT ![v].at = "woken"]
      PROVE  \A w \in Worker : ~callback_returns(w)
    <2>1. worker \in [Worker -> Thread]
        BY Zenon DEF BlockInv, BlockTypeOK, Thread
    <2> QED BY <1>R, <2>1 DEF callback_returns, Thread
<1>6. CASE ahci_handle_port
    <2>1. PICK s \in waiting_slots : ahci_handle_slot(s) /\ ccs' = (s + 1) % Slots
        BY Zenon, <1>6 DEF ahci_handle_port
    <2>2. s \in Req /\ ccs' \in Nat /\ ccs' < Slots
        BY <1>0, <2>1 DEF waiting_slots, ClientInv
    <2>3. UNCHANGED port_mtx /\ ci' \subseteq Req /\ pending' \subseteq Req
        BY Zenon, <1>6, <2>1, <2>2 DEF ahci_handle_port, ahci_handle_slot, ClientInv
    <2>4. \/ UNCHANGED worker
          \/ \E v \in Worker : worker[v].at = "wait" /\ worker' = [worker EXCEPT ![v].at = "woken"]
        BY Zenon, <2>1 DEF ahci_handle_slot, transfer, blockif_request, blockif_enqueue,
                    pthread_cond_signal, bvars
    <2>5. \A w \in Worker : ~callback_returns(w)
        BY Zenon, <1>R, <2>4
    <2> QED BY Zenon, <1>2, <2>2, <2>3, <2>5
<1>7. CASE write_returns
    BY Zenon, <1>3, <1>7 DEF write_returns, registers, ClientInv
<1>8. CASE stop_goes_on
    <2>1. UNCHANGED <<port_mtx, ci, pending, ccs, worker>>
        BY Zenon, <1>8 DEF stop_goes_on, cancel_returns, avars, registers
    <2> QED BY Zenon, <1>0, <1>1, <2>1 DEF ClientInv
<1>9. CASE stop_ends
    <2>1. port_mtx' = free_mtx /\ pending' = pending
        BY Zenon, <1>9 DEF stop_ends
    <2>2. ci' \subseteq Req /\ ccs' \in Nat /\ ccs' < Slots
        <3>1. CASE ~cmd.st /\ pending = {}
            BY <1>0, <1>9, <3>1 DEF stop_ends, ahci_check_stopped
        <3>2. CASE cmd.st \/ pending # {}
            BY Zenon, <1>9, <3>2 DEF stop_ends, ahci_check_stopped, ClientInv
        <3> QED BY Zenon, <3>1, <3>2
    <2> QED BY Zenon, <1>3, <2>1, <2>2 DEF ClientInv
<1>10. CASE guest_stops
    BY Zenon, <1>4, <1>10 DEF guest_stops, ClientInv
<1>11. CASE guest_starts
    <2>1. /\ ~closing /\ port_mtx' = [by |-> "write", does |-> "issue", slots |-> {}]
          /\ UNCHANGED <<ci, pending, ccs>>
        BY Zenon, <1>11 DEF guest_starts
    <2>2. ci' \subseteq Req /\ pending' \subseteq Req
        BY Zenon, <2>1 DEF ClientInv
    <2>3. port_mtx'.by = "write" /\ port_mtx'.slots \subseteq Req
        BY Zenon, <2>1
    <2> QED BY Zenon, <1>4, <2>1, <2>2, <2>3
<1>12. CASE ahci_reset
    <2>1. UNCHANGED <<port_mtx, ci, pending, ccs, worker>>
        BY Zenon, <1>12 DEF ahci_reset, bvars
    <2> QED BY Zenon, <1>0, <1>1, <2>1 DEF ClientInv
<1>13. ASSUME NEW s \in Req, stop_cancels(s) \/ stop_interrupts(s) PROVE ClientInv'
    <2>1. /\ UNCHANGED <<ccs, worker>> /\ ci' \subseteq Req /\ pending' \subseteq Req
          /\ port_mtx' = [port_mtx EXCEPT !.slots = @ \ {s}]
        BY Zenon, <1>13
           DEF stop_cancels, cancel_queued, stop_interrupts, cancel_busy, registers,
               ClientInv
    <2>2. port_mtx'.by = port_mtx.by /\ port_mtx'.slots \subseteq Req
        BY <2>1 DEF ClientInv
    <2> QED BY Zenon, <1>0, <1>1, <2>1, <2>2 DEF ClientInv
<1>14. ASSUME NEW s \in Req, NEW c \in Command, guest_issues(s, c) PROVE ClientInv'
    BY Zenon, <1>4, <1>14 DEF guest_issues, ClientInv
<1>15. ASSUME NEW w \in Worker, cb_continues(w) PROVE ClientInv'
    <2>1. \/ UNCHANGED worker
          \/ \E v \in Worker : worker[v].at = "wait" /\ worker' = [worker EXCEPT ![v].at = "woken"]
        BY <1>15 DEF cb_continues, blockif_request, blockif_enqueue, pthread_cond_signal
    <2>2. ~callback_returns(w)
        BY Zenon, <1>R, <2>1
    <2>3. worker[w].at = "callback" /\ port_mtx'.by = w /\ port_mtx'.slots = {} /\ UNCHANGED registers
        BY <1>15 DEF cb_continues
    <2> QED BY Zenon, <1>5, <2>2, <2>3 DEF registers, ClientInv
<1>16. ASSUME NEW w \in Worker, cb_returns(w) PROVE ClientInv'
    BY Zenon, <1>3, <1>16 DEF cb_returns, registers, ClientInv
<1>17. ASSUME NEW w \in Worker, NEW err \in BOOLEAN, cb_ends(w, err) PROVE ClientInv'
    <2>1. worker[w].at = "callback" /\ port_mtx'.by = w /\ port_mtx'.slots = {} /\ pending' \subseteq Req
        BY Zenon, <1>17 DEF cb_ends, ClientInv
    <2>2. UNCHANGED worker
        BY Zenon, <1>17 DEF cb_ends, bvars
    <2>3. ~callback_returns(w)
        BY Zenon, <1>R, <2>2
    <2>4. ci' \subseteq Req /\ ccs' \in Nat /\ ccs' < Slots
        <3>1. CASE ~cmd.st /\ pending \ {worker[w].req} = {}
            BY <1>0, <1>17, <3>1 DEF cb_ends, ahci_check_stopped
        <3>2. CASE cmd.st \/ pending \ {worker[w].req} # {}
            BY Zenon, <1>17, <3>2 DEF cb_ends, ahci_check_stopped, ClientInv
        <3> QED BY Zenon, <3>1, <3>2
    <2> QED BY Zenon, <1>5, <2>1, <2>3, <2>4
<1> QED BY Zenon, <1>6, <1>7, <1>8, <1>9, <1>10, <1>11, <1>12, <1>13, <1>14, <1>15, <1>16, <1>17

(* Every step of a disk keeps the invariant.                               *)
LEMMA DiskStep == DiskInv /\ [Next]_vars => DiskInv'
<1> SUFFICES ASSUME DiskInv, [Next]_vars PROVE DiskInv'
    BY Zenon
<1>1. [BlockNext]_bvars
    BY Zenon, DiskUsesBackend
<1>2. BlockInv' /\ BusyHasRequest'
    BY Zenon, <1>1, BlockStep, BusyStep DEF DiskInv
<1>3. ASSUME NEW w \in Worker, blockif_thread(w), UNCHANGED client PROVE ClientInv'
    <2>1. UNCHANGED <<avail, notify, ci, pending, ccs, port_mtx, client, closing>>
        BY Zenon, <1>3
           DEF blockif_thread, vvars, ring, avars, registers, blockif_thr, blockif_proc,
               blockif_complete
    <2>2. ASSUME NEW v \in Worker, worker[v].at = "callback" PROVE ~callback_returns(v)
        <3>1. worker \in [Worker -> Thread]
            BY Zenon DEF DiskInv, BlockInv, BlockTypeOK, Thread
        <3>2. worker[w].at # "callback" /\ worker'[v] = worker[v]
            BY Zenon, <1>3, <2>2, <3>1
               DEF blockif_thread, blockif_thr, blockif_proc, blockif_complete,
                   blockif_dequeue
        <3> QED BY Zenon, <2>2, <3>1, <3>2 DEF callback_returns, Thread
    <2> QED BY Zenon, <1>1, <2>1, <2>2, CallbackStays DEF DiskInv, ClientInv
<1>4. ASSUME NEW w \in Worker, callback(w), UNCHANGED client PROVE ClientInv'
    BY Zenon, <1>1, <1>4, VirtioStep, AhciStep DEF callback
<1>5. ASSUME vm_loop \/ guest_reacts \/ guest_asks, UNCHANGED client PROVE ClientInv'
    BY Zenon, <1>1, <1>5, VirtioStep, AhciStep DEF vm_loop, guest_reacts, guest_asks
<1>6. ASSUME deinit, UNCHANGED client PROVE ClientInv'
    <2>1. /\ UNCHANGED <<avail, notify, ci, pending, ccs, port_mtx, client>>
          /\ notify = "idle" /\ port_mtx.by # "write" /\ blockif_close
        BY Zenon, <1>6 DEF deinit, vvars, ring, avars, registers
    <2>2. \A v \in Worker : worker[v].at = "callback" => worker'[v].at = "callback"
        BY Zenon, <2>1 DEF blockif_close
    <2> QED BY Zenon, <2>1, <2>2 DEF DiskInv, ClientInv
<1>7. ASSUME UNCHANGED vars PROVE ClientInv'
    <2>1. UNCHANGED <<avail, notify, ci, pending, ccs, port_mtx, client, closing, worker>>
        BY Zenon, <1>7 DEF vars, bvars, vvars, ring, avars, registers
    <2> QED BY Zenon, <2>1 DEF DiskInv, ClientInv
<1>8. ClientInv'
    BY Zenon, <1>3, <1>4, <1>5, <1>6, <1>7 DEF Next
<1> QED BY Zenon, <1>2, <1>8 DEF DiskInv

(* A disk, with either controller, implements the backend with its most    *)
(* general client: also while virtio_blk_deinit or pci_ahci_deinit closes  *)
(* the context, requests are made only where blockif_close allows for      *)
(* them.                                                                   *)
THEOREM DiskImplementsBackend == Spec => BlockSpec
<1>1. Init => blockif_open
    BY Zenon DEF Init
<1> QED BY DiskInit, DiskStep, DiskUsesBackend, <1>1, PTL DEF Spec, BlockSpec

(* So no request of a disk is left queued with every thread of the backend *)
(* asleep or gone, for any number of threads, slots and virtqueue entries. *)
THEOREM DiskIsServed == Spec => []PendingIsServed
<1> QED BY DiskImplementsBackend, NoRequestLeft, PTL

-----------------------------------------------------------------------------
(* Who has a request: the guest, the device or the backend.                *)

(* The thread w has a request that its client has not taken back: it is at *)
(* the I/O, or waits in the callback for the client's mutex.               *)
serving(w) ==
    \/ worker[w].at = "busy"
    \/ worker[w].at = "callback" /\ w \notin {blk_mtx, port_mtx.by}

with_backend(r) == is_queued(r) \/ \E w \in Worker : serving(w) /\ worker[w].req = r

(* The backend has every request once at most.                             *)
OnceInBackend ==
    /\ \A i, j \in DOMAIN pendq : pendq[i].req = pendq[j].req => i = j
    /\ \A i \in DOMAIN pendq, w \in Worker : serving(w) => worker[w].req # pendq[i].req
    /\ \A v, w \in Worker :
           serving(v) /\ serving(w) /\ worker[v].req = worker[w].req => v = w

(* Who holds the mutexes: a thread does so in its callback only, the       *)
(* notification handler all the way, and a stop is a register write.       *)
HolderInv ==
    /\ blk_mtx \in Worker \cup {NULL, "notify"}
    /\ blk_mtx \in Worker => worker[blk_mtx].at = "callback"
    /\ notify # "idle" => blk_mtx = "notify"
    /\ client = "ahci" => blk_mtx = NULL
    /\ port_mtx.by # NULL /\ port_mtx.does = "stop" => port_mtx.by = "write"
    /\ port_mtx.slots \subseteq pending

(* Virtio: what the backend has and what it is still to get was posted and *)
(* is not used, and these are different chains.                            *)
ChainInv ==
    client = "virtio" =>
        /\ used \subseteq posted
        /\ \A i, j \in DOMAIN avail : avail[i] = avail[j] => i = j
        /\ \A i \in DOMAIN avail : avail[i] \in posted \ used /\ ~with_backend(avail[i])
        /\ \A r \in Req : with_backend(r) => r \in posted \ used

(* AHCI: what the backend has is in flight (pending), a slot in flight has *)
(* its bit in PxSACT or PxCI, and a port that is not running has none.     *)
SlotInv ==
    client = "ahci" =>
        /\ \A r \in Req : with_backend(r) => r \in pending
        /\ \A s \in pending : s \in IF ncq(s) THEN sact ELSE ci
        /\ \A s \in ci : ncq(s) => s \in sact
        /\ ~cmd.cr => ~cmd.st /\ pending = {} /\ ci = {}
        /\ cmd \in [st : BOOLEAN, cr : BOOLEAN] /\ DOMAIN command = Req

OwnInv == HolderInv /\ OnceInBackend /\ ChainInv /\ SlotInv

(* A step that leaves the requests of the queue as they are, and in which  *)
(* no thread begins to serve a request.                                    *)
LEMMA BackendRests ==
    ASSUME OnceInBackend, DOMAIN pendq' = DOMAIN pendq,
           \A i \in DOMAIN pendq : pendq'[i].req = pendq[i].req,
           \A w \in Worker : serving(w)' => serving(w) /\ worker'[w].req = worker[w].req
    PROVE  OnceInBackend' /\ \A r : with_backend(r)' => with_backend(r)
<1>1. \A i, j \in DOMAIN pendq' : pendq'[i].req = pendq'[j].req => i = j
    BY Zenon DEF OnceInBackend
<1>2. \A i \in DOMAIN pendq', w \in Worker : serving(w)' => worker'[w].req # pendq'[i].req
    BY Zenon DEF OnceInBackend
<1>3. \A v, w \in Worker :
           serving(v)' /\ serving(w)' /\ worker'[v].req = worker'[w].req => v = w
    BY Zenon DEF OnceInBackend
<1> QED BY Zenon, <1>1, <1>2, <1>3 DEF OnceInBackend, with_backend, is_queued

(* blockif_request of something the backend does not have.                 *)
LEMMA RequestAdds ==
    ASSUME DiskInv, OnceInBackend, NEW r \in Req, NEW off \in Nat, NEW block \in Nat,
           blockif_request(r, off, block), ~is_queued(r),
           \A w \in Worker : serving(w)' =>
               serving(w) /\ worker'[w].req = worker[w].req /\ worker[w].req # r
    PROVE  OnceInBackend' /\ \A s : with_backend(s)' => with_backend(s) \/ s = r
<1>0. pendq \in Seq(Elem)
    BY Zenon DEF DiskInv, BlockInv, BlockTypeOK, Elem
<1>1. CASE UNCHANGED pendq
    BY Zenon, <1>1, BackendRests
<1>2. ASSUME NEW e \in Elem, e.req = r, pendq' = Append(pendq, e)
      PROVE  OnceInBackend' /\ \A s : with_backend(s)' => with_backend(s) \/ s = r
    <2>1. /\ DOMAIN pendq = 1 .. Len(pendq) /\ DOMAIN pendq' = 1 .. (Len(pendq) + 1)
          /\ pendq'[Len(pendq) + 1] = e
          /\ \A i \in 1 .. Len(pendq) : pendq'[i] = pendq[i]
        BY <1>0, <1>2
    <2>2. \A i \in 1 .. Len(pendq) : pendq[i].req # r
        BY Zenon, <2>1 DEF is_queued
    <2>0. Len(pendq) \in Nat
        BY <1>0
    <2>3. \A i \in DOMAIN pendq' :
              \/ i = Len(pendq) + 1 /\ pendq'[i].req = r
              \/ i \in DOMAIN pendq /\ pendq'[i].req = pendq[i].req
        BY <2>0, <2>1, <1>2
    <2>4. \A i, j \in DOMAIN pendq' : pendq'[i].req = pendq'[j].req => i = j
        <3>1. \A i, j \in DOMAIN pendq : pendq[i].req = pendq[j].req => i = j
            BY Zenon DEF OnceInBackend
        <3>2. \A i \in DOMAIN pendq : pendq[i].req # r
            BY Zenon, <2>1, <2>2
        <3> QED BY Zenon, <2>3, <3>1, <3>2
    <2>5. \A i \in DOMAIN pendq', w \in Worker : serving(w)' => worker'[w].req # pendq'[i].req
        BY <2>1, <2>3 DEF OnceInBackend
    <2>6. \A v, w \in Worker :
               serving(v)' /\ serving(w)' /\ worker'[v].req = worker'[w].req => v = w
        BY Zenon DEF OnceInBackend
    <2>7. \A s : is_queued(s)' => is_queued(s) \/ s = r
        BY Zenon, <2>3 DEF is_queued
    <2> QED BY Zenon, <2>4, <2>5, <2>6, <2>7 DEF OnceInBackend, with_backend
<1> DEFINE e0 == [req |-> r, off |-> off, block |-> block,
                  status |-> IF follows(off) THEN "BLOCK" ELSE "PEND"]
<1>3. e0 \in Elem /\ e0.req = r
    BY Zenon DEF Elem
<1>4. UNCHANGED pendq \/ pendq' = Append(pendq, e0)
    BY Zenon DEF blockif_request, blockif_enqueue
<1> QED BY Zenon, <1>1, <1>2, <1>3, <1>4

(* The element i0 of the queue is taken off, by a thread w0 that serves it *)
(* from then on, or by blockif_cancel (w0 is then no thread).              *)
removes(i0, w0) ==
    /\ pendq \in Seq(Elem) /\ pendq' \in Seq(Elem)
    /\ i0 \in 1 .. Len(pendq) /\ Len(pendq') = Len(pendq) - 1
    /\ \A i \in 1 .. (Len(pendq) - 1) :
          pendq'[i].req = IF i < i0 THEN pendq[i].req ELSE pendq[i + 1].req
    /\ \A w \in Worker : serving(w)' =>
          IF w = w0 THEN worker'[w].req = pendq[i0].req
          ELSE serving(w) /\ worker'[w].req = worker[w].req

(* It goes from one place of the backend to another, or out of it.         *)
LEMMA RemovalTakes ==
    ASSUME OnceInBackend, NEW i0, NEW w0, removes(i0, w0)
    PROVE  OnceInBackend' /\ \A r : with_backend(r)' => with_backend(r)
<1> DEFINE f == [i \in 1 .. (Len(pendq) - 1) |-> IF i < i0 THEN i ELSE i + 1]
<1>1. /\ DOMAIN pendq' = 1 .. (Len(pendq) - 1) /\ DOMAIN pendq = 1 .. Len(pendq)
      /\ Len(pendq) \in Nat /\ i0 \in 1 .. Len(pendq)
    <2>1. /\ pendq \in Seq(Elem) /\ pendq' \in Seq(Elem)
          /\ i0 \in 1 .. Len(pendq) /\ Len(pendq') = Len(pendq) - 1
        BY Zenon DEF removes
    <2> QED BY <2>1
<1>2. f \in [DOMAIN pendq' -> DOMAIN pendq]
    BY <1>1
<1>3. \A i, j \in DOMAIN pendq' : f[i] = f[j] => i = j
    BY <1>1
<1>4. \A i \in DOMAIN pendq' : pendq'[i].req = pendq[f[i]].req
    BY Zenon, <1>1 DEF removes
<1>5. \A i \in DOMAIN pendq' : f[i] # i0
    BY <1>1
<1> HIDE DEF f
<1>6. \A w \in Worker : serving(w)' /\ w # w0 => serving(w) /\ worker'[w].req = worker[w].req
    BY Zenon DEF removes
<1>7. i0 \in DOMAIN pendq /\ (w0 \in Worker /\ serving(w0)' => worker'[w0].req = pendq[i0].req)
    BY Zenon, <1>1 DEF removes
<1>8. \A i, j \in DOMAIN pendq' : pendq'[i].req = pendq'[j].req => i = j
    BY <1>2, <1>3, <1>4 DEF OnceInBackend
<1>9. \A i \in DOMAIN pendq', w \in Worker : serving(w)' => worker'[w].req # pendq'[i].req
    <2>1. ASSUME NEW i \in DOMAIN pendq', NEW w \in Worker, serving(w)'
          PROVE  worker'[w].req # pendq'[i].req
        <3>1. f[i] \in DOMAIN pendq /\ pendq'[i].req = pendq[f[i]].req /\ f[i] # i0
            BY Zenon, <1>2, <1>4, <1>5
        <3>2. CASE w = w0
            BY Zenon, <1>7, <2>1, <3>1, <3>2 DEF OnceInBackend
        <3>3. CASE w # w0
            BY <1>6, <2>1, <3>1, <3>3 DEF OnceInBackend
        <3> QED BY Zenon, <3>2, <3>3
    <2> QED BY Zenon, <2>1
<1>10. \A v, w \in Worker :
           serving(v)' /\ serving(w)' /\ worker'[v].req = worker'[w].req => v = w
    BY <1>6, <1>7 DEF OnceInBackend
<1>11. OnceInBackend'
    BY Zenon, <1>8, <1>9, <1>10 DEF OnceInBackend
<1>12. ASSUME NEW r, with_backend(r)' PROVE with_backend(r)
    <2>1. CASE is_queued(r)'
        BY Zenon, <1>2, <1>4, <2>1 DEF is_queued, with_backend
    <2>2. ASSUME NEW w \in Worker, serving(w)', worker'[w].req = r PROVE with_backend(r)
        BY Zenon, <1>6, <1>7, <2>2 DEF is_queued, with_backend
    <2> QED BY Zenon, <1>12, <2>1, <2>2 DEF with_backend
<1> QED BY Zenon, <1>11, <1>12

(* The threads of the backend: taking a request, doing its I/O, and going  *)
(* on to the next one leave a request where it was or with one thread.     *)
LEMMA ThreadServes ==
    ASSUME DiskInv, HolderInv, OnceInBackend, NEW w \in Worker,
           blockif_thr(w) \/ blockif_proc(w) \/ blockif_complete(w), UNCHANGED <<blk_mtx, port_mtx>>
    PROVE  OnceInBackend' /\ \A r : with_backend(r)' => with_backend(r)
<1>0. pendq \in Seq(Elem) /\ worker \in [Worker -> Thread]
    BY Zenon DEF DiskInv, BlockInv, BlockTypeOK, Elem, Thread
<1>1. ASSUME NEW q \in Seq(Elem), Len(q) = Len(pendq),
             \A i \in 1 .. Len(pendq) : q[i].req = pendq[i].req,
             worker[w].at \in {"woken", "complete"}, blockif_dequeue(w, q)
      PROVE  OnceInBackend' /\ \A r : with_backend(r)' => with_backend(r)
    <2>1. ASSUME NEW i \in DOMAIN q, pendq' = TAILQ_REMOVE(q, i),
                 worker' = [worker EXCEPT ![w] =
                    [at |-> "busy", req |-> q[i].req, block |-> q[i].block]]
          PROVE  OnceInBackend' /\ \A r : with_backend(r)' => with_backend(r)
        <3>1. i \in 1 .. Len(q)
            BY <1>1, <2>1
        <3>2. /\ pendq' \in Seq(Elem) /\ Len(pendq') = Len(q) - 1
              /\ \A j \in 1 .. (Len(q) - 1) : pendq'[j] = IF j < i THEN q[j] ELSE q[j + 1]
            BY Zenon, <2>1, <3>1, RemovalMoves
        <3>3. \A j \in 1 .. (Len(q) - 1) : pendq'[j].req = IF j < i THEN q[j].req ELSE q[j + 1].req
            BY Zenon, <3>2
        <3>4. \A v \in Worker : serving(v)' =>
                  IF v = w THEN worker'[v].req = q[i].req
                  ELSE serving(v) /\ worker'[v].req = worker[v].req
            BY Zenon, <1>0, <2>1 DEF serving
        <3>5. /\ Len(pendq) \in Nat /\ q[i].req = pendq[i].req
              /\ \A j \in 1 .. (Len(pendq) - 1) :
                    pendq'[j].req = IF j < i THEN pendq[j].req ELSE pendq[j + 1].req
            <4>1. Len(pendq) \in Nat /\ Len(q) = Len(pendq)
                BY <1>0, <1>1
            <4>2. q[i].req = pendq[i].req
                BY Zenon, <1>1, <3>1, <4>1
            <4>3. \A j \in 1 .. (Len(pendq) - 1) :
                      q[j].req = pendq[j].req /\ q[j + 1].req = pendq[j + 1].req
                <5> TAKE j \in 1 .. (Len(pendq) - 1)
                <5>1. j \in 1 .. Len(pendq) /\ j + 1 \in 1 .. Len(pendq)
                    BY <4>1
                <5> QED BY Zenon, <1>1, <4>1, <5>1
            <4> QED BY Zenon, <3>3, <4>1, <4>2, <4>3
        <3>6. removes(i, w)
            BY Zenon, <1>0, <1>1, <3>1, <3>2, <3>4, <3>5 DEF removes
        <3> QED BY Zenon, <3>6, RemovalTakes
    <2>2. ASSUME NEW a \in {"exit", "wait"}, pendq' = q, worker' = [worker EXCEPT ![w] = idle_thread(a)]
          PROVE  OnceInBackend' /\ \A r : with_backend(r)' => with_backend(r)
        <3>1. DOMAIN pendq' = DOMAIN pendq /\ \A i \in DOMAIN pendq : pendq'[i].req = pendq[i].req
            BY SMTT(60), <1>0, <1>1, <2>2
        <3>2. \A v \in Worker : serving(v)' => serving(v) /\ worker'[v].req = worker[v].req
            BY Zenon, <1>0, <2>2 DEF serving, idle_thread
        <3> QED BY Zenon, <3>1, <3>2, BackendRests
    <2> QED BY Zenon, <1>1, <2>1, <2>2 DEF blockif_dequeue
<1>2. CASE blockif_thr(w)
    BY Zenon, <1>0, <1>1, <1>2 DEF blockif_thr
<1>3. CASE blockif_complete(w)
    <2>1. worker[w].block \in Nat
        BY Zenon, <1>0 DEF Thread
    <2> DEFINE q == unblocked(pendq, worker[w].block)
    <2>2. q \in Seq(Elem) /\ Len(q) = Len(pendq) /\ \A i \in 1 .. Len(pendq) : q[i].req = pendq[i].req
        BY ZenonT(60), <1>0, <2>1, UnblockedKeeps
    <2>3. blockif_dequeue(w, q) /\ worker[w].at = "complete"
        BY Zenon, <1>3 DEF blockif_complete
    <2> HIDE DEF q
    <2> QED BY Zenon, <1>1, <2>2, <2>3
<1>4. CASE blockif_proc(w)
    <2>1. UNCHANGED pendq
        BY Zenon, <1>4 DEF blockif_proc
    <2>2. \A v \in Worker : serving(v)' => serving(v) /\ worker'[v].req = worker[v].req
        BY Zenon, <1>0, <1>4 DEF blockif_proc, serving, Thread
    <2> QED BY Zenon, <2>1, <2>2, BackendRests
<1> QED BY Zenon, <1>2, <1>3, <1>4

(* blockif_cancel of a queued request: the backend does not have it after. *)
LEMMA CancelRemoves ==
    ASSUME DiskInv, OnceInBackend, NEW r \in Req, cancel_queued(r), UNCHANGED <<blk_mtx, port_mtx.by>>
    PROVE  OnceInBackend' /\ \A s : with_backend(s)' => with_backend(s) /\ s # r
<1>0. pendq \in Seq(Elem) /\ UNCHANGED worker
    BY Zenon DEF DiskInv, BlockInv, BlockTypeOK, Elem, cancel_queued
<1>1. PICK i \in DOMAIN pendq : /\ pendq[i].req = r
                                /\ pendq' = unblocked(TAILQ_REMOVE(pendq, i), pendq[i].block)
    BY Zenon DEF cancel_queued, first_of
<1>2. i \in 1 .. Len(pendq) /\ pendq[i] \in Elem
    BY <1>0, <1>1
<1>3. pendq[i].block \in Nat
    BY Zenon, <1>2 DEF Elem
<1> DEFINE q == TAILQ_REMOVE(pendq, i)
<1>4. /\ q \in Seq(Elem) /\ Len(q) = Len(pendq) - 1
      /\ \A j \in 1 .. (Len(pendq) - 1) : q[j] = IF j < i THEN pendq[j] ELSE pendq[j + 1]
    BY Zenon, <1>0, <1>2, RemovalMoves
<1> HIDE DEF q
<1>5. /\ pendq' \in Seq(Elem) /\ Len(pendq') = Len(q)
      /\ \A j \in 1 .. Len(q) : pendq'[j].req = q[j].req
    BY Zenon, <1>1, <1>3, <1>4, UnblockedKeeps DEF q
<1>6. \A j \in 1 .. (Len(pendq) - 1) :
          pendq'[j].req = IF j < i THEN pendq[j].req ELSE pendq[j + 1].req
    BY Zenon, <1>4, <1>5
<1>7. \A v \in Worker : serving(v)' => serving(v) /\ worker'[v].req = worker[v].req
    BY Zenon, <1>0 DEF serving
<1>8. Len(pendq') = Len(pendq) - 1
    BY Zenon, <1>4, <1>5
<1>N. \A v \in Worker : serving(v)' =>
          IF v = NULL THEN worker'[v].req = pendq[i].req
          ELSE serving(v) /\ worker'[v].req = worker[v].req
    BY Zenon, <1>7, BlockAssumption
<1>9. OnceInBackend' /\ \A s : with_backend(s)' => with_backend(s)
    <2>1. removes(i, NULL)
        BY Zenon, <1>0, <1>2, <1>5, <1>6, <1>8, <1>N DEF removes
    <2> QED BY Zenon, <2>1, RemovalTakes
<1>10. ~with_backend(r)'
    <2>0. Len(pendq) \in Nat /\ DOMAIN pendq = 1 .. Len(pendq) /\ DOMAIN pendq' = 1 .. (Len(pendq) - 1)
        BY <1>0, <1>4, <1>5
    <2>1. ASSUME NEW j \in DOMAIN pendq' PROVE pendq'[j].req # r
        <3>1. CASE j < i
            <4>1. pendq'[j].req = pendq[j].req /\ j \in DOMAIN pendq /\ j # i
                BY <1>2, <1>6, <2>0, <3>1
            <4> QED BY Zenon, <1>1, <4>1 DEF OnceInBackend
        <3>2. CASE ~(j < i)
            <4>1. j \in 1 .. (Len(pendq) - 1) /\ j + 1 \in DOMAIN pendq /\ j + 1 # i
                BY <1>2, <2>0, <3>2
            <4>2. pendq'[j].req = pendq[j + 1].req
                BY Zenon, <1>6, <3>2, <4>1
            <4> QED BY Zenon, <1>1, <4>1, <4>2 DEF OnceInBackend
        <3> QED BY Zenon, <3>1, <3>2
    <2>2. \A v \in Worker : serving(v)' => worker'[v].req # r
        BY Zenon, <1>1, <1>7 DEF OnceInBackend
    <2> QED BY Zenon, <2>1, <2>2 DEF with_backend, is_queued
<1> QED BY Zenon, <1>9, <1>10

-----------------------------------------------------------------------------

(* A new disk.                                                             *)
LEMMA OwnInit == Init => OwnInv
<1> SUFFICES ASSUME Init PROVE OwnInv
    BY Zenon
<1>1. \A w \in Worker : ~serving(w)
    BY Zenon DEF Init, blockif_open, idle_thread, serving
<1>2. DOMAIN pendq = {} /\ \A r : ~is_queued(r)
    BY DEF Init, blockif_open, is_queued
<1>3. HolderInv
    BY BlockAssumption, DiskAssumption DEF Init, virtio_init, ahci_init, free_mtx, HolderInv
<1>4. OnceInBackend
    BY Zenon, <1>1, <1>2 DEF OnceInBackend
<1>5. ChainInv
    BY <1>1, <1>2 DEF Init, virtio_init, ChainInv, with_backend
<1>6. SlotInv
    BY Zenon, <1>1, <1>2 DEF Init, ahci_init, SlotInv, with_backend
<1> QED BY Zenon, <1>3, <1>4, <1>5, <1>6 DEF OwnInv

(* Steps of the virtio device: a chain is on its way to the backend, with  *)
(* it, or on the used ring.                                                *)
LEMMA VirtioOwns ==
    ASSUME DiskInv, OwnInv, client = "virtio", UNCHANGED <<avars, client>>,
           \/ virtio_blk_notify \/ virtio_guest
           \/ \E r \in Req, k \in Kinds : guest_posts(r, k)
           \/ \E w \in Worker : virtio_blk_done(w) \/ done_ends(w)
    PROVE  OwnInv'
<1> USE DEF OwnInv
<1>0. /\ UNCHANGED <<port_mtx, pending, client>> /\ port_mtx.by = NULL
      /\ worker \in [Worker -> Thread] /\ avail \in Seq(Req)
      /\ NULL \notin Worker /\ "notify" \notin Worker /\ NULL # "notify"
    <2>1. UNCHANGED <<port_mtx, pending, client>>
        BY Zenon DEF avars, registers
    <2>2. worker \in [Worker -> Thread]
        BY Zenon DEF DiskInv, BlockInv, BlockTypeOK, Thread
    <2>3. port_mtx.by = NULL /\ avail \in Seq(Req)
        BY Zenon DEF DiskInv, ClientInv
    <2>4. NULL \notin Worker /\ "notify" \notin Worker /\ NULL # "notify"
        BY BlockAssumption, DiskAssumption
    <2> QED BY Zenon, <2>1, <2>2, <2>3, <2>4
<1>S. SlotInv'
    BY Zenon, <1>0 DEF SlotInv
<1>H. ASSUME blk_mtx' \in Worker \cup {NULL, "notify"},
             blk_mtx' \in Worker => worker'[blk_mtx'].at = "callback",
             notify' # "idle" => blk_mtx' = "notify"
      PROVE  HolderInv'
    BY Zenon, <1>0, <1>H DEF HolderInv
<1>R. ASSUME UNCHANGED <<pendq, worker>>, \A w \in Worker : w = blk_mtx => w = blk_mtx'
      PROVE  OnceInBackend' /\ \A r : with_backend(r)' => with_backend(r)
    <2>1. \A w \in Worker : serving(w)' => serving(w) /\ worker'[w].req = worker[w].req
        BY Zenon, <1>0, <1>R DEF serving
    <2> QED BY Zenon, <1>R, <2>1, BackendRests
<1>C. ASSUME UNCHANGED <<avail, used, posted>>, \A r : with_backend(r)' => with_backend(r)
      PROVE  ChainInv'
    BY Zenon, <1>0, <1>C DEF ChainInv
<1>1. CASE virtio_blk_proc
    <2> DEFINE h == Head(avail)
    <2>1. /\ notify = "proc" /\ avail # << >> /\ avail' = Tail(avail)
          /\ notify' # "idle" /\ UNCHANGED <<blk_mtx, posted>>
        BY Zenon, <1>1 DEF virtio_blk_proc, vq_has_descs, guest
    <2>2. h = avail[1] /\ h \in Req /\ 1 \in DOMAIN avail
        BY <1>0, <2>1
    <2>3. /\ DOMAIN avail' = 1 .. (Len(avail) - 1) /\ DOMAIN avail = 1 .. Len(avail)
          /\ \A i \in DOMAIN avail' : avail'[i] = avail[i + 1]
          /\ Len(avail) \in Nat
        BY <1>0, <2>1
    <2>4. \A i \in DOMAIN avail' : i + 1 \in DOMAIN avail /\ i + 1 # 1 /\ i \in Nat
        BY <2>3
    <2> HIDE DEF h
    <2>5. h \in posted \ used /\ ~with_backend(h) /\ used \subseteq posted
        BY Zenon, <1>0, <2>2 DEF ChainInv
    <2>6. /\ \A i, j \in DOMAIN avail' : avail'[i] = avail'[j] => i = j
          /\ \A i \in DOMAIN avail' : /\ avail'[i] \in posted \ used /\ avail'[i] # h
                                      /\ ~with_backend(avail'[i])
        <3>1. \A i, j \in DOMAIN avail : avail[i] = avail[j] => i = j
            BY Zenon DEF ChainInv
        <3>2. \A i, j \in DOMAIN avail' : avail[i + 1] = avail[j + 1] => i = j
            BY <2>4, <3>1
        <3>3. \A i \in DOMAIN avail' : avail[i + 1] # h
            BY Zenon, <2>2, <2>4, <3>1
        <3>4. \A i \in DOMAIN avail' :
                  avail[i + 1] \in posted \ used /\ ~with_backend(avail[i + 1])
            BY Zenon, <2>4 DEF ChainInv
        <3> QED BY Zenon, <2>3, <3>2, <3>3, <3>4
    <2>7. HolderInv'
        <3>1. notify # "idle"
            BY Zenon, <2>1
        <3>2. blk_mtx = "notify" /\ blk_mtx' = "notify"
            BY Zenon, <2>1, <3>1 DEF HolderInv
        <3> QED BY Zenon, <1>0, <1>H, <3>2
    <2>8. CASE used' = used \cup {h} /\ UNCHANGED bvars
        <3>1. OnceInBackend' /\ \A r : with_backend(r)' => with_backend(r)
            BY Zenon, <1>R, <2>1, <2>8 DEF bvars
        <3>2. ChainInv'
            BY Zenon, <2>1, <2>5, <2>6, <2>8, <3>1 DEF ChainInv
        <3> QED BY Zenon, <1>S, <2>7, <3>1, <3>2
    <2>9. CASE submit(h) /\ UNCHANGED used
        <3>1. PICK off \in Nat, block \in Nat : blockif_request(h, off, block)
            BY <2>9 DEF submit, flush_end
        <3>2. ~is_queued(h) /\ \A w \in Worker : serving(w) => worker[w].req # h
            BY Zenon, <2>5 DEF with_backend
        <3>3. \A w \in Worker : worker'[w].req = worker[w].req /\ (serving(w)' => serving(w))
            <4>1. \/ UNCHANGED worker
                  \/ \E v \in Worker : worker' = [worker EXCEPT ![v].at = "woken"]
                BY Zenon, <3>1 DEF blockif_request, blockif_enqueue, pthread_cond_signal
            <4> QED BY <1>0, <2>1, <4>1 DEF serving, Thread
        <3>4. OnceInBackend' /\ \A r : with_backend(r)' => with_backend(r) \/ r = h
            BY Zenon, <2>2, <3>1, <3>2, <3>3, RequestAdds
        <3>5. ChainInv'
            BY Zenon, <2>1, <2>5, <2>6, <2>9, <3>4 DEF ChainInv
        <3> QED BY Zenon, <1>S, <2>7, <3>4, <3>5
    <2> QED BY Zenon, <1>1, <2>8, <2>9 DEF virtio_blk_proc, h
<1>2. CASE notify_entered \/ outer_loop
    <2>1. /\ UNCHANGED <<pendq, worker, avail, used, posted>>
          /\ \/ UNCHANGED blk_mtx /\ notify' = notify
             \/ UNCHANGED blk_mtx /\ notify # "idle"
             \/ blk_mtx = NULL /\ blk_mtx' = "notify"
             \/ notify = "recheck" /\ notify' = "idle" /\ blk_mtx' = NULL
        BY Zenon, <1>2 DEF notify_entered, outer_loop, bvars, guest
    <2>2. \A w \in Worker : w = blk_mtx => w = blk_mtx'
        BY Zenon, <1>0, <2>1 DEF HolderInv
    <2>3. OnceInBackend' /\ ChainInv'
        BY Zenon, <1>C, <1>R, <2>1, <2>2
    <2>4. HolderInv'
        BY Zenon, <1>0, <1>H, <2>1 DEF HolderInv
    <2> QED BY Zenon, <1>S, <2>3, <2>4
<1>3. CASE proc_answered \/ inner_loop \/ vq_clear_used_ring_flags
    <2>1. UNCHANGED <<pendq, worker, avail, used, posted, blk_mtx>> /\ notify # "idle"
        BY Zenon, <1>3 DEF proc_answered, inner_loop, vq_clear_used_ring_flags, bvars, ring, guest
    <2>2. OnceInBackend' /\ ChainInv'
        BY Zenon, <1>C, <1>R, <2>1
    <2>3. HolderInv'
        BY Zenon, <1>0, <1>H, <2>1 DEF HolderInv
    <2> QED BY Zenon, <1>S, <2>2, <2>3
<1>4. CASE virtio_guest
    <2>1. UNCHANGED <<pendq, worker, avail, blk_mtx, notify>>
        BY Zenon, <1>4 DEF virtio_guest, guest_kicks, guest_interrupted, guest_enables, bvars
    <2>2. OnceInBackend' /\ \A r : with_backend(r)' => with_backend(r)
        BY Zenon, <1>R, <2>1
    <2>3. UNCHANGED <<used, posted>> \/ (posted' = posted \ used /\ used' = {})
        BY Zenon, <1>4 DEF virtio_guest, guest_kicks, guest_interrupted, guest_enables
    <2>4. ChainInv'
        BY Zenon, <1>0, <2>1, <2>2, <2>3 DEF ChainInv
    <2>5. HolderInv'
        BY Zenon, <1>0, <1>H, <2>1 DEF HolderInv
    <2> QED BY Zenon, <1>S, <2>2, <2>4, <2>5
<1>5. ASSUME NEW r \in Req, NEW k \in Kinds, guest_posts(r, k) PROVE OwnInv'
    <2>1. /\ UNCHANGED <<pendq, worker, used, blk_mtx, notify>> /\ r \notin posted
          /\ posted' = posted \cup {r} /\ avail' = Append(avail, r)
        BY Zenon, <1>5 DEF guest_posts, bvars
    <2>2. OnceInBackend' /\ \A s : with_backend(s)' => with_backend(s)
        BY Zenon, <1>R, <2>1
    <2>3. /\ Len(avail) \in Nat
          /\ DOMAIN avail = 1 .. Len(avail) /\ DOMAIN avail' = 1 .. (Len(avail) + 1)
          /\ avail'[Len(avail) + 1] = r
          /\ \A i \in 1 .. Len(avail) : avail'[i] = avail[i]
        <3>1. avail \in Seq(Req) /\ avail' = Append(avail, r)
            BY Zenon, <1>0, <2>1
        <3> QED BY <3>1
    <2>4. \A i \in DOMAIN avail' : \/ i = Len(avail) + 1 /\ avail'[i] = r
                                   \/ i \in DOMAIN avail /\ avail'[i] = avail[i]
        BY <2>3
    <2>5. \A i \in DOMAIN avail : avail[i] # r
        BY Zenon, <1>0, <2>1 DEF ChainInv
    <2>6. ~with_backend(r) /\ r \notin used
        BY Zenon, <1>0, <2>1 DEF ChainInv
    <2>7. \A i, j \in DOMAIN avail' : avail'[i] = avail'[j] => i = j
        BY Zenon, <1>0, <2>4, <2>5 DEF ChainInv
    <2>8. ASSUME NEW i \in DOMAIN avail', NEW c, c = avail'[i]
          PROVE  c \in posted' \ used' /\ ~with_backend(c)'
        <3>1. c \in posted' \ used' /\ ~with_backend(c)
            BY Zenon, <2>1, <2>4, <2>6, <2>8 DEF ChainInv
        <3> QED BY Zenon, <2>2, <3>1
    <2>9. ChainInv'
        BY Zenon, <1>0, <2>1, <2>2, <2>7, <2>8 DEF ChainInv
    <2>10. HolderInv'
        BY Zenon, <1>0, <1>H, <2>1 DEF HolderInv
    <2> QED BY Zenon, <1>S, <2>2, <2>9, <2>10
<1>6. ASSUME NEW w \in Worker, virtio_blk_done(w) PROVE OwnInv'
    <2>1. /\ UNCHANGED <<pendq, worker, avail, notify, posted>> /\ worker[w].at = "callback"
          /\ blk_mtx = NULL /\ blk_mtx' = w /\ used' = used \cup {worker[w].req}
        BY Zenon, <1>6 DEF virtio_blk_done, bvars, guest
    <2>2. OnceInBackend' /\ \A r : with_backend(r)' => with_backend(r)
        BY Zenon, <1>0, <1>R, <2>1
    <2>3. serving(w) /\ ~serving(w)' /\ with_backend(worker[w].req)
        BY Zenon, <1>0, <2>1 DEF serving, with_backend
    <2>4. \A v \in Worker : serving(v)' => serving(v) /\ v # w
        BY Zenon, <1>0, <2>1, <2>3 DEF serving
    <2>5. ~with_backend(worker[w].req)'
        BY Zenon, <2>1, <2>3, <2>4 DEF with_backend, is_queued, OnceInBackend
    <2>6. worker[w].req \in Req
        BY Zenon, <2>1 DEF DiskInv, BusyHasRequest, in_flight
    <2>7. ChainInv'
        BY Zenon, <1>0, <2>1, <2>2, <2>3, <2>5, <2>6 DEF ChainInv
    <2>8. HolderInv'
        BY Zenon, <1>0, <1>H, <2>1 DEF HolderInv
    <2> QED BY Zenon, <1>S, <2>2, <2>7, <2>8
<1>7. ASSUME NEW w \in Worker, done_ends(w) PROVE OwnInv'
    <2>1. /\ UNCHANGED <<pendq, avail, used, notify, posted>> /\ blk_mtx = w /\ blk_mtx' = NULL
          /\ worker[w].at = "callback" /\ worker' = [worker EXCEPT ![w].at = "complete"]
        BY Zenon, <1>7 DEF done_ends, callback_returns, guest
    <2>2. \A v \in Worker : serving(v)' => serving(v) /\ worker'[v].req = worker[v].req
        BY Zenon, <1>0, <2>1 DEF serving, Thread
    <2>3. OnceInBackend' /\ \A r : with_backend(r)' => with_backend(r)
        BY Zenon, <2>1, <2>2, BackendRests
    <2>4. ChainInv'
        BY Zenon, <1>C, <2>1, <2>3
    <2>5. HolderInv'
        BY Zenon, <1>0, <1>H, <2>1 DEF HolderInv
    <2> QED BY Zenon, <1>S, <2>3, <2>4, <2>5
<1> QED BY Zenon, <1>1, <1>2, <1>3, <1>4, <1>5, <1>6, <1>7 DEF virtio_blk_notify

(* Steps of the port: a slot the backend has is in flight, its bit in PxCI *)
(* or PxSACT is set until it is not, and CR until none is.                 *)
LEMMA AhciOwns ==
    ASSUME QuietReset, DiskInv, OwnInv, client = "ahci", UNCHANGED <<vvars, client>>,
           \/ ahci_handle_port \/ write_returns \/ stop_goes_on \/ stop_ends
           \/ guest_stops \/ guest_starts \/ ahci_reset
           \/ \E s \in Req : stop_cancels(s) \/ stop_interrupts(s)
           \/ \E s \in Req, c \in Command : guest_issues(s, c)
           \/ \E w \in Worker : \/ cb_continues(w) \/ cb_returns(w)
                                \/ \E err \in BOOLEAN : cb_ends(w, err)
    PROVE  OwnInv'
<1> USE DEF OwnInv
<1>0. /\ UNCHANGED <<blk_mtx, notify, client>> /\ blk_mtx = NULL
      /\ worker \in [Worker -> Thread] /\ pending \subseteq Req /\ ci \subseteq Req
      /\ NULL \notin Worker /\ "write" \notin Worker /\ NULL # "write"
    <2>1. UNCHANGED <<blk_mtx, notify, client>> /\ blk_mtx = NULL
        BY Zenon DEF vvars, HolderInv
    <2>2. worker \in [Worker -> Thread]
        BY Zenon DEF DiskInv, BlockInv, BlockTypeOK, Thread
    <2>3. pending \subseteq Req /\ ci \subseteq Req
        BY Zenon DEF DiskInv, ClientInv
    <2>4. NULL \notin Worker /\ "write" \notin Worker /\ NULL # "write"
        BY BlockAssumption, DiskAssumption
    <2> QED BY Zenon, <2>1, <2>2, <2>3, <2>4
<1>1. /\ \A r \in Req : with_backend(r) => r \in pending
      /\ \A s \in pending : s \in IF ncq(s) THEN sact ELSE ci
      /\ \A s \in ci : ncq(s) => s \in sact
      /\ ~cmd.cr => ~cmd.st /\ pending = {} /\ ci = {}
      /\ cmd \in [st : BOOLEAN, cr : BOOLEAN] /\ DOMAIN command = Req
    BY Zenon DEF SlotInv
<1>C. ChainInv'
    BY Zenon, <1>0 DEF ChainInv
<1>H. ASSUME port_mtx'.by # NULL /\ port_mtx'.does = "stop" => port_mtx'.by = "write",
             port_mtx'.slots \subseteq pending'
      PROVE  HolderInv'
    BY Zenon, <1>0, <1>H DEF HolderInv
<1>R. ASSUME UNCHANGED <<pendq, worker>>, \A w \in Worker : w = port_mtx.by => w = port_mtx'.by
      PROVE  OnceInBackend' /\ \A r : with_backend(r)' => with_backend(r)
    <2>1. \A w \in Worker : serving(w)' => serving(w) /\ worker'[w].req = worker[w].req
        BY Zenon, <1>0, <1>R DEF serving
    <2> QED BY Zenon, <1>R, <2>1, BackendRests
<1>S. ASSUME UNCHANGED <<pending, ci, sact, command>>, \A r : with_backend(r)' => with_backend(r),
             cmd' \in [st : BOOLEAN, cr : BOOLEAN], ~cmd'.cr => ~cmd'.st /\ ~cmd.cr
      PROVE  SlotInv'
    BY Zenon, <1>0, <1>1, <1>S DEF SlotInv, ncq
<1>2. CASE ahci_handle_port
    <2>1. PICK s \in waiting_slots : ahci_handle_slot(s)
        BY Zenon, <1>2 DEF ahci_handle_port
    <2>2. /\ s \in ci /\ s \notin pending /\ s \in Req /\ UNCHANGED <<cmd, sact, port_mtx>>
          /\ cmd.cr
        BY Zenon, <1>0, <1>1, <1>2, <2>1 DEF ahci_handle_port, waiting_slots, goes_on
    <2>3. ~with_backend(s)
        BY Zenon, <1>1, <2>2
    <2>4. CASE /\ command[s] \in {"ncq", "long", "flush"}
               /\ pending' = pending \cup {s}
               /\ ci' = IF ncq(s) THEN ci \ {s} ELSE ci
               /\ transfer(s)
               /\ UNCHANGED command
        <3>1. PICK off \in Nat, block \in Nat : blockif_request(s, off, block)
            BY <2>4, BlockAssumption DEF transfer, flush_end
        <3>2. ~is_queued(s) /\ \A w \in Worker : serving(w) => worker[w].req # s
            BY Zenon, <2>3 DEF with_backend
        <3>3. \A w \in Worker : worker'[w].req = worker[w].req /\ (serving(w)' => serving(w))
            <4>1. \/ UNCHANGED worker
                  \/ \E v \in Worker : worker' = [worker EXCEPT ![v].at = "woken"]
                BY Zenon, <3>1 DEF blockif_request, blockif_enqueue, pthread_cond_signal
            <4>2. UNCHANGED <<blk_mtx, port_mtx>>
                BY Zenon, <1>0, <2>2
            <4> QED BY <1>0, <4>1, <4>2 DEF serving, Thread
        <3>4. OnceInBackend' /\ \A r : with_backend(r)' => with_backend(r) \/ r = s
            BY Zenon, <2>2, <3>1, <3>2, <3>3, RequestAdds
        <3>5. SlotInv'
            <4>1. \A r \in Req : with_backend(r)' => r \in pending'
                BY Zenon, <1>1, <2>4, <3>4
            <4>2. \A t \in pending' : t \in IF ncq(t)' THEN sact' ELSE ci'
                BY Zenon, <1>1, <2>2, <2>4 DEF ncq
            <4>3. \A t \in ci' : ncq(t)' => t \in sact'
                BY Zenon, <1>1, <2>2, <2>4 DEF ncq
            <4> QED BY Zenon, <1>1, <2>2, <2>4, <4>1, <4>2, <4>3 DEF SlotInv
        <3>6. HolderInv'
            BY Zenon, <1>H, <2>2, <2>4 DEF HolderInv
        <3> QED BY Zenon, <1>C, <3>4, <3>5, <3>6
    <2>5. CASE /\ ci' = ci \ {s} /\ command' = [command EXCEPT ![s] = "none"]
               /\ UNCHANGED <<pending, bvars>>
        <3>1. OnceInBackend' /\ \A r : with_backend(r)' => with_backend(r)
            BY Zenon, <1>R, <2>2, <2>5 DEF bvars
        <3>2. SlotInv'
            <4>1. \A t \in Req : t # s => (ncq(t)' <=> ncq(t))
                BY Zenon, <1>1, <2>5 DEF ncq
            <4> QED BY Zenon, <1>0, <1>1, <2>2, <2>5, <3>1, <4>1 DEF SlotInv
        <3>3. HolderInv'
            BY Zenon, <1>H, <2>2, <2>5 DEF HolderInv
        <3> QED BY Zenon, <1>C, <3>1, <3>2, <3>3
    <2>6. CASE UNCHANGED <<ci, pending, command, bvars>>
        <3>1. OnceInBackend' /\ \A r : with_backend(r)' => with_backend(r)
            BY Zenon, <1>R, <2>2, <2>6 DEF bvars
        <3>2. SlotInv'
            BY Zenon, <1>1, <1>S, <2>2, <2>6, <3>1
        <3>3. HolderInv'
            BY Zenon, <1>H, <2>2, <2>6 DEF HolderInv
        <3> QED BY Zenon, <1>C, <3>1, <3>2, <3>3
    <2> QED BY Zenon, <2>1, <2>4, <2>5, <2>6 DEF ahci_handle_slot
<1>3. CASE write_returns
    <2>1. /\ port_mtx.by = "write" /\ port_mtx' = free_mtx /\ UNCHANGED <<pendq, worker>>
          /\ UNCHANGED <<pending, ci, sact, command, cmd>>
        BY Zenon, <1>3 DEF write_returns, bvars, registers
    <2>2. OnceInBackend' /\ \A r : with_backend(r)' => with_backend(r)
        BY Zenon, <1>0, <1>R, <2>1
    <2>3. SlotInv'
        BY Zenon, <1>1, <1>S, <2>1, <2>2
    <2>4. HolderInv'
        BY Zenon, <1>H, <2>1 DEF free_mtx
    <2> QED BY Zenon, <1>C, <2>2, <2>3, <2>4
<1>4. CASE stop_goes_on
    <2>1. UNCHANGED <<pendq, worker, pending, ci, sact, command, cmd, port_mtx>>
        BY Zenon, <1>4 DEF stop_goes_on, cancel_returns, avars, registers
    <2>2. OnceInBackend' /\ \A r : with_backend(r)' => with_backend(r)
        BY Zenon, <1>R, <2>1
    <2>3. SlotInv'
        BY Zenon, <1>1, <1>S, <2>1, <2>2
    <2>4. HolderInv'
        BY Zenon, <1>H, <2>1 DEF HolderInv
    <2> QED BY Zenon, <1>C, <2>2, <2>3, <2>4
<1>5. CASE stop_ends
    <2>1. /\ port_mtx.by = "write" /\ port_mtx' = free_mtx /\ UNCHANGED <<pendq, worker, pending>>
        BY Zenon, <1>5 DEF stop_ends, bvars, holds, HolderInv
    <2>2. OnceInBackend' /\ \A r : with_backend(r)' => with_backend(r)
        BY Zenon, <1>0, <1>R, <2>1
    <2>3. SlotInv'
        <3>1. CASE ~cmd.st /\ pending = {}
            <4>1. /\ cmd' = [cmd EXCEPT !.cr = FALSE] /\ ci' = {}
                  /\ command' = [s \in Req |-> "none"]
                BY Zenon, <1>5, <3>1 DEF stop_ends, ahci_check_stopped
            <4>2. cmd' \in [st : BOOLEAN, cr : BOOLEAN] /\ ~cmd'.st
                BY Zenon, <1>1, <3>1, <4>1
            <4> QED BY Zenon, <1>1, <2>1, <2>2, <3>1, <4>1, <4>2 DEF SlotInv
        <3>2. CASE cmd.st \/ pending # {}
            <4>1. UNCHANGED <<cmd, ci, sact, command>>
                BY Zenon, <1>5, <3>2 DEF stop_ends, ahci_check_stopped
            <4> QED BY Zenon, <1>1, <1>S, <2>1, <2>2, <4>1
        <3> QED BY Zenon, <3>1, <3>2
    <2>4. HolderInv'
        BY Zenon, <1>H, <2>1 DEF free_mtx
    <2> QED BY Zenon, <1>C, <2>2, <2>3, <2>4
<1>6. CASE guest_stops \/ guest_starts
    <2>1. /\ UNCHANGED <<pendq, worker, pending, ci, sact, command>> /\ port_mtx.by = NULL
          /\ port_mtx'.by = "write" /\ port_mtx'.slots \in {{}, pending}
        <3>1. CASE guest_stops
            BY Zenon, <3>1 DEF guest_stops, bvars
        <3>2. CASE guest_starts
            BY Zenon, <3>2 DEF guest_starts, bvars
        <3> QED BY Zenon, <1>6, <3>1, <3>2
    <2>2. OnceInBackend' /\ \A r : with_backend(r)' => with_backend(r)
        BY Zenon, <1>0, <1>R, <2>1
    <2>3. cmd' \in [st : BOOLEAN, cr : BOOLEAN] /\ (~cmd'.cr => ~cmd'.st /\ ~cmd.cr)
        <3>1. CASE guest_stops
            <4>1. cmd' = [cmd EXCEPT !.st = FALSE]
                BY Zenon, <3>1 DEF guest_stops
            <4> QED BY Zenon, <1>1, <4>1
        <3>2. CASE guest_starts
            <4>1. cmd' = [st |-> TRUE, cr |-> TRUE]
                BY Zenon, <3>2 DEF guest_starts
            <4> QED BY Zenon, <4>1
        <3> QED BY Zenon, <1>6, <3>1, <3>2
    <2>4. SlotInv'
        BY Zenon, <1>S, <2>1, <2>2, <2>3
    <2>5. HolderInv'
        BY Zenon, <1>H, <2>1
    <2> QED BY Zenon, <1>C, <2>2, <2>4, <2>5
<1>7. CASE ahci_reset
    <2>1. /\ UNCHANGED <<pendq, worker, pending, ci, command, port_mtx>> /\ ~cmd.cr
          /\ cmd' = [st |-> FALSE, cr |-> FALSE]
        BY Zenon, <1>7 DEF ahci_reset, bvars
    <2>2. OnceInBackend' /\ \A r : with_backend(r)' => with_backend(r)
        BY Zenon, <1>R, <2>1
    <2>3. SlotInv'
        BY Zenon, <1>1, <2>1, <2>2 DEF SlotInv
    <2>4. HolderInv'
        BY Zenon, <1>H, <2>1 DEF HolderInv
    <2> QED BY Zenon, <1>C, <2>2, <2>3, <2>4
<1>8. ASSUME NEW s \in Req, stop_cancels(s) PROVE OwnInv'
    <2>1. /\ cancel_queued(s) /\ s \in port_mtx.slots /\ UNCHANGED cmd
          /\ pending' = pending \ {s}
          /\ ci' = IF ncq(s) THEN ci ELSE ci \ {s}
          /\ sact' = IF ncq(s) THEN sact \ {s} ELSE sact
          /\ command' = [command EXCEPT ![s] = "none"]
          /\ port_mtx' = [port_mtx EXCEPT !.slots = @ \ {s}]
        BY Zenon, <1>8 DEF stop_cancels
    <2>2. port_mtx'.by = port_mtx.by /\ port_mtx'.does = port_mtx.does
          /\ port_mtx'.slots = port_mtx.slots \ {s}
        BY <2>1
    <2>3. OnceInBackend' /\ \A r : with_backend(r)' => with_backend(r) /\ r # s
        BY Zenon, <1>0, <2>1, <2>2, CancelRemoves
    <2>4. \A t \in Req : ncq(t)' <=> t # s /\ ncq(t)
        BY Zenon, <1>1, <2>1 DEF ncq
    <2>5. cmd.cr
        BY Zenon, <1>1, <2>1 DEF HolderInv
    <2>6. SlotInv'
        <3>1. \A t \in pending' : t \in IF ncq(t)' THEN sact' ELSE ci'
            BY Zenon, <1>0, <1>1, <2>1, <2>4
        <3>2. \A t \in ci' : ncq(t)' => t \in sact'
            BY Zenon, <1>0, <1>1, <2>1, <2>4
        <3> QED BY Zenon, <1>1, <2>1, <2>3, <2>5, <3>1, <3>2 DEF SlotInv
    <2>7. HolderInv'
        BY Zenon, <1>H, <2>1, <2>2 DEF HolderInv
    <2> QED BY Zenon, <1>C, <2>3, <2>6, <2>7
<1>9. ASSUME NEW s \in Req, stop_interrupts(s) PROVE OwnInv'
    <2>1. /\ UNCHANGED <<pendq, worker, pending, ci, sact, command, cmd>>
          /\ port_mtx' = [port_mtx EXCEPT !.slots = @ \ {s}]
        BY Zenon, <1>9 DEF stop_interrupts, cancel_busy, registers
    <2>2. port_mtx'.by = port_mtx.by /\ port_mtx'.does = port_mtx.does
          /\ port_mtx'.slots = port_mtx.slots \ {s}
        BY <2>1
    <2>3. OnceInBackend' /\ \A r : with_backend(r)' => with_backend(r)
        BY Zenon, <1>R, <2>1, <2>2
    <2>4. SlotInv'
        BY Zenon, <1>1, <1>S, <2>1, <2>3
    <2>5. HolderInv'
        BY Zenon, <1>H, <2>1, <2>2 DEF HolderInv
    <2> QED BY Zenon, <1>C, <2>3, <2>4, <2>5
<1>10. ASSUME NEW s \in Req, NEW c \in Command, guest_issues(s, c) PROVE OwnInv'
    <2>1. /\ UNCHANGED <<pendq, worker, pending, cmd>> /\ port_mtx.by = NULL
          /\ port_mtx' = [by |-> "write", does |-> "issue", slots |-> {}]
          /\ cmd.st /\ s \notin ci \cup sact
          /\ command' = [command EXCEPT ![s] = c]
          /\ ci' = ci \cup {s}
          /\ sact' = IF c = "ncq" THEN sact \cup {s} ELSE sact
        BY Zenon, <1>10 DEF guest_issues, bvars
    <2>2. OnceInBackend' /\ \A r : with_backend(r)' => with_backend(r)
        BY Zenon, <1>0, <1>R, <2>1
    <2>3. s \notin pending
        BY Zenon, <1>1, <2>1
    <2>4. \A t \in Req : ncq(t)' <=> IF t = s THEN c = "ncq" ELSE ncq(t)
        BY Zenon, <1>1, <2>1 DEF ncq
    <2>5. SlotInv'
        <3>1. \A t \in pending' : t \in IF ncq(t)' THEN sact' ELSE ci'
            BY Zenon, <1>0, <1>1, <2>1, <2>3, <2>4
        <3>2. \A t \in ci' : ncq(t)' => t \in sact'
            BY Zenon, <1>0, <1>1, <2>1, <2>4
        <3> QED BY Zenon, <1>1, <2>1, <2>2, <3>1, <3>2 DEF SlotInv
    <2>6. HolderInv'
        BY Zenon, <1>H, <2>1
    <2> QED BY Zenon, <1>C, <2>2, <2>5, <2>6
<1>11. ASSUME NEW w \in Worker, cb_continues(w) PROVE OwnInv'
    <2>B. PICK s \in Req, off \in Nat, block \in Nat : continues(w, s, off, block)
        BY Zenon, <1>11, ContinuesSomewhere DEF DiskInv
    <2>Q. blockif_request(s, off, block)
        BY Zenon, <2>B DEF continues
    <2>2. s = worker[w].req
        BY Zenon, <2>B DEF continues
    <2>1. /\ worker[w].at = "callback" /\ port_mtx.by = NULL
          /\ port_mtx' = [by |-> w, does |-> "return", slots |-> {}]
        BY Zenon, <2>B DEF continues
    <2>U. UNCHANGED <<cmd, ci, sact, pending>>
        BY Zenon, <2>B DEF continues
    <2>C. command[s] = "long" /\ command' = [command EXCEPT ![s] = "last"]
        BY Zenon, <2>B DEF continues
    <2>3. serving(w) /\ with_backend(s)
        BY Zenon, <1>0, <2>1, <2>2 DEF serving, with_backend
    <2>4. ~is_queued(s) /\ \A v \in Worker : serving(v) /\ v # w => worker[v].req # s
        <3>1. \A i \in DOMAIN pendq : pendq[i].req # s
            BY Zenon, <2>2, <2>3 DEF OnceInBackend
        <3>2. \A v \in Worker : serving(v) /\ v # w => worker[v].req # s
            BY Zenon, <2>2, <2>3 DEF OnceInBackend
        <3> QED BY Zenon, <3>1, <3>2 DEF is_queued
    <2>5. \A v \in Worker :
              worker'[v].req = worker[v].req /\ (serving(v)' => serving(v) /\ v # w)
        <3>1. \/ UNCHANGED worker
              \/ \E v \in Worker : worker' = [worker EXCEPT ![v].at = "woken"]
            BY Zenon, <2>Q DEF blockif_request, blockif_enqueue, pthread_cond_signal
        <3>2. UNCHANGED blk_mtx /\ port_mtx.by = NULL /\ port_mtx'.by = w
            BY Zenon, <1>0, <2>1
        <3>3. w \notin {v \in Worker : worker'[v].at = "busy"}
            BY Zenon, <1>0, <2>1, <3>1 DEF Thread
        <3> QED BY <1>0, <3>1, <3>2, <3>3 DEF serving, Thread
    <2>6. OnceInBackend' /\ \A r : with_backend(r)' => with_backend(r) \/ r = s
        <3>1. \A v \in Worker : serving(v)' =>
                  serving(v) /\ worker'[v].req = worker[v].req /\ worker[v].req # s
            BY Zenon, <2>4, <2>5
        <3> QED BY Zenon, <2>Q, <2>4, <3>1, RequestAdds
    <2>7. \A t \in Req : ncq(t)' <=> ncq(t)
        BY Zenon, <1>1, <2>C DEF ncq
    <2>8. SlotInv'
        <3>1. \A r \in Req : with_backend(r)' => r \in pending'
            BY Zenon, <1>1, <2>U, <2>3, <2>6
        <3>2. \A t \in pending' : t \in IF ncq(t)' THEN sact' ELSE ci'
            BY Zenon, <1>0, <1>1, <2>U, <2>7
        <3>3. \A t \in ci' : ncq(t)' => t \in sact'
            BY Zenon, <1>0, <1>1, <2>U, <2>7
        <3>4. DOMAIN command' = Req
            BY Zenon, <1>1, <2>C
        <3> QED BY Zenon, <1>1, <2>U, <3>1, <3>2, <3>3, <3>4 DEF SlotInv
    <2>9. HolderInv'
        BY Zenon, <1>H, <2>1
    <2> QED BY Zenon, <1>C, <2>6, <2>8, <2>9
<1>12. ASSUME NEW w \in Worker, cb_returns(w) PROVE OwnInv'
    <2>1. /\ port_mtx.by = w /\ port_mtx' = free_mtx /\ UNCHANGED pendq
          /\ worker' = [worker EXCEPT ![w].at = "complete"]
          /\ UNCHANGED <<pending, ci, sact, command, cmd>>
        BY Zenon, <1>12 DEF cb_returns, callback_returns, registers
    <2>2. \A v \in Worker : serving(v)' => serving(v) /\ worker'[v].req = worker[v].req
        BY Zenon, <1>0, <2>1 DEF serving, Thread, free_mtx
    <2>3. OnceInBackend' /\ \A r : with_backend(r)' => with_backend(r)
        BY Zenon, <2>1, <2>2, BackendRests
    <2>4. SlotInv'
        BY Zenon, <1>1, <1>S, <2>1, <2>3
    <2>5. HolderInv'
        BY Zenon, <1>H, <2>1 DEF free_mtx
    <2> QED BY Zenon, <1>C, <2>3, <2>4, <2>5
<1>13. ASSUME NEW w \in Worker, NEW err \in BOOLEAN, cb_ends(w, err) PROVE OwnInv'
    <2>2. PICK s \in Req : s = worker[w].req
        BY Zenon, <1>13 DEF cb_ends, DiskInv, BusyHasRequest, in_flight
    <2>1. /\ worker[w].at = "callback" /\ port_mtx.by = NULL
          /\ pending' = pending \ {s} /\ UNCHANGED <<pendq, worker>>
          /\ port_mtx' = [by |-> w, does |-> "issue", slots |-> {}]
        BY Zenon, <1>13, <2>2 DEF cb_ends, bvars
    <2>3. serving(w) /\ with_backend(s)
        BY Zenon, <1>0, <2>1, <2>2 DEF serving, with_backend
    <2>4. OnceInBackend' /\ \A r : with_backend(r)' => with_backend(r)
        BY Zenon, <1>0, <1>R, <2>1
    <2>5. \A v \in Worker : serving(v)' => serving(v) /\ v # w
        BY Zenon, <1>0, <2>1 DEF serving
    <2>6. ~with_backend(s)'
        BY Zenon, <2>1, <2>2, <2>3, <2>5 DEF with_backend, is_queued, OnceInBackend
    <2>7. s \in pending /\ cmd.cr
        BY Zenon, <1>1, <2>2, <2>3
    <2>8. SlotInv'
        <3>1. CASE ~cmd.st /\ pending = {s}
            <4>1. /\ cmd' = [cmd EXCEPT !.cr = FALSE] /\ ci' = {}
                  /\ command' = [t \in Req |-> "none"] /\ pending' = {}
                BY Zenon, <1>13, <2>1, <2>2, <3>1 DEF cb_ends, ahci_check_stopped
            <4>2. cmd' \in [st : BOOLEAN, cr : BOOLEAN] /\ ~cmd'.st
                BY Zenon, <1>1, <3>1, <4>1
            <4>3. \A r \in Req : ~with_backend(r)'
                BY Zenon, <1>1, <2>4, <2>6, <3>1
            <4> QED BY Zenon, <4>1, <4>2, <4>3 DEF SlotInv
        <3>2. CASE ~(~cmd.st /\ pending = {s})
            <4>1. /\ UNCHANGED cmd
                  /\ ci' = IF err \/ ncq(s) THEN ci ELSE ci \ {s}
                  /\ sact' = IF err \/ ~ncq(s) THEN sact ELSE sact \ {s}
                  /\ command' = [command EXCEPT ![s] = IF err THEN @ ELSE "none"]
                BY SMTT(60), <1>13, <2>2, <2>7, <3>2 DEF cb_ends, ahci_check_stopped
            <4>2. /\ \A t \in Req : t # s => (ncq(t)' <=> ncq(t))
                  /\ ncq(s)' <=> err /\ ncq(s)
                BY Zenon, <1>1, <2>2, <4>1 DEF ncq
            <4>3. \A r \in Req : with_backend(r)' => r \in pending'
                BY Zenon, <1>1, <2>1, <2>4, <2>6
            <4>4. \A t \in pending' : t \in IF ncq(t)' THEN sact' ELSE ci'
                BY Zenon, <1>0, <1>1, <2>1, <4>1, <4>2
            <4>5. \A t \in ci' : ncq(t)' => t \in sact'
                BY Zenon, <1>0, <1>1, <4>1, <4>2
            <4> QED BY Zenon, <1>1, <2>7, <4>1, <4>3, <4>4, <4>5 DEF SlotInv
        <3> QED BY Zenon, <3>1, <3>2
    <2>9. HolderInv'
        BY Zenon, <1>H, <2>1
    <2> QED BY Zenon, <1>C, <2>4, <2>8, <2>9
<1> QED BY Zenon, <1>2, <1>3, <1>4, <1>5, <1>6, <1>7, <1>8, <1>9, <1>10, <1>11, <1>12, <1>13

(* Every step of a disk keeps who has which request.                       *)
LEMMA OwnStep == ASSUME QuietReset PROVE DiskInv /\ OwnInv /\ [Next]_vars => OwnInv'
<1> SUFFICES ASSUME DiskInv, OwnInv, [Next]_vars PROVE OwnInv'
    BY Zenon
<1>0. ASSUME OnceInBackend', \A r : with_backend(r)' => with_backend(r), UNCHANGED <<vvars, avars, client>>,
             \A v \in Worker : worker[v].at = "callback" => worker'[v].at = "callback"
      PROVE  OwnInv'
    <2>1. /\ UNCHANGED <<avail, used, posted, notify, blk_mtx, client, port_mtx>>
          /\ UNCHANGED <<pending, ci, sact, cmd, command>>
        BY Zenon, <1>0 DEF vvars, ring, guest, avars, registers
    <2>2. HolderInv'
        BY Zenon, <1>0, <2>1 DEF OwnInv, HolderInv
    <2>3. ChainInv'
        BY Zenon, <1>0, <2>1 DEF OwnInv, ChainInv
    <2>4. SlotInv'
        BY Zenon, <1>0, <2>1 DEF OwnInv, SlotInv, ncq
    <2> QED BY Zenon, <1>0, <2>2, <2>3, <2>4 DEF OwnInv
<1>1. worker \in [Worker -> Thread]
    BY Zenon DEF DiskInv, BlockInv, BlockTypeOK, Thread
<1>2. ASSUME NEW w \in Worker, blockif_thread(w), UNCHANGED client PROVE OwnInv'
    <2>1. /\ UNCHANGED <<vvars, avars>> /\ UNCHANGED <<blk_mtx, port_mtx>>
          /\ blockif_thr(w) \/ blockif_proc(w) \/ blockif_complete(w)
        BY Zenon, <1>2 DEF blockif_thread, vvars, avars
    <2>2. OnceInBackend' /\ \A r : with_backend(r)' => with_backend(r)
        BY Zenon, <2>1, ThreadServes DEF OwnInv
    <2>3. \A v \in Worker : worker[v].at = "callback" => worker'[v].at = "callback"
        BY Zenon, <1>1, <2>1 DEF blockif_thr, blockif_proc, blockif_complete, blockif_dequeue
    <2> QED BY Zenon, <1>0, <1>2, <2>1, <2>2, <2>3
<1>3. ASSUME NEW w \in Worker, callback(w), UNCHANGED client PROVE OwnInv'
    BY Zenon, <1>3, VirtioOwns, AhciOwns DEF callback
<1>4. ASSUME vm_loop \/ guest_reacts \/ guest_asks, UNCHANGED client PROVE OwnInv'
    BY Zenon, <1>4, VirtioOwns, AhciOwns DEF vm_loop, guest_reacts, guest_asks
<1>5. ASSUME deinit, UNCHANGED client PROVE OwnInv'
    <2>1. UNCHANGED <<vvars, avars>> /\ UNCHANGED <<blk_mtx, port_mtx, pendq>> /\ blockif_close
        BY Zenon, <1>5 DEF deinit, vvars, avars, blockif_close
    <2>2. \A v \in Worker : IF worker[v].at = "wait" THEN worker'[v].at = "woken"
                                                    ELSE worker'[v] = worker[v]
        BY Zenon, <1>1, <2>1 DEF blockif_close, idle_thread
    <2>3. \A v \in Worker : serving(v)' => serving(v) /\ worker'[v].req = worker[v].req
        BY Zenon, <2>1, <2>2 DEF serving
    <2>4. OnceInBackend' /\ \A r : with_backend(r)' => with_backend(r)
        BY Zenon, <2>1, <2>3, BackendRests DEF OwnInv
    <2> QED BY Zenon, <1>0, <1>5, <2>1, <2>2, <2>4
<1>6. ASSUME UNCHANGED vars PROVE OwnInv'
    <2>1. /\ UNCHANGED <<vvars, avars, client>>
          /\ UNCHANGED <<pendq, worker, blk_mtx, port_mtx>>
        BY Zenon, <1>6 DEF vars, bvars, vvars, avars
    <2>2. \A v \in Worker : serving(v)' => serving(v) /\ worker'[v].req = worker[v].req
        BY Zenon, <2>1 DEF serving
    <2>3. OnceInBackend' /\ \A r : with_backend(r)' => with_backend(r)
        BY Zenon, <2>1, <2>2, BackendRests DEF OwnInv
    <2> QED BY Zenon, <1>0, <2>1, <2>3
<1> QED BY Zenon, <1>2, <1>3, <1>4, <1>5, <1>6 DEF Next

(* With either controller, whatever notifications, callbacks, stops and    *)
(* cancellations cross, no transfer is queued or in progress for a request *)
(* the device has answered, as long as the guest resets the controller     *)
(* only with the port stopped.                                             *)
THEOREM AnsweredIsOver == ASSUME QuietReset PROVE Spec => []NoIoBehindGuest
<1>1. DiskInv /\ OwnInv => NoIoBehindGuest
    <2> SUFFICES ASSUME DiskInv, OwnInv, NEW r \in Req,
                        is_queued(r) \/ \E w \in Worker : worker[w].at = "busy" /\ worker[w].req = r
                 PROVE  \/ client = "virtio" /\ r \in posted \ used
                        \/ client = "ahci" /\ r \in ci \cup sact /\ cmd.cr
        BY Zenon DEF NoIoBehindGuest
    <2>1. with_backend(r)
        BY Zenon DEF with_backend, serving
    <2>2. client \in {"virtio", "ahci"}
        BY Zenon DEF DiskInv, ClientInv
    <2> QED BY Zenon, <2>1, <2>2 DEF OwnInv, ChainInv, SlotInv
<1> QED BY <1>1, DiskInit, DiskStep, OwnInit, OwnStep, PTL DEF Spec

=============================================================================
