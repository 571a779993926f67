------------------------------ MODULE BlockIf ------------------------------
(***************************************************************************)
(* The block backend of the device model (hw/block_if.c): a queue of       *)
(* requests served by a pool of worker threads, the ordering of adjacent   *)
(* requests, cancellation and close.  The disk controllers (VirtioBlk,     *)
(* Ahci) are its clients; Next has the most general one.                   *)
(*                                                                         *)
(* bc->mtx is held within one step, except by blockif_cancel, which holds  *)
(* it while it waits for a request in flight (canceling).  A request is    *)
(* its offset and the end of its range; the data is left out.              *)
(***************************************************************************)
EXTENDS Naturals, FiniteSets, Sequences

CONSTANTS
    Worker,         \* the threads of a blockif_ctxt, BLOCKIF_NUMTHR of them
    Req,            \* the blockif_reqs of the client
    Offset,         \* the offsets and ends of the requests, in bytes
    MaxReq,         \* BLOCKIF_MAXREQ
    NULL

ASSUME BlockAssumption ==
    Worker # {} /\ NULL \notin Worker /\ NULL \notin Req /\ Offset \subseteq Nat /\ MaxReq \in Nat

VARIABLES
    pendq,          \* pendq: elements [req, off, block, status]
    worker,         \* where each thread is and the element it has on busyq
    closing,        \* bc->closing
    canceling       \* the thread blockif_cancel waits for, or NULL

bvars == <<pendq, worker, closing, canceling>>

(* "woken" waits for bc->mtx, "wait" for bc->cond.  The element is BUSY in *)
(* "busy" and DONE in "callback" (the client has not returned from it) and *)
(* "complete" (the thread waits for bc->mtx to take it off busyq).         *)
At == {"woken", "wait", "busy", "callback", "complete", "exit"}

BlockTypeOK ==
    /\ pendq \in Seq([req : Req, off : Nat, block : Nat, status : {"PEND", "BLOCK"}])
    /\ worker \in [Worker -> [at : At, req : Req \cup {NULL}, block : Nat]]
    /\ closing \in BOOLEAN
    /\ canceling \in Worker \cup {NULL}

in_flight(w) == worker[w].at \in {"busy", "callback", "complete"}

(* The thread holds no element: it waits, or has left.                     *)
idle_thread(a) == [at |-> a, req |-> NULL, block |-> 0]

(* `off = 1 << (sizeof(off_t) - 1)': the end of a flush, which no offset   *)
(* in sectors equals.                                                      *)
flush_end == 128

blockif_open ==
    /\ pendq = <<>>
    /\ worker = [w \in Worker |-> idle_thread("woken")]
    /\ closing = FALSE
    /\ canceling = NULL

-----------------------------------------------------------------------------

TAILQ_REMOVE(q, i) == SubSeq(q, 1, i - 1) \o SubSeq(q, i + 1, Len(q))

freeq_empty ==
    Len(pendq) + Cardinality({w \in Worker : in_flight(w)}) >= MaxReq

(* A request that starts where a queued or busy one ends has to wait.      *)
follows(off) ==
    \/ \E i \in DOMAIN pendq : pendq[i].block = off
    \/ \E w \in Worker : in_flight(w) /\ worker[w].block = off

pthread_cond_signal ==
    LET waiters == {w \in Worker : worker[w].at = "wait"}
    IN  \/ waiters = {} /\ UNCHANGED worker
        \/ \E w \in waiters : worker' = [worker EXCEPT ![w].at = "woken"]

blockif_enqueue(r, off, block) ==
    LET status == IF follows(off) THEN "BLOCK" ELSE "PEND"
    IN  /\ pendq' = Append(pendq, [req |-> r, off |-> off, block |-> block, status |-> status])
        /\ IF status = "PEND" THEN pthread_cond_signal ELSE UNCHANGED worker

(* E2BIG leaves the queue alone; the clients only log it.                  *)
blockif_request(r, off, block) ==
    /\ canceling = NULL
    /\ IF freeq_empty THEN UNCHANGED <<pendq, worker>> ELSE blockif_enqueue(r, off, block)
    /\ UNCHANGED <<closing, canceling>>

-----------------------------------------------------------------------------

(* The part of blockif_complete that releases who waited for the element.  *)
unblocked(q, block) ==
    [i \in DOMAIN q |-> IF q[i].off = block
                          THEN [q[i] EXCEPT !.status = "PEND"] ELSE q[i]]

first_pending(q, i) ==
    /\ q[i].status = "PEND"
    /\ \A j \in 1 .. (i - 1) : q[j].status # "PEND"

has_pending(q) == \E i \in DOMAIN q : q[i].status = "PEND"

(* Fault: a thread leaves a closing context without a look at its queue.   *)
blockif_dequeue_not_closing(w, q) ==
    \/ \E i \in DOMAIN q :
          /\ ~closing /\ first_pending(q, i)
          /\ pendq' = TAILQ_REMOVE(q, i)
          /\ worker' = [worker EXCEPT ![w] =
                [at |-> "busy", req |-> q[i].req, block |-> q[i].block]]
    \/ /\ closing \/ ~has_pending(q)
       /\ pendq' = q
       /\ worker' = [worker EXCEPT ![w] = idle_thread(IF closing THEN "exit" ELSE "wait")]

(* blockif_dequeue by w, with the queue q, and the end of the loop of      *)
(* blockif_thr when it finds nothing.                                      *)
blockif_dequeue(w, q) ==
    \/ \E i \in DOMAIN q :
          /\ first_pending(q, i)
          /\ pendq' = TAILQ_REMOVE(q, i)
          /\ worker' = [worker EXCEPT ![w] =
                [at |-> "busy", req |-> q[i].req, block |-> q[i].block]]
    \/ /\ ~has_pending(q)
       /\ pendq' = q
       /\ worker' = [worker EXCEPT ![w] = idle_thread(IF closing THEN "exit" ELSE "wait")]

blockif_thr(w) ==
    /\ worker[w].at = "woken"
    /\ canceling = NULL
    /\ blockif_dequeue(w, pendq)
    /\ UNCHANGED <<closing, canceling>>

(* The I/O of blockif_proc is over, by itself or interrupted.              *)
blockif_proc(w) ==
    /\ worker[w].at = "busy"
    /\ worker' = [worker EXCEPT ![w].at = "callback"]
    /\ UNCHANGED <<pendq, closing, canceling>>

callback_returns(w) ==
    /\ worker[w].at = "callback"
    /\ worker' = [worker EXCEPT ![w].at = "complete"]
    /\ UNCHANGED <<pendq, closing, canceling>>

blockif_complete(w) ==
    /\ worker[w].at = "complete"
    /\ canceling = NULL
    /\ blockif_dequeue(w, unblocked(pendq, worker[w].block))
    /\ UNCHANGED <<closing, canceling>>

-----------------------------------------------------------------------------
(* blockif_cancel: 0 for a queued request, EBUSY for one in flight.        *)

first_of(r, i) ==
    pendq[i].req = r /\ \A j \in 1 .. (i - 1) : pendq[j].req # r

is_queued(r) == \E i \in DOMAIN pendq : pendq[i].req = r

cancel_queued(r) ==
    /\ canceling = NULL
    /\ \E i \in DOMAIN pendq :
          /\ first_of(r, i)
          /\ pendq' = unblocked(TAILQ_REMOVE(pendq, i), pendq[i].block)
    /\ UNCHANGED <<worker, closing, canceling>>

cancel_busy(r) ==
    LET found == {w \in Worker : in_flight(w) /\ worker[w].req = r}
    IN  /\ canceling = NULL
        /\ ~is_queued(r)
        /\ canceling' \in IF found = {} THEN {NULL} ELSE found
        /\ UNCHANGED <<pendq, worker, closing>>

cancel_returns ==
    /\ canceling # NULL
    /\ worker[canceling].at # "busy"
    /\ canceling' = NULL
    /\ UNCHANGED <<pendq, worker, closing>>

blockif_close ==
    /\ ~closing
    /\ canceling = NULL
    /\ closing' = TRUE
    /\ worker' = [w \in Worker |-> IF worker[w].at = "wait" THEN idle_thread("woken")
                                                            ELSE worker[w]]
    /\ UNCHANGED <<pendq, canceling>>

-----------------------------------------------------------------------------
(* The most general client: once it has closed the context, only callbacks *)
(* request more.                                                           *)

may_request == closing => \E w \in Worker : worker[w].at = "callback"

BlockNext ==
    \/ \E r \in Req, off \in Offset, block \in Offset \cup {flush_end} :
          may_request /\ blockif_request(r, off, block)
    \/ \E r \in Req : cancel_queued(r) \/ cancel_busy(r)
    \/ \E w \in Worker :
          \/ blockif_thr(w) \/ blockif_proc(w)
          \/ callback_returns(w) \/ blockif_complete(w)
    \/ cancel_returns
    \/ blockif_close

BlockSpec == blockif_open /\ [][BlockNext]_bvars

-----------------------------------------------------------------------------

active(w) == worker[w].at \notin {"wait", "exit"}

(* No request is left behind: while one is queued, blocked or not, some    *)
(* thread is still on its way to the queue.  blockif_enqueue signals only  *)
(* for a request it does not block, blockif_complete and blockif_cancel    *)
(* unblock without a signal, and threads leave as soon as the context      *)
(* closes ("XXX Cancel queued i/o's ???").                                 *)
PendingIsServed == pendq # <<>> => \E w \in Worker : active(w)

(* A blocked request waits for an earlier one, queued or in flight.        *)
BlockedHasBlocker ==
    \A i \in DOMAIN pendq :
        pendq[i].status = "BLOCK" =>
            \/ \E j \in 1 .. (i - 1) : pendq[j].block = pendq[i].off
            \/ \E w \in Worker : in_flight(w) /\ worker[w].block = pendq[i].off

=============================================================================
