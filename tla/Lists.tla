------------------------------- MODULE Lists -------------------------------
(***************************************************************************)
(* The doubly linked lists of hypervisor/include/lib/list.h as sequences,  *)
(* the head first, with what the scheduling policies and the timers do to  *)
(* them.                                                                   *)
(***************************************************************************)
EXTENDS Integers, Sequences, Functions

(* list_del_init: the list without x, which need not be on it.             *)
without(q, x) ==
    IF x \notin Range(q) THEN q
    ELSE LET i == CHOOSE k \in DOMAIN q : q[k] = x IN
         [k \in 1 .. Len(q) - 1 |-> IF k < i THEN q[k] ELSE q[k + 1]]

(* A list_for_each that stops at the first entry of `later' and adds x     *)
(* before it, or at the tail when there is none.                           *)
insert_before(q, x, later) ==
    LET i == CHOOSE k \in 1 .. Len(q) + 1 :
                 /\ k <= Len(q) => q[k] \in later
                 /\ \A j \in 1 .. k - 1 : q[j] \notin later IN
    [k \in 1 .. Len(q) + 1 |-> IF k < i THEN q[k] ELSE IF k = i THEN x ELSE q[k - 1]]

=============================================================================
