------------------------------- MODULE Fifo -------------------------------
(***************************************************************************)
(* What a shared buffer without OVERWRITE_EN promises its two sides: it    *)
(* stores a bounded number of elements, refuses one more, and gives them   *)
(* out once each, in the order in which they came.                         *)
(***************************************************************************)
EXTENDS Naturals, Sequences

CONSTANTS
    Data,       \* the elements
    Capacity    \* how many elements are stored at most

VARIABLES
    stored,     \* the elements put and not yet taken
    taken       \* the element that was taken last, any one at first

Init == stored = <<>> /\ taken \in Data

Put(x) ==
    /\ Len(stored) < Capacity
    /\ stored' = Append(stored, x)
    /\ UNCHANGED taken

Get ==
    /\ stored # <<>>
    /\ taken' = Head(stored)
    /\ stored' = Tail(stored)

Next == (\E x \in Data : Put(x)) \/ Get

Spec == Init /\ [][Next]_<<stored, taken>>

=============================================================================
