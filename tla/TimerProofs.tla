---------------------------- MODULE TimerProofs ----------------------------
(***************************************************************************)
(* Proofs about the timer lists: when every timer belongs to one pCPU,     *)
(* the lists stay sorted, the handler stays on its own list, a pCPU with a *)
(* timer on its list is always armed for it, and no periodic timer is      *)
(* dropped.                                                                *)
(***************************************************************************)
EXTENDS Timer, WellFoundedInduction, TLAPS

-----------------------------------------------------------------------------
(* Lists in general.                                                       *)

(* Every entry of q precedes the later ones in the relation R.             *)
ordered(q, R) == \A i, j \in DOMAIN q : i < j => <<q[i], q[j]>> \in R
irreflexive(R) == \A x : <<x, x>> \notin R

(* In the order R, t comes before the entries of `later' and what follows  *)
(* them in q, and after the others.                                        *)
fits(q, t, later, R) ==
    /\ \A x \in Range(q) : x \notin later => <<x, t>> \in R
    /\ \A x \in Range(q) : x \in later => <<t, x>> \in R
    /\ \A x, y \in Range(q) : x \in later /\ <<x, y>> \in R => <<t, y>> \in R

(* An empty list has no entries.                                           *)
LEMMA EmptyQueue ==
    ASSUME NEW S, NEW q \in Seq(S)
    PROVE  /\ q = <<>> <=> Range(q) = {}
           /\ q # <<>> => Head(q) = q[1] /\ q[1] \in Range(q)
<1>1. q # <<>> => 1 \in DOMAIN q /\ Head(q) = q[1]
    OBVIOUS
<1>2. q = <<>> => DOMAIN q = {}
    OBVIOUS
<1> QED BY Zenon, <1>1, <1>2 DEF Range

(* The head of a list is one of its entries.                               *)
LEMMA HeadIn == ASSUME NEW S, NEW q \in Seq(S), q # <<>> PROVE Head(q) \in S
OBVIOUS

(* The entries of a list are of its type.                                  *)
LEMMA EntryIn == ASSUME NEW S, NEW q \in Seq(S) PROVE Range(q) \subseteq S
BY DEF Range

(* A set of places that is not empty has a first one.                      *)
LEMMA Least ==
    ASSUME NEW S \in SUBSET Nat, S # {}
    PROVE  \E i \in S : \A j \in S : i <= j
<1> DEFINE less == OpToRel(<, Nat)
<1>1. PICK i \in S : \A j \in S : <<j, i>> \notin less
    BY Zenon, NatLessThanWellFounded, WFMin
<1>2. \A j \in S : ~(j < i)
    BY Zenon, <1>1 DEF OpToRel
<1> QED BY <1>2

(* list_del_init of an entry leaves the others, in their order.            *)
LEMMA WithoutOrdered ==
    ASSUME NEW S, NEW q \in Seq(S), NEW o, NEW R, ordered(q, R), irreflexive(R)
    PROVE  /\ without(q, o) \in Seq(S) /\ ordered(without(q, o), R)
           /\ Range(without(q, o)) = Range(q) \ {o}
<1>1. CASE o \notin Range(q)
    BY Zenon, <1>1 DEF without
<1>2. CASE o \in Range(q)
    <2> DEFINE spot == CHOOSE k \in DOMAIN q : q[k] = o
               r == [k \in 1 .. Len(q) - 1 |-> IF k < spot THEN q[k] ELSE q[k + 1]]
    <2>1. spot \in 1 .. Len(q) /\ q[spot] = o
        BY <1>2 DEF Range
    <2>2. without(q, o) = r
        BY Zenon, <1>2 DEF without
    <2> HIDE DEF spot
    <2>3. /\ r \in Seq(S) /\ Len(r) = Len(q) - 1
          /\ \A i \in 1 .. Len(r) : r[i] = IF i < spot THEN q[i] ELSE q[i + 1]
        BY <2>1
    <2> HIDE DEF r
    <2>4. ordered(r, R)
        <3> SUFFICES ASSUME NEW i \in 1 .. Len(r), NEW j \in 1 .. Len(r), i < j
                     PROVE  <<r[i], r[j]>> \in R
            <4>1. DOMAIN r = 1 .. Len(r)
                BY <2>3
            <4> QED BY Zenon, <4>1 DEF ordered
        <3> DEFINE k == IF i < spot THEN i ELSE i + 1
                   l == IF j < spot THEN j ELSE j + 1
        <3>1. r[i] = q[k] /\ r[j] = q[l] /\ k \in 1 .. Len(q) /\ l \in 1 .. Len(q) /\ k < l
            BY <2>1, <2>3
        <3> QED BY <3>1 DEF ordered
    <2>5. \A i \in 1 .. Len(q) : i # spot => q[i] # o
        <3> SUFFICES ASSUME NEW i \in 1 .. Len(q), i # spot, q[i] = o PROVE FALSE
            BY Zenon
        <3>1. <<o, o>> \in R
            BY <2>1 DEF ordered
        <3> QED BY Zenon, <3>1 DEF irreflexive
    <2>6. Range(r) \subseteq Range(q) \ {o}
        <3> SUFFICES ASSUME NEW i \in 1 .. Len(r) PROVE r[i] \in Range(q) /\ r[i] # o
            <4>1. DOMAIN r = 1 .. Len(r)
                BY <2>3
            <4> QED BY Zenon, <4>1 DEF Range
        <3> DEFINE k == IF i < spot THEN i ELSE i + 1
        <3>1. k \in 1 .. Len(q) /\ k # spot /\ r[i] = q[k]
            BY <2>1, <2>3
        <3> HIDE DEF k
        <3>2. q[k] \in Range(q)
            BY <3>1 DEF Range
        <3> QED BY Zenon, <2>5, <3>1, <3>2
    <2>7. ASSUME NEW x \in Range(q), x # o PROVE x \in Range(r)
        <3>1. PICK i \in 1 .. Len(q) : q[i] = x
            BY DEF Range
        <3>2. i # spot
            BY Zenon, <2>1, <2>7, <3>1
        <3>3. CASE i < spot
            BY SMTT(60), <2>1, <2>3, <3>1, <3>3 DEF Range
        <3>4. CASE i > spot
            <4>1. i - 1 \in 1 .. Len(r) /\ r[i - 1] = x
                BY <2>1, <2>3, <3>1, <3>4
            <4> QED BY <2>3, <4>1 DEF Range
        <3> QED BY <2>1, <3>2, <3>3, <3>4
    <2> QED BY Zenon, <2>2, <2>3, <2>4, <2>6, <2>7
<1> QED BY Zenon, <1>1, <1>2

(* The walk of local_add_timer puts t behind the entries that precede it   *)
(* and before those it precedes; a head that precedes t stays the head.    *)
LEMMA InsertOrdered ==
    ASSUME NEW S, NEW q \in Seq(S), NEW t \in S, NEW later, NEW R, ordered(q, R),
           fits(q, t, later, R)
    PROVE  /\ insert_before(q, t, later) \in Seq(S)
           /\ ordered(insert_before(q, t, later), R)
           /\ Range(insert_before(q, t, later)) = Range(q) \cup {t}
           /\ q # <<>> /\ Head(q) \notin later => Head(insert_before(q, t, later)) = Head(q)
<1> DEFINE spot == CHOOSE k \in 1 .. Len(q) + 1 :
                       /\ k <= Len(q) => q[k] \in later
                       /\ \A j \in 1 .. k - 1 : q[j] \notin later
           r == [k \in 1 .. Len(q) + 1 |->
                    IF k < spot THEN q[k] ELSE IF k = spot THEN t ELSE q[k - 1]]
<1>F. /\ \A x \in Range(q) : x \notin later => <<x, t>> \in R
      /\ \A x \in Range(q) : x \in later => <<t, x>> \in R
      /\ \A x, y \in Range(q) : x \in later /\ <<x, y>> \in R => <<t, y>> \in R
    BY Zenon DEF fits
<1>1. /\ spot \in 1 .. Len(q) + 1
      /\ spot <= Len(q) => q[spot] \in later
      /\ \A j \in 1 .. spot - 1 : q[j] \notin later
    <2> DEFINE T == {k \in 1 .. Len(q) + 1 : k <= Len(q) => q[k] \in later}
    <2>1. T \in SUBSET Nat /\ Len(q) + 1 \in T
        OBVIOUS
    <2> HIDE DEF T
    <2>2. PICK k \in T : \A j \in T : k <= j
        BY Zenon, <2>1, Least
    <2>3. /\ k \in 1 .. Len(q) + 1
          /\ k <= Len(q) => q[k] \in later
          /\ \A j \in 1 .. k - 1 : q[j] \notin later
        BY <2>2 DEF T
    <2> QED BY Zenon, <2>3
<1>2. insert_before(q, t, later) = r
    BY Zenon DEF insert_before
<1> HIDE DEF spot
<1>3. /\ r \in Seq(S) /\ Len(r) = Len(q) + 1
      /\ \A i \in 1 .. Len(r) : r[i] = IF i < spot THEN q[i] ELSE IF i = spot THEN t ELSE q[i - 1]
    BY <1>1
<1> HIDE DEF r
<1>R. /\ Len(q) \in Nat /\ spot \in Nat /\ DOMAIN q = 1 .. Len(q) /\ DOMAIN r = 1 .. Len(q) + 1
      /\ \A i \in 1 .. Len(q) : q[i] \in Range(q)
    BY <1>1, <1>3 DEF Range
<1>V. ASSUME NEW i \in 1 .. Len(q) + 1
      PROVE  /\ i < spot => r[i] = q[i] /\ i \in 1 .. Len(q)
             /\ i = spot => r[i] = t
             /\ i > spot => r[i] = q[i - 1] /\ i - 1 \in 1 .. Len(q)
    BY <1>1, <1>3, <1>R
<1>4. ordered(r, R)
    <2> SUFFICES ASSUME NEW i \in 1 .. Len(q) + 1, NEW j \in 1 .. Len(q) + 1, i < j
                 PROVE  <<r[i], r[j]>> \in R
        BY Zenon, <1>R DEF ordered
    <2>1. CASE j < spot
        <3>1. r[i] = q[i] /\ r[j] = q[j] /\ i \in 1 .. Len(q) /\ j \in 1 .. Len(q)
            BY <1>1, <1>3, <1>R, <2>1
        <3> QED BY Zenon, <1>R, <3>1 DEF ordered
    <2>2. CASE j = spot
        <3>1. r[i] = q[i] /\ r[j] = t /\ i \in 1 .. Len(q) /\ i \in 1 .. spot - 1
            BY <1>1, <1>3, <1>R, <2>2
        <3> QED BY Zenon, <1>1, <1>F, <1>R, <3>1
    <2>3. CASE i < spot /\ j > spot
        <3>1. r[i] = q[i] /\ r[j] = q[j - 1] /\ i \in 1 .. Len(q) /\ j - 1 \in 1 .. Len(q) /\ i < j - 1
            BY <1>R, <1>V, <2>3
        <3> QED BY Zenon, <1>R, <3>1 DEF ordered
    <2>4. CASE i = spot
        <3>1. r[i] = t /\ r[j] = q[j - 1] /\ j - 1 \in 1 .. Len(q) /\ spot \in 1 .. Len(q) /\ spot <= j - 1
            BY <1>1, <1>3, <1>R, <2>4
        <3>2. q[spot] \in later
            BY <1>1, <3>1
        <3>3. CASE spot = j - 1
            BY Zenon, <1>F, <1>R, <3>1, <3>2, <3>3
        <3>4. CASE spot < j - 1
            <4>1. <<q[spot], q[j - 1]>> \in R
                BY Zenon, <1>R, <3>1, <3>4 DEF ordered
            <4> QED BY Zenon, <1>F, <1>R, <3>1, <3>2, <4>1
        <3> QED BY <1>R, <3>1, <3>3, <3>4
    <2>5. CASE i > spot
        <3>1. /\ r[i] = q[i - 1] /\ r[j] = q[j - 1]
              /\ i - 1 \in 1 .. Len(q) /\ j - 1 \in 1 .. Len(q) /\ i - 1 < j - 1
            BY <1>1, <1>3, <1>R, <2>5
        <3> QED BY Zenon, <1>R, <3>1 DEF ordered
    <2> QED BY <1>R, <2>1, <2>2, <2>3, <2>4, <2>5
<1>5. Range(r) \subseteq Range(q) \cup {t}
    <2> SUFFICES ASSUME NEW i \in 1 .. Len(q) + 1 PROVE r[i] \in Range(q) \cup {t}
        BY Zenon, <1>R DEF Range
    <2> QED BY <1>R, <1>V
<1>6. t \in Range(r)
    <2>1. spot \in DOMAIN r /\ r[spot] = t
        BY Zenon, <1>1, <1>R, <1>V
    <2> QED BY Zenon, <2>1 DEF Range
<1>7. ASSUME NEW x \in Range(q) PROVE x \in Range(r)
    <2>1. PICK i \in 1 .. Len(q) : q[i] = x
        BY Zenon, <1>R DEF Range
    <2>2. CASE i < spot
        <3>1. i \in DOMAIN r /\ r[i] = x
            BY <1>R, <1>V, <2>1, <2>2
        <3> QED BY Zenon, <3>1 DEF Range
    <2>3. CASE ~(i < spot)
        <3>1. i + 1 \in 1 .. Len(q) + 1 /\ r[i + 1] = x
            BY <1>R, <1>V, <2>1, <2>3
        <3> QED BY Zenon, <1>R, <3>1 DEF Range
    <2> QED BY Zenon, <2>2, <2>3
<1>8. ASSUME q # <<>>, Head(q) \notin later PROVE Head(r) = Head(q)
    <2>1. Head(q) = q[1] /\ 1 <= Len(q)
        BY <1>8
    <2>2. 1 < spot
        BY <1>1, <1>8, <2>1
    <2> QED BY <1>3, <1>R, <1>V, <2>1, <2>2
<1> QED BY Zenon, <1>2, <1>3, <1>4, <1>5, <1>6, <1>7, <1>8

(* The head of an ordered list precedes every other entry.                 *)
LEMMA HeadFirst ==
    ASSUME NEW S, NEW q \in Seq(S), NEW R, ordered(q, R), NEW x \in Range(q)
    PROVE  q # <<>> /\ (x = Head(q) \/ <<Head(q), x>> \in R)
<1>1. PICK i \in 1 .. Len(q) : q[i] = x
    BY DEF Range
<1>2. q # <<>> /\ Head(q) = q[1] /\ 1 \in DOMAIN q /\ i \in DOMAIN q /\ (i = 1 \/ 1 < i)
    OBVIOUS
<1> QED BY Zenon, <1>1, <1>2 DEF ordered

-----------------------------------------------------------------------------
(* The timer lists.                                                        *)

(* With the timeouts `due', one timer may stand before another.            *)
sooner(due) == {r \in Timer \X Timer : r[1] # r[2] /\ due[r[1]] <= due[r[2]]}

(* Each list is ordered and holds timers of its own pCPU only.             *)
Linked(ls, due) ==
    /\ ls \in [Pcpu -> Seq(Timer)]
    /\ \A p \in Pcpu : ordered(ls[p], sooner(due))
    /\ \A p \in Pcpu : \A t \in Range(ls[p]) : p \in writer[t]

(* The order of the timers, pair by pair; it has no repetitions.           *)
LEMMA Sooner ==
    ASSUME NEW due
    PROVE  /\ \A x, y : <<x, y>> \in sooner(due) <=>
                            x \in Timer /\ y \in Timer /\ x # y /\ due[x] <= due[y]
           /\ irreflexive(sooner(due))
<1>1. \A x, y : <<x, y>> \in sooner(due) <=>
                    x \in Timer /\ y \in Timer /\ x # y /\ due[x] <= due[y]
    BY DEF sooner
<1> QED BY Zenon, <1>1 DEF irreflexive

(* What is on a list is a timer, and is on no other pCPU's list.           *)
LEMMA OneList ==
    ASSUME LocalWriters, NEW ls, NEW due, Linked(ls, due), NEW p \in Pcpu, NEW t \in Range(ls[p])
    PROVE  /\ t \in Timer /\ p \in writer[t]
           /\ \A q \in Pcpu : q # p => t \notin Range(ls[q]) /\ q \notin writer[t]
<1>1. t \in Timer
    BY DEF Linked, Range
<1>2. p \in writer[t]
    BY Zenon DEF Linked
<1>3. ASSUME NEW q \in Pcpu, q \in writer[t] PROVE q = p
    BY Zenon, <1>1, <1>2, <1>3 DEF LocalWriters
<1> QED BY Zenon, <1>1, <1>2, <1>3 DEF Linked

(* A change of the timeouts of timers that are on no list.                 *)
LEMMA OtherTimeouts ==
    ASSUME NEW ls, NEW due, NEW new, Linked(ls, due),
           \A p \in Pcpu : \A t \in Range(ls[p]) : new[t] = due[t]
    PROVE  Linked(ls, new)
<1> SUFFICES ASSUME NEW p \in Pcpu PROVE ordered(ls[p], sooner(new))
    BY Zenon DEF Linked
<1>1. ordered(ls[p], sooner(due))
    BY Zenon DEF Linked
<1> SUFFICES ASSUME NEW i \in DOMAIN ls[p], NEW j \in DOMAIN ls[p], i < j
             PROVE  <<ls[p][i], ls[p][j]>> \in sooner(new)
    BY Zenon DEF ordered
<1>2. <<ls[p][i], ls[p][j]>> \in sooner(due)
    BY Zenon, <1>1 DEF ordered
<1>3. new[ls[p][i]] = due[ls[p][i]] /\ new[ls[p][j]] = due[ls[p][j]]
    BY Zenon DEF Range
<1>4. /\ ls[p][i] \in Timer /\ ls[p][j] \in Timer /\ ls[p][i] # ls[p][j]
      /\ due[ls[p][i]] <= due[ls[p][j]]
    BY Zenon, <1>2, Sooner
<1>5. new[ls[p][i]] <= new[ls[p][j]]
    BY Zenon, <1>3, <1>4
<1> QED BY Zenon, <1>4, <1>5, Sooner

(* list_del_init of t, on whichever list it is.                            *)
LEMMA Unlink ==
    ASSUME Linked(list, timeout), NEW t
    PROVE  /\ Linked(unlinked(t), timeout)
           /\ \A p \in Pcpu : Range(unlinked(t)[p]) = Range(list[p]) \ {t}
<1>1. ASSUME NEW p \in Pcpu
      PROVE  /\ unlinked(t)[p] \in Seq(Timer) /\ ordered(unlinked(t)[p], sooner(timeout))
             /\ Range(unlinked(t)[p]) = Range(list[p]) \ {t}
    <2>1. list[p] \in Seq(Timer) /\ ordered(list[p], sooner(timeout))
        BY DEF Linked
    <2>2. unlinked(t)[p] = without(list[p], t)
        BY DEF unlinked
    <2>3. irreflexive(sooner(timeout))
        BY Zenon, Sooner
    <2>4. /\ without(list[p], t) \in Seq(Timer) /\ ordered(without(list[p], t), sooner(timeout))
          /\ Range(without(list[p], t)) = Range(list[p]) \ {t}
        BY <2>1, <2>3, WithoutOrdered
    <2> QED BY Zenon, <2>2, <2>4
<1>2. unlinked(t) \in [Pcpu -> Seq(Timer)]
    <2>1. unlinked(t) = [p \in Pcpu |-> unlinked(t)[p]]
        BY DEF unlinked
    <2> QED BY Zenon, <1>1, <2>1
<1> QED BY Zenon, <1>1, <1>2 DEF Linked

(* t, which belongs to p and is on no list, gets the timeout due, which    *)
(* makes the timeouts new, and is added to p's list, which makes them ls.  *)
Adds(p, t, due, new, ls) ==
    /\ p \in Pcpu /\ t \in Timer /\ p \in writer[t] /\ t \notin Range(list[p])
    /\ timeout \in [Timer -> Nat] /\ due \in Nat /\ new[t] = due
    /\ \A x \in Timer : x # t => new[x] = timeout[x]
    /\ ls = [list EXCEPT ![p] = local_add_timer(p, t, due)]

(* local_add_timer keeps the list in order, and only a timer that is_head  *)
(* comes first.                                                            *)
LEMMA Link ==
    ASSUME NEW p, NEW t, NEW due, NEW new, NEW ls, Adds(p, t, due, new, ls), Linked(list, new)
    PROVE  /\ Linked(ls, new)
           /\ Range(ls[p]) = Range(list[p]) \cup {t}
           /\ \A q \in Pcpu : q # p => ls[q] = list[q]
           /\ ~is_head(p, due) => list[p] # <<>> /\ Head(ls[p]) = Head(list[p])
<1> DEFINE l == local_add_timer(p, t, due)
<1>A. /\ p \in Pcpu /\ t \in Timer /\ p \in writer[t] /\ t \notin Range(list[p])
      /\ due \in Nat /\ new[t] = due /\ \A x \in Timer : x # t => new[x] = timeout[x]
      /\ ls = [list EXCEPT ![p] = l] /\ timeout \in [Timer -> Nat]
    BY Zenon DEF Adds
<1> HIDE DEF l
<1>1. list \in [Pcpu -> Seq(Timer)] /\ list[p] \in Seq(Timer) /\ ordered(list[p], sooner(new))
    BY <1>A DEF Linked
<1>2. fits(list[p], t, not_earlier(due), sooner(new))
    <2>1. \A x \in Range(list[p]) : x \in Timer /\ x # t
        BY <1>1, <1>A DEF Range
    <2>2. \A x \in Range(list[p]) : new[x] = timeout[x] /\ timeout[x] \in Nat
        BY <1>A, <2>1
    <2>3. ASSUME NEW x \in Range(list[p]), x \notin not_earlier(due) PROVE <<x, t>> \in sooner(new)
        BY <1>A, <2>1, <2>2, <2>3, Sooner DEF not_earlier
    <2>4. ASSUME NEW x \in Range(list[p]), x \in not_earlier(due) PROVE <<t, x>> \in sooner(new)
        BY <1>A, <2>1, <2>2, <2>4, Sooner DEF not_earlier
    <2>5. ASSUME NEW x \in Range(list[p]), NEW y \in Range(list[p]), x \in not_earlier(due),
                 <<x, y>> \in sooner(new)
          PROVE  <<t, y>> \in sooner(new)
        <3>1. new[t] <= new[x] /\ new[x] <= new[y]
            BY Zenon, <2>4, <2>5, Sooner
        <3>2. new[t] <= new[y]
            BY <1>A, <2>2, <3>1
        <3> QED BY Zenon, <1>A, <2>1, <3>2, Sooner
    <2> QED BY Zenon, <2>3, <2>4, <2>5 DEF fits
<1>3. /\ l \in Seq(Timer) /\ ordered(l, sooner(new)) /\ Range(l) = Range(list[p]) \cup {t}
      /\ list[p] # <<>> /\ Head(list[p]) \notin not_earlier(due) => Head(l) = Head(list[p])
    <2>1. l = insert_before(list[p], t, not_earlier(due))
        BY Zenon DEF l, local_add_timer
    <2> QED BY <1>1, <1>2, <1>A, <2>1, InsertOrdered
<1>4. ls \in [Pcpu -> Seq(Timer)] /\ ls[p] = l /\ \A q \in Pcpu : q # p => ls[q] = list[q]
    BY <1>1, <1>3, <1>A
<1>5. ASSUME NEW q \in Pcpu
      PROVE  ordered(ls[q], sooner(new)) /\ \A x \in Range(ls[q]) : q \in writer[x]
    BY Zenon, <1>3, <1>4, <1>A DEF Linked
<1>6. Linked(ls, new)
    BY Zenon, <1>4, <1>5 DEF Linked
<1>7. ~is_head(p, due) => list[p] # <<>> /\ Head(ls[p]) = Head(list[p])
    BY Zenon, <1>3, <1>4 DEF is_head
<1> QED BY Zenon, <1>3, <1>4, <1>6, <1>7

(* What it does to the lists.                                              *)
Added(p, t, due, ls) ==
    /\ Range(ls[p]) = Range(list[p]) \cup {t}
    /\ \A q \in Pcpu : q # p => ls[q] = list[q]
    /\ ~is_head(p, due) => list[p] # <<>> /\ Head(ls[p]) = Head(list[p])

(* The lists after local_add_timer.                                        *)
LEMMA LinkAdds ==
    ASSUME NEW p, NEW t, NEW due, NEW new, NEW ls, Adds(p, t, due, new, ls), Linked(list, new)
    PROVE  Added(p, t, due, ls)
BY Link DEF Added

(* From a node of p's list, list_for_each goes to another node of p's      *)
(* list, or to its head.                                                   *)
LEMMA Successor ==
    ASSUME LocalWriters, NEW ls, NEW due, Linked(ls, due), NEW p \in Pcpu,
           NEW x \in Range(ls[p]) \cup {p}
    PROVE  /\ successor(ls, x) \in Range(ls[p]) \cup {p}
           /\ x \in Timer => successor(ls, x) # x
<1> DEFINE R(q) == ring(ls[q], q)
<1>T. \A q \in Pcpu : ls[q] \in Seq(Timer)
    BY DEF Linked
<1>R. ASSUME NEW q \in Pcpu
      PROVE  /\ Len(ls[q]) \in Nat /\ DOMAIN ls[q] = 1 .. Len(ls[q])
             /\ \A i \in 1 .. Len(ls[q]) : R(q)[i] = ls[q][i] /\ R(q)[i] \in Range(ls[q])
             /\ R(q)[0] = q /\ R(q)[Len(ls[q]) + 1] = q
    BY <1>T DEF ring, Range
<1>N. \A y : y \in nexts(ls, x) <=>
                \E q \in Pcpu : \E i \in 0 .. Len(ls[q]) : R(q)[i] = x /\ y = R(q)[i + 1]
    BY DEF nexts
<1> HIDE DEF R
<1>D. /\ p \notin Timer
      /\ x \in Timer => x \in Range(ls[p])
    BY Zenon, NodesDistinct
<1>1. nexts(ls, x) # {}
    <2>1. \E i \in 0 .. Len(ls[p]) : R(p)[i] = x
        <3>1. CASE x = p
            BY <1>R, <3>1
        <3>2. CASE x \in Range(ls[p])
            <4>1. PICK i \in DOMAIN ls[p] : ls[p][i] = x
                BY Zenon, <3>2 DEF Range
            <4>2. i \in 1 .. Len(ls[p]) /\ i \in 0 .. Len(ls[p])
                BY <1>R
            <4> QED BY Zenon, <1>R, <4>1, <4>2
        <3> QED BY Zenon, <3>1, <3>2
    <2> QED BY Zenon, <1>N, <2>1
<1>2. ASSUME NEW y \in nexts(ls, x)
      PROVE  y \in Range(ls[p]) \cup {p} /\ (x \in Timer => y # x)
    <2>0. PICK q \in Pcpu : \E i \in 0 .. Len(ls[q]) : R(q)[i] = x /\ y = R(q)[i + 1]
        BY Zenon, <1>N
    <2>1. PICK i \in 0 .. Len(ls[q]) : R(q)[i] = x /\ y = R(q)[i + 1]
        BY Zenon, <2>0
    <2>2. CASE i = 0
        <3>1. x = q /\ q \notin Timer
            BY Zenon, <1>R, <2>1, <2>2, NodesDistinct
        <3>2. q = p
            <4>1. x \notin Range(ls[p])
                BY Zenon, <3>1, OneList
            <4> QED BY Zenon, <3>1, <4>1
        <3>3. CASE Len(ls[p]) = 0
            BY <1>R, <2>1, <2>2, <3>1, <3>2, <3>3
        <3>4. CASE Len(ls[p]) # 0
            <4>1. 1 \in 1 .. Len(ls[p]) /\ i + 1 = 1
                BY <1>R, <2>2, <3>4
            <4> QED BY Zenon, <1>R, <2>1, <3>1, <3>2, <4>1
        <3> QED BY Zenon, <3>3, <3>4
    <2>3. CASE i \in 1 .. Len(ls[q])
        <3>1. x = ls[q][i] /\ x \in Range(ls[q])
            BY Zenon, <1>R, <2>1, <2>3
        <3>2. x \in Timer
            BY Zenon, <3>1, OneList
        <3>3. q = p
            BY Zenon, <1>D, <3>1, <3>2, OneList
        <3>4. CASE i = Len(ls[q])
            BY Zenon, <1>D, <1>R, <2>1, <3>2, <3>3, <3>4
        <3>5. CASE i + 1 \in 1 .. Len(ls[q])
            <4>1. y = ls[q][i + 1] /\ y \in Range(ls[q])
                BY Zenon, <1>R, <2>1, <3>5
            <4>2. i \in DOMAIN ls[q] /\ i + 1 \in DOMAIN ls[q] /\ i < i + 1
                BY <1>R, <2>3, <3>5
            <4>3. <<x, y>> \in sooner(due)
                BY Zenon, <3>1, <4>1, <4>2 DEF Linked, ordered
            <4> QED BY Zenon, <3>3, <4>1, <4>3, Sooner
        <3> QED BY <1>R, <2>3, <3>4, <3>5
    <2> QED BY <1>R, <2>2, <2>3
<1>3. successor(ls, x) \in nexts(ls, x)
    BY Zenon, <1>1 DEF successor
<1> QED BY Zenon, <1>2, <1>3

-----------------------------------------------------------------------------
(* The inductive invariant: where the timers are that are on no list, and  *)
(* the loop's cursor and its saved successor on the list of its pCPU.      *)

Detached(p) ==
    adding[p] # NULL =>
        adding[p] \in Timer /\ adding[p] \notin Range(list[p]) /\ p \in writer[adding[p]]

Running(p) ==
    at[p] = "func" =>
        /\ pos[p] \in Timer /\ pos[p] \notin Range(list[p]) /\ p \in writer[pos[p]]
        /\ pos[p] # adding[p]

Cursor(p) ==
    /\ at[p] # "thread" => n[p] \in Range(list[p]) \cup {p}
    /\ at[p] = "scan" => /\ pos[p] \in Range(list[p]) \cup {p}
                         /\ pos[p] \in Timer => n[p] # pos[p]

Kept(p) == Detached(p) /\ Running(p) /\ Cursor(p)

TimerInv == TypeOK /\ Linked(list, timeout) /\ \A p \in Pcpu : Kept(p)

(* A step that leaves a pCPU's loop and its pending add_timer alone keeps  *)
(* its part of the invariant when its list holds what it held.             *)
LEMMA KeptByOthers ==
    ASSUME NEW p \in Pcpu, Kept(p), Range(list'[p]) = Range(list[p]),
           at'[p] = at[p], pos'[p] = pos[p], n'[p] = n[p], adding'[p] = adding[p]
    PROVE  Kept(p)'
BY Zenon DEF Kept, Detached, Running, Cursor

(* The initial state.                                                      *)
LEMMA TimerInit == Init => TimerInv
<1> SUFFICES ASSUME Init PROVE TimerInv
    OBVIOUS
<1>1. TypeOK
    BY PeriodType, BoundsType DEF Init, TypeOK, Node
<1>2. list = [p \in Pcpu |-> <<>>] /\ \A p \in Pcpu : list[p] = <<>> /\ Range(list[p]) = {}
    BY DEF Init, Range
<1>3. Linked(list, timeout)
    <2>1. list \in [Pcpu -> Seq(Timer)]
        BY Zenon, <1>1 DEF TypeOK
    <2>2. \A p \in Pcpu : ordered(list[p], sooner(timeout))
        BY <1>2 DEF ordered
    <2> QED BY Zenon, <1>2, <2>1, <2>2 DEF Linked
<1>4. \A p \in Pcpu : Kept(p)
    BY <1>2 DEF Init, Kept, Detached, Running, Cursor
<1> QED BY Zenon, <1>1, <1>3, <1>4 DEF TimerInv

(* Unlinking a timer of pCPU c, whose loop is not running, keeps the rest. *)
LEMMA UnlinkKeeps ==
    ASSUME LocalWriters, TimerInv, NEW c \in Pcpu, NEW t \in Timer, c \in writer[t],
           list' = unlinked(t), UNCHANGED loop, at[c] = "thread",
           \A p \in Pcpu : p # c => adding'[p] = adding[p],
           adding'[c] = adding[c] \/ adding'[c] = t
    PROVE  \A p \in Pcpu : Kept(p)'
<1> SUFFICES ASSUME NEW p \in Pcpu PROVE Kept(p)'
    OBVIOUS
<1>1. Linked(list, timeout) /\ Kept(p)
    BY Zenon DEF TimerInv
<1>2. Range(list'[p]) = Range(list[p]) \ {t}
    BY Zenon, <1>1, Unlink
<1>3. at'[p] = at[p] /\ pos'[p] = pos[p] /\ n'[p] = n[p]
    BY DEF loop
<1>4. CASE p = c
    <2>1. Detached(p)'
        BY Zenon, <1>1, <1>2, <1>4 DEF Kept, Detached
    <2>2. at'[p] = "thread"
        BY Zenon, <1>3, <1>4
    <2> QED BY <2>1, <2>2 DEF Kept, Running, Cursor
<1>5. CASE p # c
    <2>1. t \notin Range(list[p])
        <3>1. p \notin writer[t]
            BY Zenon, <1>5 DEF LocalWriters
        <3> QED BY Zenon, <1>1, <3>1 DEF Linked
    <2>2. Range(list'[p]) = Range(list[p])
        BY <1>2, <2>1
    <2> QED BY Zenon, <1>1, <1>3, <1>5, <2>2, KeptByOthers
<1> QED BY Zenon, <1>4, <1>5

(* stimer_handler: the loop starts at the list's head.                     *)
LEMMA StartStep ==
    ASSUME LocalWriters, TimerInv, NEW p \in Pcpu, stimer_handler(p)
    PROVE  TimerInv'
<1>1. Linked(list, timeout) /\ TypeOK
    BY Zenon DEF TimerInv
<1> DEFINE x == successor(list, p)
           y == successor(list, x)
<1>2. x \in Range(list[p]) \cup {p}
    BY Zenon, <1>1, Successor
<1>3. y \in Range(list[p]) \cup {p} /\ (x \in Timer => y # x)
    BY Zenon, <1>1, <1>2, Successor
<1>4. x \in Node /\ y \in Node
    BY Zenon, <1>1, <1>2, <1>3, OneList DEF Node
<1>5. /\ pos' = [pos EXCEPT ![p] = x] /\ n' = [n EXCEPT ![p] = y]
      /\ at' = [at EXCEPT ![p] = "scan"] /\ UNCHANGED <<list, timeout, adding>>
    BY Zenon DEF stimer_handler
<1> HIDE DEF x, y
<1>6. TypeOK'
    <2>1. /\ ssip' = [ssip EXCEPT ![p] = FALSE] /\ stip' = [stip EXCEPT ![p] = FALSE]
          /\ tick' = [tick EXCEPT ![p] = mtime] /\ tries' = [tries EXCEPT ![p] = MaxActions]
          /\ erased' = [erased EXCEPT ![p] = FALSE] /\ UNCHANGED <<mtime, mtimecmp, msip>>
        BY Zenon DEF stimer_handler
    <2>2. MaxActions \in 0 .. Wrap - 1 /\ mtime \in 0 .. MaxTime
        BY <1>1, BoundsType DEF TypeOK
    <2> QED BY <1>1, <1>4, <1>5, <2>1, <2>2 DEF TypeOK
<1>7. Linked(list, timeout)'
    BY Zenon, <1>1, <1>5
<1>8. ASSUME NEW q \in Pcpu PROVE Kept(q)'
    <2>1. Kept(q)
        BY Zenon DEF TimerInv
    <2>2. CASE q = p
        <3>1. /\ at'[q] = "scan" /\ pos'[q] = x /\ n'[q] = y /\ list'[q] = list[q]
              /\ adding'[q] = adding[q]
            BY <1>1, <1>5, <2>2 DEF TypeOK
        <3>2. Detached(q)'
            BY Zenon, <2>1, <3>1 DEF Kept, Detached
        <3>3. Running(q)'
            BY <3>1 DEF Running
        <3>4. Cursor(q)'
            BY Zenon, <1>2, <1>3, <2>2, <3>1 DEF Cursor
        <3> QED BY Zenon, <3>2, <3>3, <3>4 DEF Kept
    <2>3. CASE q # p
        <3>1. /\ at'[q] = at[q] /\ pos'[q] = pos[q] /\ n'[q] = n[q] /\ list'[q] = list[q]
              /\ adding'[q] = adding[q]
            BY <1>1, <1>5, <2>3 DEF TypeOK
        <3> QED BY Zenon, <2>1, <3>1, KeptByOthers
    <2> QED BY Zenon, <2>2, <2>3
<1> QED BY Zenon, <1>6, <1>7, <1>8 DEF TimerInv

(* The loop goes on, in lists that still hold what the loop has saved.     *)
LEMMA LoopStep ==
    ASSUME LocalWriters, TypeOK, NEW p \in Pcpu, Linked(list', timeout'), next_timer(p, list'),
           \A q \in Pcpu : Kept(q), at[p] # "thread", UNCHANGED adding,
           Detached(p)', Range(list[p]) \subseteq Range(list'[p]),
           \A q \in Pcpu : q # p => list'[q] = list[q]
    PROVE  /\ at' \in [Pcpu -> {"thread", "scan", "func"}]
           /\ pos' \in [Pcpu -> Node] /\ n' \in [Pcpu -> Node]
           /\ \A q \in Pcpu : Kept(q)'
<1> DEFINE y == successor(list', n[p])
<1>1. n[p] \in Range(list'[p]) \cup {p}
    BY Zenon DEF Kept, Cursor
<1>2. y \in Range(list'[p]) \cup {p} /\ (n[p] \in Timer => y # n[p])
    BY Zenon, <1>1, Successor
<1>3. y \in Node /\ n[p] \in Node
    BY Zenon, <1>1, <1>2, OneList DEF Node
<1>4. /\ pos' = [pos EXCEPT ![p] = n[p]] /\ n' = [n EXCEPT ![p] = y]
      /\ at' = [at EXCEPT ![p] = "scan"]
    BY Zenon DEF next_timer
<1> HIDE DEF y
<1>5. /\ at' \in [Pcpu -> {"thread", "scan", "func"}]
      /\ pos' \in [Pcpu -> Node] /\ n' \in [Pcpu -> Node]
    BY <1>3, <1>4 DEF TypeOK
<1>6. ASSUME NEW q \in Pcpu PROVE Kept(q)'
    <2>1. CASE q = p
        <3>1. at'[q] = "scan" /\ pos'[q] = n[p] /\ n'[q] = y
            BY <1>4, <2>1 DEF TypeOK
        <3>2. Running(q)'
            BY <3>1 DEF Running
        <3>3. Cursor(q)'
            BY Zenon, <1>1, <1>2, <2>1, <3>1 DEF Cursor
        <3> QED BY Zenon, <2>1, <3>2, <3>3 DEF Kept
    <2>2. CASE q # p
        <3>1. at'[q] = at[q] /\ pos'[q] = pos[q] /\ n'[q] = n[q] /\ list'[q] = list[q]
            BY <1>4, <2>2 DEF TypeOK
        <3> QED BY Zenon, <3>1, KeptByOthers
    <2> QED BY Zenon, <2>1, <2>2
<1> QED BY Zenon, <1>5, <1>6

(* A pass of the loop: the timer is unlinked and run, or passed.           *)
LEMMA PassStep ==
    ASSUME LocalWriters, TimerInv, NEW p \in Pcpu, expire_or_pass(p)
    PROVE  TimerInv'
<1> DEFINE t == pos[p]
           left == (tries[p] - 1) % Wrap
<1>1. Linked(list, timeout) /\ TypeOK /\ \A q \in Pcpu : Kept(q)
    BY Zenon DEF TimerInv
<1>2. /\ at[p] = "scan" /\ t \in Timer /\ tries' = [tries EXCEPT ![p] = left]
      /\ UNCHANGED <<mtime, mtimecmp, stip, ssip, msip, timeout, tick, adding, erased>>
    BY DEF expire_or_pass, hw
<1>3. t \in Range(list[p]) /\ n[p] # t
    <2>1. pos[p] \in Range(list[p]) \cup {p} /\ n[p] # pos[p]
        BY Zenon, <1>1, <1>2 DEF Kept, Cursor
    <2> QED BY Zenon, <1>2, <2>1, NodesDistinct
<1>4. left \in 0 .. Wrap - 1
    <2>1. tries[p] \in Int /\ Wrap \in Nat /\ Wrap > 0
        BY <1>1, BoundsType DEF TypeOK
    <2> QED BY <2>1
<1>5. \/ list' = unlinked(t) /\ at' = [at EXCEPT ![p] = "func"] /\ UNCHANGED <<pos, n>>
      \/ next_timer(p, list) /\ UNCHANGED list
    BY Zenon DEF expire_or_pass
<1> HIDE DEF left
<1>6. CASE list' = unlinked(t) /\ at' = [at EXCEPT ![p] = "func"] /\ UNCHANGED <<pos, n>>
    <2>1. /\ Linked(list', timeout')
          /\ \A q \in Pcpu : Range(list'[q]) = Range(list[q]) \ {t}
        BY Zenon, <1>1, <1>2, <1>6, Unlink
    <2>2. list' \in [Pcpu -> Seq(Timer)]
        BY Zenon, <2>1 DEF Linked
    <2>3. TypeOK'
        BY <1>1, <1>2, <1>4, <1>6, <2>2 DEF TypeOK
    <2>4. ASSUME NEW q \in Pcpu PROVE Kept(q)'
        <3>1. CASE q = p
            <4>1. at'[q] = "func" /\ pos'[q] = t /\ n'[q] = n[q] /\ adding'[q] = adding[q]
                BY <1>1, <1>2, <1>6, <3>1 DEF TypeOK
            <4>2. Detached(q)'
                BY Zenon, <1>1, <2>1, <4>1 DEF Kept, Detached
            <4>3. Running(q)'
                <5>1. t \notin Range(list'[q])
                    BY <2>1
                <5>2. q \in writer[t]
                    BY Zenon, <1>1, <1>3, <3>1, OneList
                <5>3. t # adding[q]
                    BY Zenon, <1>1, <1>2, <1>3, <3>1, NodesDistinct DEF Kept, Detached
                <5> QED BY Zenon, <1>2, <4>1, <5>1, <5>2, <5>3 DEF Running
            <4>4. Cursor(q)'
                <5>1. n[q] \in Range(list[q]) \cup {q}
                    BY <1>1, <1>2, <3>1 DEF Kept, Cursor
                <5>2. n'[q] \in Range(list'[q]) \cup {q}
                    BY Zenon, <1>3, <2>1, <3>1, <4>1, <5>1
                <5> QED BY <4>1, <5>2 DEF Cursor
            <4> QED BY Zenon, <4>2, <4>3, <4>4 DEF Kept
        <3>2. CASE q # p
            <4>1. t \notin Range(list[q])
                BY Zenon, <1>1, <1>3, <3>2, OneList
            <4>2. Range(list'[q]) = Range(list[q])
                BY <2>1, <4>1
            <4>3. at'[q] = at[q] /\ pos'[q] = pos[q] /\ n'[q] = n[q] /\ adding'[q] = adding[q]
                BY <1>1, <1>2, <1>6, <3>2 DEF TypeOK
            <4> QED BY Zenon, <1>1, <4>2, <4>3, KeptByOthers
        <3> QED BY Zenon, <3>1, <3>2
    <2> QED BY Zenon, <2>1, <2>3, <2>4 DEF TimerInv
<1>7. CASE next_timer(p, list) /\ UNCHANGED list
    <2>1. Linked(list', timeout') /\ next_timer(p, list') /\ at[p] # "thread"
        BY <1>1, <1>2, <1>7
    <2>2. Detached(p)'
        BY Zenon, <1>1, <1>2, <1>7 DEF Kept, Detached
    <2>3. /\ at' \in [Pcpu -> {"thread", "scan", "func"}]
          /\ pos' \in [Pcpu -> Node] /\ n' \in [Pcpu -> Node]
          /\ \A q \in Pcpu : Kept(q)'
        BY Zenon, <1>1, <1>2, <1>7, <2>1, <2>2, LoopStep
    <2>4. TypeOK'
        BY <1>1, <1>2, <1>4, <1>7, <2>3 DEF TypeOK
    <2> QED BY Zenon, <2>1, <2>3, <2>4 DEF TimerInv
<1> QED BY Zenon, <1>5, <1>6, <1>7

(* The timer's function has returned.                                      *)
LEMMA FuncStep ==
    ASSUME LocalWriters, TimerInv, NEW p \in Pcpu, func_returns(p)
    PROVE  TimerInv'
<1> DEFINE t == pos[p]
           due == mtime + period[t]
<1>1. Linked(list, timeout) /\ TypeOK /\ \A q \in Pcpu : Kept(q)
    BY Zenon DEF TimerInv
<1>2. /\ at[p] = "func" /\ next_timer(p, list')
      /\ UNCHANGED <<mtime, mtimecmp, stip, ssip, msip, tick, tries, adding, erased>>
    BY DEF func_returns, hw
<1>3. t \in Timer /\ t \notin Range(list[p]) /\ p \in writer[t] /\ t # adding[p]
    BY Zenon, <1>1, <1>2 DEF Kept, Running
<1>4. due \in 0 .. Disabled /\ due \in Nat
    <2>1. mtime \in 0 .. MaxTime /\ period[t] \in Nat /\ Disabled > MaxTime + period[t]
        BY <1>1, <1>3, PeriodType, BoundsType DEF TypeOK
    <2> QED BY <2>1, BoundsType
<1>5. \/ /\ timeout' = [timeout EXCEPT ![t] = due]
         /\ list' = [list EXCEPT ![p] = local_add_timer(p, t, due)]
      \/ UNCHANGED <<timeout, list>>
    BY Zenon DEF func_returns
<1> HIDE DEF due
<1>6. /\ Linked(list', timeout') /\ timeout' \in [Timer -> 0 .. Disabled]
      /\ Range(list'[p]) \subseteq Range(list[p]) \cup {t}
      /\ Range(list[p]) \subseteq Range(list'[p])
      /\ \A q \in Pcpu : q # p => list'[q] = list[q]
    <2>1. CASE /\ timeout' = [timeout EXCEPT ![t] = due]
               /\ list' = [list EXCEPT ![p] = local_add_timer(p, t, due)]
        <3>1. /\ timeout' \in [Timer -> 0 .. Disabled] /\ timeout \in [Timer -> Nat]
              /\ timeout'[t] = due /\ \A x \in Timer : x # t => timeout'[x] = timeout[x]
            BY <1>1, <1>3, <1>4, <2>1, BoundsType DEF TypeOK
        <3>2. \A q \in Pcpu : \A x \in Range(list[q]) : x \in Timer /\ x # t
            BY Zenon, <1>1, <1>3, OneList
        <3>3. Linked(list, timeout')
            <4>1. \A q \in Pcpu : \A x \in Range(list[q]) : timeout'[x] = timeout[x]
                BY Zenon, <3>1, <3>2
            <4> QED BY Zenon, <1>1, <4>1, OtherTimeouts
        <3>4. /\ Linked(list', timeout')
              /\ Range(list'[p]) = Range(list[p]) \cup {t}
              /\ \A q \in Pcpu : q # p => list'[q] = list[q]
            <4>1. Adds(p, t, due, timeout', list')
                BY Zenon, <1>3, <1>4, <2>1, <3>1 DEF Adds
            <4> QED BY <3>3, <4>1, Link
        <3> QED BY Zenon, <3>1, <3>4
    <2>2. CASE UNCHANGED <<timeout, list>>
        <3>1. timeout' = timeout /\ list' = list
            BY <2>2
        <3> QED BY Zenon, <1>1, <3>1 DEF TypeOK
    <2> QED BY Zenon, <1>5, <2>1, <2>2
<1>7. Detached(p)'
    <2>1. adding'[p] = adding[p]
        BY <1>2
    <2> QED BY Zenon, <1>1, <1>3, <1>6, <2>1 DEF Kept, Detached
<1>8. /\ at' \in [Pcpu -> {"thread", "scan", "func"}]
      /\ pos' \in [Pcpu -> Node] /\ n' \in [Pcpu -> Node]
      /\ \A q \in Pcpu : Kept(q)'
    <2>1. at[p] # "thread" /\ UNCHANGED adding
        BY <1>2
    <2> QED BY Zenon, <1>1, <1>2, <1>6, <1>7, <2>1, LoopStep
<1>9. TypeOK'
    <2>1. list' \in [Pcpu -> Seq(Timer)]
        BY Zenon, <1>6 DEF Linked
    <2> QED BY <1>1, <1>2, <1>6, <1>8, <2>1 DEF TypeOK
<1> QED BY Zenon, <1>6, <1>8, <1>9 DEF TimerInv

(* What set_deadline writes is a value of the compare register.            *)
LEMMA Deadline ==
    ASSUME TypeOK, NEW p \in Pcpu, NEW l, l \in Seq(Timer),
           update_physical_timer(p, l, timeout)
    PROVE  mtimecmp' \in [Pcpu -> 0 .. Disabled]
<1>1. CASE l = <<>>
    BY <1>1 DEF update_physical_timer, TypeOK
<1>2. CASE l # <<>>
    <2> DEFINE d == IF timeout[Head(l)] < mtime THEN mtime + MinPeriod ELSE timeout[Head(l)]
    <2>1. mtimecmp' = [mtimecmp EXCEPT ![p] = d]
        BY Zenon, <1>2 DEF update_physical_timer, set_deadline
    <2>2. Head(l) \in Timer
        BY <1>2
    <2>3. timeout[Head(l)] \in 0 .. Disabled /\ mtime \in 0 .. MaxTime
        BY Zenon, <2>2 DEF TypeOK
    <2>4. d \in 0 .. Disabled
        BY <2>3, BoundsType
    <2> HIDE DEF d
    <2> QED BY <2>1, <2>4 DEF TypeOK
<1> QED BY Zenon, <1>1, <1>2

(* The handler returns.                                                    *)
LEMMA ReturnStep ==
    ASSUME LocalWriters, TimerInv, NEW p \in Pcpu, handler_returns(p)
    PROVE  TimerInv'
<1>1. Linked(list, timeout) /\ TypeOK /\ \A q \in Pcpu : Kept(q)
    BY Zenon DEF TimerInv
<1>2. /\ at' = [at EXCEPT ![p] = "thread"] /\ tick' = [tick EXCEPT ![p] = 0]
      /\ tries' = [tries EXCEPT ![p] = 0] /\ n' = [n EXCEPT ![p] = p]
      /\ UNCHANGED <<mtime, stip, ssip, msip, list, timeout, pos, adding, erased>>
    BY Zenon DEF handler_returns
<1>3. mtimecmp' \in [Pcpu -> 0 .. Disabled]
    <2>1. list[p] \in Seq(Timer) /\ update_physical_timer(p, list[p], timeout)
        BY <1>1 DEF TypeOK, handler_returns
    <2> QED BY Zenon, <1>1, <2>1, Deadline
<1>4. TypeOK'
    <2>1. 0 \in 0 .. MaxTime /\ 0 \in 0 .. Wrap - 1 /\ p \in Node
        BY BoundsType DEF Node
    <2> QED BY <1>1, <1>2, <1>3, <2>1 DEF TypeOK
<1>5. ASSUME NEW q \in Pcpu PROVE Kept(q)'
    <2>1. CASE q = p
        <3>1. at'[q] = "thread"
            BY <1>1, <1>2, <2>1 DEF TypeOK
        <3>2. Detached(q)'
            BY Zenon, <1>1, <1>2 DEF Kept, Detached
        <3> QED BY <3>1, <3>2 DEF Kept, Running, Cursor
    <2>2. CASE q # p
        <3>1. /\ at'[q] = at[q] /\ pos'[q] = pos[q] /\ n'[q] = n[q] /\ list'[q] = list[q]
              /\ adding'[q] = adding[q]
            BY <1>1, <1>2, <2>2 DEF TypeOK
        <3> QED BY Zenon, <1>1, <3>1, KeptByOthers
    <2> QED BY Zenon, <2>1, <2>2
<1>6. Linked(list', timeout')
    BY Zenon, <1>1, <1>2
<1> QED BY Zenon, <1>4, <1>5, <1>6 DEF TimerInv

(* A user of the timer takes it off its list to give it a new timeout.     *)
LEMMA SetStep ==
    ASSUME LocalWriters, TimerInv, NEW c \in Pcpu, NEW t \in Timer, NEW due \in 0 .. MaxTime,
           set_timeout(c, t, due)
    PROVE  TimerInv'
<1>1. Linked(list, timeout) /\ TypeOK /\ \A q \in Pcpu : Kept(q)
    BY Zenon DEF TimerInv
<1>2. /\ at[c] = "thread" /\ c \in writer[t] /\ list' = unlinked(t)
      /\ timeout' = [timeout EXCEPT ![t] = due] /\ adding' = [adding EXCEPT ![c] = t]
      /\ UNCHANGED <<mtime, mtimecmp, stip, ssip, msip, erased>> /\ UNCHANGED loop
    BY DEF set_timeout, thread, hw
<1>3. /\ Linked(list', timeout)
      /\ \A q \in Pcpu : Range(list'[q]) = Range(list[q]) \ {t}
    BY Zenon, <1>1, <1>2, Unlink
<1>4. timeout' \in [Timer -> 0 .. Disabled] /\ \A x \in Timer : x # t => timeout'[x] = timeout[x]
    <2>1. due \in 0 .. Disabled
        BY BoundsType
    <2> QED BY <1>1, <1>2, <2>1 DEF TypeOK
<1>5. Linked(list', timeout')
    <2>1. ASSUME NEW q \in Pcpu, NEW x \in Range(list'[q]) PROVE timeout'[x] = timeout[x]
        <3>1. x \in Timer
            BY Zenon, <1>3, OneList
        <3>2. x # t
            BY <1>3
        <3> QED BY Zenon, <1>4, <3>1, <3>2
    <2> QED BY Zenon, <1>3, <2>1, OtherTimeouts
<1>6. TypeOK'
    <2>1. list' \in [Pcpu -> Seq(Timer)]
        BY Zenon, <1>5 DEF Linked
    <2>2. adding' \in [Pcpu -> Timer \cup {NULL}] /\ UNCHANGED <<at, tick, tries, pos, n>>
        BY <1>1, <1>2 DEF TypeOK, loop
    <2> QED BY <1>1, <1>2, <1>4, <2>1, <2>2 DEF TypeOK
<1>7. \A q \in Pcpu : Kept(q)'
    <2>1. adding'[c] = t /\ \A q \in Pcpu : q # c => adding'[q] = adding[q]
        BY <1>1, <1>2 DEF TypeOK
    <2> QED BY Zenon, <1>2, <2>1, UnlinkKeeps
<1> QED BY Zenon, <1>5, <1>6, <1>7 DEF TimerInv

(* del_timer.                                                              *)
LEMMA DelStep ==
    ASSUME LocalWriters, TimerInv, NEW c \in Pcpu, NEW t \in Timer, del_timer(c, t)
    PROVE  TimerInv'
<1>1. Linked(list, timeout) /\ TypeOK
    BY Zenon DEF TimerInv
<1>2. /\ at[c] = "thread" /\ c \in writer[t] /\ list' = unlinked(t)
      /\ UNCHANGED <<mtime, mtimecmp, stip, ssip, msip, timeout, adding, erased>>
      /\ UNCHANGED loop
    BY DEF del_timer, thread, hw
<1>3. Linked(list', timeout')
    BY Zenon, <1>1, <1>2, Unlink
<1>4. TypeOK'
    <2>1. list' \in [Pcpu -> Seq(Timer)]
        BY Zenon, <1>3 DEF Linked
    <2> QED BY <1>1, <1>2, <2>1 DEF TypeOK, loop
<1>5. \A q \in Pcpu : Kept(q)'
    BY Zenon, <1>2, UnlinkKeeps
<1> QED BY Zenon, <1>3, <1>4, <1>5 DEF TimerInv

(* add_timer.                                                              *)
LEMMA AddStep ==
    ASSUME LocalWriters, TimerInv, NEW c \in Pcpu, add_timer(c)
    PROVE  TimerInv'
<1> DEFINE t == adding[c]
<1>1. Linked(list, timeout) /\ TypeOK /\ \A q \in Pcpu : Kept(q)
    BY Zenon DEF TimerInv
<1>2. /\ at[c] = "thread" /\ t # NULL /\ adding' = [adding EXCEPT ![c] = NULL]
      /\ UNCHANGED <<mtime, stip, ssip, msip, timeout, at, tick, tries, pos, n, erased>>
    BY DEF add_timer, loop
<1>3. t \in Timer /\ t \notin Range(list[c]) /\ c \in writer[t]
    BY Zenon, <1>1, <1>2 DEF Kept, Detached
<1>4. \/ /\ list' = [list EXCEPT ![c] = local_add_timer(c, t, timeout[t])]
         /\ update_physical_timer(c, list'[c], timeout) \/ UNCHANGED mtimecmp
      \/ UNCHANGED <<list, mtimecmp>>
    BY Zenon DEF add_timer
<1>5. /\ Linked(list', timeout') /\ \A q \in Pcpu : q # c => list'[q] = list[q]
    <2>1. CASE list' = [list EXCEPT ![c] = local_add_timer(c, t, timeout[t])]
        <3>1. timeout \in [Timer -> Nat] /\ timeout[t] \in Nat
            BY <1>1, <1>3 DEF TypeOK
        <3>2. timeout' = timeout
            BY <1>2
        <3>3. /\ Linked(list', timeout)
              /\ \A q \in Pcpu : q # c => list'[q] = list[q]
            <4>1. Adds(c, t, timeout[t], timeout, list')
                BY Zenon, <1>3, <2>1, <3>1 DEF Adds
            <4> QED BY <1>1, <4>1, Link
        <3> QED BY Zenon, <3>2, <3>3
    <2>2. CASE UNCHANGED list
        BY Zenon, <1>1, <1>2, <2>2
    <2> QED BY <1>4, <2>1, <2>2
<1>6. list' \in [Pcpu -> Seq(Timer)] /\ list'[c] \in Seq(Timer)
    BY Zenon, <1>5 DEF Linked
<1>7. mtimecmp' \in [Pcpu -> 0 .. Disabled]
    <2>1. UNCHANGED mtimecmp => mtimecmp' \in [Pcpu -> 0 .. Disabled]
        BY Zenon, <1>1 DEF TypeOK
    <2>2. update_physical_timer(c, list'[c], timeout) => mtimecmp' \in [Pcpu -> 0 .. Disabled]
        BY Zenon, <1>1, <1>6, Deadline
    <2> QED BY <1>4, <2>1, <2>2
<1>8. TypeOK'
    BY <1>1, <1>2, <1>6, <1>7 DEF TypeOK
<1>9. ASSUME NEW q \in Pcpu PROVE Kept(q)'
    <2>1. CASE q = c
        <3>1. at'[q] = "thread" /\ adding'[q] = NULL
            BY <1>1, <1>2, <2>1 DEF TypeOK
        <3> QED BY <3>1 DEF Kept, Detached, Running, Cursor
    <2>2. CASE q # c
        <3>1. /\ at'[q] = at[q] /\ pos'[q] = pos[q] /\ n'[q] = n[q] /\ list'[q] = list[q]
              /\ adding'[q] = adding[q]
            BY <1>1, <1>2, <1>5, <2>2 DEF TypeOK
        <3> QED BY Zenon, <1>1, <3>1, KeptByOthers
    <2> QED BY Zenon, <2>1, <2>2
<1> QED BY Zenon, <1>5, <1>8, <1>9 DEF TimerInv

(* The hardware, the machine-mode handlers and sswi_handler.               *)
hardware ==
    \/ time_passes
    \/ \E p \in Pcpu : \/ mtimer_handler(p) \/ mswi_handler(p)
                       \/ send_single_swi(p) \/ sswi_handler(p)

(* They leave the lists and the loops alone.                               *)
LEMMA HardwareStep ==
    ASSUME TimerInv, hardware
    PROVE  TimerInv' /\ UNCHANGED <<list, timeout, at, tick, tries, pos, n, adding>>
<1>1. Linked(list, timeout) /\ TypeOK /\ \A q \in Pcpu : Kept(q)
    BY Zenon DEF TimerInv
<1>2. UNCHANGED <<list, timeout, at, tick, tries, pos, n, adding>>
    BY DEF hardware, time_passes, mtimer_handler, mswi_handler, send_single_swi, sswi_handler, loop
<1>3. TypeOK'
    <2>1. CASE time_passes
        BY <1>1, <1>2, <2>1, BoundsType DEF time_passes, hw, TypeOK
    <2>2. ASSUME NEW p \in Pcpu, mtimer_handler(p) PROVE TypeOK'
        BY <1>1, <1>2, <2>2, BoundsType DEF mtimer_handler, TypeOK
    <2>3. ASSUME NEW p \in Pcpu, mswi_handler(p) PROVE TypeOK'
        BY <1>1, <1>2, <2>3 DEF mswi_handler, TypeOK
    <2>4. ASSUME NEW p \in Pcpu, send_single_swi(p) PROVE TypeOK'
        BY <1>1, <1>2, <2>4 DEF send_single_swi, TypeOK
    <2>5. ASSUME NEW p \in Pcpu, sswi_handler(p) PROVE TypeOK'
        BY <1>1, <1>2, <2>5 DEF sswi_handler, TypeOK
    <2> QED BY Zenon, <2>1, <2>2, <2>3, <2>4, <2>5 DEF hardware
<1>4. Linked(list', timeout') /\ \A q \in Pcpu : Kept(q)'
    <2>1. /\ list' = list /\ timeout' = timeout /\ at' = at /\ pos' = pos /\ n' = n
          /\ adding' = adding
        BY <1>2
    <2> QED BY Zenon, <1>1, <2>1, KeptByOthers
<1> QED BY Zenon, <1>2, <1>3, <1>4 DEF TimerInv

(* The steps of Next, by the part of the code they are of.                 *)
LEMMA Steps ==
    ASSUME TypeOK, Next
    PROVE  \/ hardware
           \/ \E p \in Pcpu : \/ stimer_handler(p) \/ expire_or_pass(p)
                              \/ func_returns(p) \/ handler_returns(p) \/ add_timer(p)
           \/ \E p \in Pcpu, t \in Timer :
                \/ \E due \in 0 .. MaxTime : set_timeout(p, t, due)
                \/ del_timer(p, t)
<1>1. ASSUME NEW p \in Pcpu, users(p)
      PROVE  \E t \in Timer : \/ \E due \in 0 .. MaxTime : set_timeout(p, t, due)
                              \/ del_timer(p, t)
    <2>1. PICK t \in Timer : \/ \E data \in 0 .. MaxTime : vclint_write_tmr(p, t, data)
                             \/ setup_periodic(p, t)
                             \/ del_timer(p, t)
        BY Zenon, <1>1 DEF users
    <2>2. CASE \E data \in 0 .. MaxTime : vclint_write_tmr(p, t, data)
        BY Zenon, <2>2 DEF vclint_write_tmr
    <2>3. CASE setup_periodic(p, t)
        <3>1. mtime + period[t] \in 0 .. MaxTime
            BY <2>3, PeriodType, BoundsType DEF setup_periodic, TypeOK
        <3> QED BY Zenon, <2>3, <3>1 DEF setup_periodic
    <2> QED BY Zenon, <2>1, <2>2, <2>3
<1> QED BY Zenon, <1>1 DEF Next, hardware, timer_deadline_handler

-----------------------------------------------------------------------------
(* The theorems.                                                           *)

(* The invariant is inductive.                                             *)
LEMMA TimerStep ==
    ASSUME LocalWriters, TimerInv, [Next]_vars
    PROVE  TimerInv'
<1>1. CASE UNCHANGED vars
    <2>1. /\ list' = list /\ timeout' = timeout /\ at' = at /\ pos' = pos /\ n' = n
          /\ adding' = adding
        BY <1>1 DEF vars, loop
    <2>2. TypeOK'
        BY <1>1 DEF TimerInv, TypeOK, vars, hw, loop
    <2>3. Linked(list', timeout') /\ \A q \in Pcpu : Kept(q)'
        BY Zenon, <2>1, KeptByOthers DEF TimerInv
    <2> QED BY Zenon, <2>2, <2>3 DEF TimerInv
<1>2. CASE Next
    <2>1. TypeOK
        BY Zenon DEF TimerInv
    <2> QED BY Zenon, <1>2, <2>1, Steps, HardwareStep, StartStep, PassStep, FuncStep, ReturnStep,
            AddStep, SetStep, DelStep
<1> QED BY Zenon, <1>1, <1>2

(* The timers are well-formed for ever: the variables keep their types,    *)
(* each list its order and its pCPU's timers, and the loops their cursors. *)
THEOREM TimerCorrect ==
    ASSUME LocalWriters
    PROVE  Spec => []TimerInv
<1>1. TimerInv /\ [Next]_vars => TimerInv'
    BY Zenon, TimerStep
<1> QED BY PTL, TimerInit, <1>1 DEF Spec

(* ListsSorted: every list of cpu_timers stays ordered by timeout without  *)
(* repetitions, through every unlinking, change of a timeout and insertion *)
(* by the users and by the handler in the middle of its walk.              *)
THEOREM ListsStaySorted ==
    ASSUME LocalWriters
    PROVE  Spec => []ListsSorted
<1>1. ASSUME TimerInv PROVE ListsSorted
    <2>1. Linked(list, timeout)
        BY Zenon, <1>1 DEF TimerInv
    <2>2. ASSUME NEW p \in Pcpu, NEW i \in DOMAIN list[p], NEW j \in DOMAIN list[p], i < j
          PROVE  /\ timeout[list[p][i]] <= timeout[list[p][j]]
                 /\ list[p][i] # list[p][j]
        <3>1. <<list[p][i], list[p][j]>> \in sooner(timeout)
            BY Zenon, <2>1, <2>2 DEF Linked, ordered
        <3> QED BY Zenon, <3>1, Sooner
    <2>3. ASSUME NEW p \in Pcpu, NEW q \in Pcpu, p # q
          PROVE  Range(list[p]) \cap Range(list[q]) = {}
        BY Zenon, <2>1, <2>3, OneList
    <2> QED BY Zenon, <2>2, <2>3 DEF ListsSorted
<1>2. TimerInv => ListsSorted
    BY Zenon, <1>1
<1> QED BY PTL, TimerCorrect, <1>2

(* HandlerStaysOnList: a timer_deadline_handler that is interrupted in its *)
(* walk by other pCPUs' work never leaves its own list.                    *)
THEOREM HandlerAlwaysOnList ==
    ASSUME LocalWriters
    PROVE  Spec => []HandlerStaysOnList
<1>1. TimerInv => HandlerStaysOnList
    BY Zenon DEF TimerInv, Kept, Cursor, HandlerStaysOnList
<1> QED BY PTL, TimerCorrect, <1>1

-----------------------------------------------------------------------------
(* The compare register.                                                   *)

Armed(p) ==
    list[p] # <<>> /\ ~erased[p] =>
        \/ at[p] # "thread"
        \/ stip[p]
        \/ mtimecmp[p] <= timeout[Head(list[p])]
        \/ mtimecmp[p] <= mtime + MinPeriod

(* What the compare register is after update_physical_timer.               *)
LEMMA Programmed ==
    ASSUME TypeOK, NEW p \in Pcpu, NEW l, l # <<>>, update_physical_timer(p, l, timeout)
    PROVE  /\ \/ mtimecmp'[p] = timeout[Head(l)]
              \/ mtimecmp'[p] = mtime + MinPeriod
           /\ \A q \in Pcpu : q # p => mtimecmp'[q] = mtimecmp[q]
<1> DEFINE d == IF timeout[Head(l)] < mtime THEN mtime + MinPeriod ELSE timeout[Head(l)]
<1>1. mtimecmp' = [mtimecmp EXCEPT ![p] = d] /\ (d = timeout[Head(l)] \/ d = mtime + MinPeriod)
    BY Zenon DEF update_physical_timer, set_deadline
<1> HIDE DEF d
<1>2. mtimecmp'[p] = d /\ \A q \in Pcpu : q # p => mtimecmp'[q] = mtimecmp[q]
    BY <1>1 DEF TypeOK
<1> QED BY Zenon, <1>1, <1>2

(* Times are numbers.                                                      *)
LEMMA Numbers ==
    ASSUME TypeOK
    PROVE  /\ mtime \in Nat /\ mtime + MinPeriod \in Nat
           /\ timeout \in [Timer -> Nat] /\ mtimecmp \in [Pcpu -> Nat]
BY BoundsType DEF TypeOK

(* And ordered as such.                                                    *)
LEMMA Transitive ==
    ASSUME NEW a \in Nat, NEW b \in Nat, NEW c \in Nat, a <= b, b <= c
    PROVE  a <= c
OBVIOUS

(* A list that loses timers is due no earlier than before.                 *)
LEMMA ArmedForLess ==
    ASSUME TimerInv, TimerInv', NEW p \in Pcpu, Armed(p),
           Range(list'[p]) \subseteq Range(list[p]),
           \A x \in Range(list'[p]) : timeout'[x] = timeout[x],
           UNCHANGED <<mtime, mtimecmp, stip, erased>>, at'[p] = at[p]
    PROVE  Armed(p)'
<1> SUFFICES ASSUME list'[p] # <<>>, ~erased[p], at[p] = "thread", ~stip[p]
             PROVE  \/ mtimecmp[p] <= timeout'[Head(list'[p])]
                    \/ mtimecmp[p] <= mtime + MinPeriod
    BY DEF Armed
<1>1. /\ list[p] \in Seq(Timer) /\ list'[p] \in Seq(Timer)
      /\ ordered(list[p], sooner(timeout)) /\ timeout \in [Timer -> 0 .. Disabled]
      /\ mtimecmp[p] \in 0 .. Disabled
    BY DEF TimerInv, TypeOK, Linked
<1> DEFINE h == Head(list'[p])
           g == Head(list[p])
<1>2. h \in Range(list'[p]) /\ h \in Range(list[p]) /\ timeout'[h] = timeout[h]
    BY Zenon, <1>1, EmptyQueue
<1>3. list[p] # <<>> /\ (h = g \/ <<g, h>> \in sooner(timeout))
    BY Zenon, <1>1, <1>2, HeadFirst
<1>4. /\ g \in Timer /\ h \in Timer
      /\ \/ mtimecmp[p] <= timeout[g]
         \/ mtimecmp[p] <= mtime + MinPeriod
    <2>1. g \in Timer
        BY Zenon, <1>1, <1>3, HeadIn
    <2>2. h \in Timer
        BY Zenon, <1>1, HeadIn
    <2> QED BY Zenon, <1>3, <2>1, <2>2 DEF Armed
<1>5. h = g \/ timeout[g] <= timeout[h]
    BY Zenon, <1>3, Sooner
<1> HIDE DEF g, h
<1>7. CASE mtimecmp[p] <= mtime + MinPeriod
    BY Zenon, <1>7
<1>8. CASE mtimecmp[p] <= timeout[g]
    <2>1. mtimecmp[p] <= timeout[h]
        <3>1. mtimecmp[p] \in Nat /\ timeout[g] \in Nat /\ timeout[h] \in Nat
            BY Zenon, <1>1, <1>4, Numbers DEF TimerInv
        <3> QED BY Zenon, <1>5, <1>8, <3>1, Transitive
    <2> QED BY Zenon, <1>2, <2>1 DEF h
<1> QED BY Zenon, <1>4, <1>7, <1>8

(* A step that leaves a pCPU's list and registers alone.                   *)
LEMMA ArmedByOthers ==
    ASSUME NEW p \in Pcpu, Armed(p), mtime' = mtime, list'[p] = list[p],
           list[p] # <<>> => timeout'[Head(list[p])] = timeout[Head(list[p])],
           mtimecmp'[p] = mtimecmp[p], stip'[p] = stip[p], at'[p] = at[p], erased'[p] = erased[p]
    PROVE  Armed(p)'
BY Zenon DEF Armed

(* The hardware's steps keep a pCPU armed: the interrupt that disables the *)
(* register is pending instead, and when it is overwritten it is erased.   *)
LEMMA ArmedByHardware ==
    ASSUME TimerInv, hardware, NEW p \in Pcpu, Armed(p)
    PROVE  Armed(p)'
<1>1. UNCHANGED <<list, timeout, at, tick, tries, pos, n, adding>> /\ TypeOK
    BY Zenon, HardwareStep DEF TimerInv
<1>2. list'[p] = list[p] /\ timeout' = timeout /\ at'[p] = at[p]
    BY <1>1
<1>3. CASE time_passes
    <2>1. mtime' = mtime + 1 /\ mtimecmp' = mtimecmp /\ stip' = stip /\ erased' = erased
        BY <1>3 DEF time_passes, hw
    <2>2. mtimecmp[p] <= mtime + MinPeriod => mtimecmp'[p] <= mtime' + MinPeriod
        BY <1>1, <2>1, BoundsType DEF TypeOK
    <2> QED BY Zenon, <1>2, <2>1, <2>2 DEF Armed
<1>4. ASSUME NEW q \in Pcpu, mtimer_handler(q) PROVE Armed(p)'
    <2>1. /\ stip' = [stip EXCEPT ![q] = TRUE] /\ mtimecmp' = [mtimecmp EXCEPT ![q] = Disabled]
          /\ mtime' = mtime /\ erased' = erased
        BY <1>4 DEF mtimer_handler
    <2>2. CASE q = p
        <3>1. stip'[p]
            BY <1>1, <2>1, <2>2 DEF TypeOK
        <3> QED BY Zenon, <3>1 DEF Armed
    <2>3. CASE q # p
        <3>1. stip'[p] = stip[p] /\ mtimecmp'[p] = mtimecmp[p]
            BY <1>1, <2>1, <2>3 DEF TypeOK
        <3> QED BY Zenon, <1>2, <2>1, <3>1, ArmedByOthers
    <2> QED BY Zenon, <2>2, <2>3
<1>5. ASSUME NEW q \in Pcpu, mswi_handler(q) PROVE Armed(p)'
    <2>1. /\ stip' = [stip EXCEPT ![q] = FALSE] /\ erased' = [erased EXCEPT ![q] = @ \/ stip[q]]
          /\ mtime' = mtime /\ mtimecmp' = mtimecmp
        BY <1>5 DEF mswi_handler
    <2>2. CASE q = p
        <3>1. (erased'[p] <=> erased[p] \/ stip[p])
            BY <1>1, <2>1, <2>2 DEF TypeOK
        <3> QED BY Zenon, <1>2, <2>1, <3>1 DEF Armed
    <2>3. CASE q # p
        <3>1. stip'[p] = stip[p] /\ erased'[p] = erased[p]
            BY <1>1, <2>1, <2>3 DEF TypeOK
        <3> QED BY Zenon, <1>2, <2>1, <3>1, ArmedByOthers
    <2> QED BY Zenon, <2>2, <2>3
<1>6. ASSUME NEW q \in Pcpu, send_single_swi(q) \/ sswi_handler(q) PROVE Armed(p)'
    <2>1. UNCHANGED <<mtime, mtimecmp, stip, erased>>
        BY <1>6 DEF send_single_swi, sswi_handler
    <2>2. mtime' = mtime /\ mtimecmp' = mtimecmp /\ stip' = stip /\ erased' = erased
        BY <2>1
    <2> QED BY Zenon, <1>2, <2>2, ArmedByOthers
<1> QED BY Zenon, <1>3, <1>4, <1>5, <1>6 DEF hardware

(* The handler's steps: while it runs, its pCPU needs no interrupt, and    *)
(* when it returns it programs the register for the first timer left.      *)
LEMMA ArmedByHandler ==
    ASSUME LocalWriters, TimerInv, NEW q \in Pcpu, NEW p \in Pcpu, Armed(p),
           \/ stimer_handler(q) \/ expire_or_pass(q) \/ func_returns(q) \/ handler_returns(q)
    PROVE  Armed(p)'
<1>1. TypeOK /\ Linked(list, timeout) /\ Kept(q)
    BY Zenon DEF TimerInv
<1>2. CASE q = p /\ ~handler_returns(q)
    <2>1. \/ at' = [at EXCEPT ![p] = "scan"]
          \/ at' = [at EXCEPT ![p] = "func"]
        BY <1>2 DEF stimer_handler, expire_or_pass, func_returns, next_timer
    <2>2. at'[p] # "thread"
        BY <1>1, <2>1 DEF TypeOK
    <2> QED BY Zenon, <2>2 DEF Armed
<1>3. CASE q = p /\ handler_returns(q)
    <2>1. /\ update_physical_timer(p, list[p], timeout)
          /\ mtime' = mtime /\ list' = list /\ timeout' = timeout
        BY <1>3 DEF handler_returns
    <2>2. CASE list[p] = <<>>
        BY Zenon, <2>1, <2>2 DEF Armed
    <2>3. CASE list[p] # <<>>
        <3>1. \/ mtimecmp'[p] = timeout[Head(list[p])]
              \/ mtimecmp'[p] = mtime + MinPeriod
            BY Zenon, <1>1, <2>1, <2>3, Programmed
        <3>2. Head(list[p]) \in Timer
            <4>1. list[p] \in Seq(Timer)
                BY Zenon, <1>1 DEF TypeOK
            <4> QED BY Zenon, <2>3, <4>1, HeadIn
        <3>3. timeout[Head(list[p])] \in Nat /\ mtime + MinPeriod \in Nat
            BY Zenon, <1>1, <3>2, Numbers
        <3>4. \/ mtimecmp'[p] <= timeout[Head(list[p])]
              \/ mtimecmp'[p] <= mtime + MinPeriod
            BY <3>1, <3>3
        <3> QED BY Zenon, <2>1, <3>4 DEF Armed
    <2> QED BY Zenon, <2>2, <2>3
<1>4. CASE q # p
    <2>1. /\ mtime' = mtime /\ mtimecmp'[p] = mtimecmp[p] /\ stip'[p] = stip[p]
          /\ at'[p] = at[p] /\ erased'[p] = erased[p]
        <3>1. CASE stimer_handler(q)
            <4>1. /\ stip \in [Pcpu -> BOOLEAN] /\ erased \in [Pcpu -> BOOLEAN]
                  /\ at \in [Pcpu -> {"thread", "scan", "func"}]
                BY Zenon, <1>1 DEF TypeOK
            <4>2. /\ stip' = [stip EXCEPT ![q] = FALSE] /\ erased' = [erased EXCEPT ![q] = FALSE]
                  /\ at' = [at EXCEPT ![q] = "scan"] /\ mtime' = mtime /\ mtimecmp' = mtimecmp
                BY Zenon, <3>1 DEF stimer_handler
            <4> QED BY Zenon, <1>4, <4>1, <4>2
        <3>2. CASE expire_or_pass(q)
            BY SMTT(60), <1>1, <1>4, <3>2 DEF expire_or_pass, next_timer, hw, TypeOK
        <3>3. CASE func_returns(q)
            BY <1>1, <1>4, <3>3 DEF func_returns, next_timer, hw, TypeOK
        <3>4. CASE handler_returns(q)
            <4>1. /\ update_physical_timer(q, list[q], timeout)
                  /\ at' = [at EXCEPT ![q] = "thread"] /\ UNCHANGED <<mtime, stip, erased>>
                BY Zenon, <3>4 DEF handler_returns
            <4>2. mtimecmp'[p] = mtimecmp[p]
                <5>1. CASE list[q] = <<>>
                    BY <4>1, <5>1 DEF update_physical_timer
                <5>2. CASE list[q] # <<>>
                    BY Zenon, <1>1, <1>4, <4>1, <5>2, Programmed
                <5> QED BY Zenon, <5>1, <5>2
            <4> QED BY <1>1, <1>4, <4>1, <4>2 DEF TypeOK
        <3> QED BY Zenon, <3>1, <3>2, <3>3, <3>4
    <2>2. CASE expire_or_pass(q)
        <3>1. list' = unlinked(pos[q]) \/ list' = list
            BY Zenon, <2>2 DEF expire_or_pass
        <3>2. /\ at[q] = "scan" /\ pos[q] \in Timer /\ timeout' = timeout
            BY <2>2 DEF expire_or_pass
        <3>3. pos[q] \notin Range(list[p])
            <4>1. pos[q] \in Range(list[q])
                BY Zenon, <1>1, <3>2, NodesDistinct DEF Kept, Cursor
            <4> QED BY Zenon, <1>1, <1>4, <4>1, OneList
        <3>4. list'[p] = list[p]
            BY Zenon, <3>1, <3>3 DEF unlinked, without
        <3> QED BY Zenon, <2>1, <3>2, <3>4, ArmedByOthers
    <2>3. CASE func_returns(q)
        <3>1. at[q] = "func" /\ list'[p] = list[p]
            BY <1>1, <1>4, <2>3 DEF func_returns, TypeOK
        <3>2. pos[q] \in Timer /\ q \in writer[pos[q]]
            BY Zenon, <1>1, <3>1 DEF Kept, Running
        <3>3. p \notin writer[pos[q]]
            BY Zenon, <1>4, <3>2 DEF LocalWriters
        <3>4. ASSUME list[p] # <<>> PROVE timeout'[Head(list[p])] = timeout[Head(list[p])]
            <4>1. list[p] \in Seq(Timer)
                BY <1>1 DEF TypeOK
            <4>2. Head(list[p]) \in Range(list[p])
                BY Zenon, <3>4, <4>1, EmptyQueue
            <4>3. Head(list[p]) \in Timer /\ Head(list[p]) # pos[q]
                BY Zenon, <1>1, <3>3, <4>2, OneList
            <4>4. \/ timeout' = [timeout EXCEPT ![pos[q]] = mtime + period[pos[q]]]
                  \/ timeout' = timeout
                BY <2>3 DEF func_returns
            <4> QED BY <1>1, <4>3, <4>4 DEF TypeOK
        <3> QED BY Zenon, <2>1, <3>1, <3>4, ArmedByOthers
    <2>4. CASE stimer_handler(q) \/ handler_returns(q)
        <3>1. list' = list /\ timeout' = timeout
            BY <2>4 DEF stimer_handler, handler_returns
        <3> QED BY Zenon, <2>1, <3>1, ArmedByOthers
    <2> QED BY Zenon, <2>2, <2>3, <2>4
<1> QED BY Zenon, <1>2, <1>3, <1>4

(* add_timer programs the register when the new timer comes first.         *)
LEMMA ArmedByAdd ==
    ASSUME LocalWriters, TimerInv, TimerInv', NEW c \in Pcpu, NEW p \in Pcpu, Armed(p), add_timer(c)
    PROVE  Armed(p)'
<1> DEFINE t == adding[c]
<1>1. /\ TypeOK /\ Linked(list, timeout) /\ Kept(c)
      /\ list'[p] \in Seq(Timer) /\ list'[c] \in Seq(Timer)
    BY DEF TimerInv, TypeOK
<1>2. /\ at[c] = "thread" /\ t # NULL
      /\ UNCHANGED <<mtime, stip, timeout, at, erased>>
    BY DEF add_timer, loop
<1>3. t \in Timer /\ t \notin Range(list[c]) /\ c \in writer[t]
    BY Zenon, <1>1, <1>2 DEF Kept, Detached
<1>4. /\ timeout \in [Timer -> Nat] /\ timeout[t] \in Nat
      /\ mtime' = mtime /\ stip' = stip /\ timeout' = timeout /\ at' = at /\ erased' = erased
    BY Zenon, <1>1, <1>2, <1>3, Numbers
<1>5. CASE list' = [list EXCEPT ![c] = local_add_timer(c, t, timeout[t])]
    <2>1. Adds(c, t, timeout[t], timeout, list')
        BY Zenon, <1>3, <1>4, <1>5 DEF Adds
    <2>2. /\ Range(list'[c]) = Range(list[c]) \cup {t}
          /\ \A q \in Pcpu : q # c => list'[q] = list[q]
          /\ ~is_head(c, timeout[t]) => list[c] # <<>> /\ Head(list'[c]) = Head(list[c])
        <3>1. Added(c, t, timeout[t], list')
            BY Zenon, <1>1, <2>1, LinkAdds
        <3> QED BY Zenon, <3>1 DEF Added
    <2>3. \/ is_head(c, timeout[t]) /\ update_physical_timer(c, list'[c], timeout)
          \/ ~is_head(c, timeout[t]) /\ UNCHANGED mtimecmp
          \/ UNCHANGED <<list, mtimecmp>>
        BY Zenon DEF add_timer
    <2>4. CASE is_head(c, timeout[t]) /\ update_physical_timer(c, list'[c], timeout)
        <3>1. CASE p = c
            <4> SUFFICES ASSUME list'[p] # <<>> PROVE Armed(p)'
                BY Zenon DEF Armed
            <4>1. \/ mtimecmp'[p] = timeout[Head(list'[p])]
                  \/ mtimecmp'[p] = mtime + MinPeriod
                BY Zenon, <1>1, <2>4, <3>1, Programmed
            <4>2. Head(list'[p]) \in Timer
                BY Zenon, <1>1, HeadIn
            <4>3. timeout[Head(list'[p])] \in Nat
                BY Zenon, <1>4, <4>2
            <4>5. mtime + MinPeriod \in Nat
                BY Zenon, <1>1, Numbers
            <4>4. \/ mtimecmp'[p] <= timeout[Head(list'[p])]
                  \/ mtimecmp'[p] <= mtime + MinPeriod
                BY <4>1, <4>3, <4>5
            <4> QED BY Zenon, <1>4, <4>4 DEF Armed
        <3>2. CASE p # c
            <4>1. list'[c] # <<>>
                BY Zenon, <1>1, <2>2, EmptyQueue
            <4>2. mtimecmp'[p] = mtimecmp[p]
                BY Zenon, <1>1, <2>4, <3>2, <4>1, Programmed
            <4> QED BY Zenon, <1>4, <2>2, <3>2, <4>2, ArmedByOthers
        <3> QED BY Zenon, <3>1, <3>2
    <2>5. CASE ~is_head(c, timeout[t]) /\ UNCHANGED mtimecmp
        <3>1. CASE p = c
            BY Zenon, <1>4, <2>2, <2>5, <3>1 DEF Armed
        <3>2. CASE p # c
            BY Zenon, <1>4, <2>2, <2>5, <3>2, ArmedByOthers
        <3> QED BY Zenon, <3>1, <3>2
    <2>6. CASE UNCHANGED <<list, mtimecmp>>
        <3>1. list' = list /\ mtimecmp' = mtimecmp
            BY <2>6
        <3> QED BY Zenon, <1>4, <3>1, ArmedByOthers
    <2> QED BY Zenon, <2>3, <2>4, <2>5, <2>6
<1>6. CASE UNCHANGED <<list, mtimecmp>>
    <2>1. list' = list /\ mtimecmp' = mtimecmp
        BY <1>6
    <2> QED BY Zenon, <1>4, <2>1, ArmedByOthers
<1> QED BY Zenon, <1>5, <1>6 DEF add_timer

(* A user who takes a timer off its list leaves one that is due later.     *)
LEMMA ArmedByUsers ==
    ASSUME TimerInv, TimerInv', NEW c \in Pcpu, NEW t \in Timer, NEW p \in Pcpu, Armed(p),
           \/ \E due \in 0 .. MaxTime : set_timeout(c, t, due)
           \/ del_timer(c, t)
    PROVE  Armed(p)'
<1>1. TypeOK /\ Linked(list, timeout) /\ Linked(list', timeout')
    BY Zenon DEF TimerInv
<1>2. /\ list' = unlinked(t) /\ UNCHANGED <<mtime, mtimecmp, stip, erased>> /\ at' = at
      /\ \/ \E due \in 0 .. MaxTime : timeout' = [timeout EXCEPT ![t] = due]
         \/ timeout' = timeout
    BY DEF set_timeout, del_timer, hw, loop
<1>3. Range(list'[p]) = Range(list[p]) \ {t}
    BY Zenon, <1>1, <1>2, Unlink
<1>4. ASSUME NEW x \in Range(list'[p]) PROVE timeout'[x] = timeout[x]
    <2>1. x # t /\ list'[p] \in Seq(Timer)
        BY Zenon, <1>1, <1>3 DEF Linked
    <2>2. x \in Timer
        BY Zenon, <2>1, EntryIn
    <2>3. timeout \in [Timer -> 0 .. Disabled]
        BY Zenon, <1>1 DEF TypeOK
    <2> QED BY Zenon, <1>2, <2>1, <2>2, <2>3
<1>5. at'[p] = at[p]
    BY Zenon, <1>2
<1> QED BY <1>2, <1>3, <1>4, <1>5, ArmedForLess

(* TimerArmed: whatever the users, the handler and the machine-mode        *)
(* handlers do, a pCPU with a timer on its list has its handler running,   *)
(* its interrupt pending or its compare register set in time, unless       *)
(* mswi_handler has erased the interrupt.                                  *)
THEOREM TimerStaysArmed ==
    ASSUME LocalWriters
    PROVE  Spec => []TimerArmed
<1>1. TimerArmed <=> \A p \in Pcpu : Armed(p)
    BY Zenon DEF TimerArmed, Armed
<1>2. Init => TimerArmed
    BY DEF Init, TimerArmed
<1>3. ASSUME TimerInv, TimerInv', TimerArmed, [Next]_vars PROVE TimerArmed'
    <2> SUFFICES ASSUME NEW p \in Pcpu PROVE Armed(p)'
        BY Zenon DEF TimerArmed, Armed
    <2>1. Armed(p) /\ TypeOK
        BY Zenon, <1>1, <1>3 DEF TimerInv
    <2>2. CASE UNCHANGED vars
        <3>1. /\ mtime' = mtime /\ list' = list /\ timeout' = timeout /\ mtimecmp' = mtimecmp
              /\ stip' = stip /\ at' = at /\ erased' = erased
            BY <2>2 DEF vars, hw, loop
        <3> QED BY Zenon, <2>1, <3>1, ArmedByOthers
    <2>3. CASE Next
        BY Zenon, <1>3, <2>1, <2>3, Steps, ArmedByHardware, ArmedByHandler, ArmedByAdd, ArmedByUsers
    <2> QED BY Zenon, <1>3, <2>2, <2>3
<1>4. TimerInv /\ TimerInv' /\ TimerArmed /\ [Next]_vars => TimerArmed'
    BY Zenon, <1>3
<1> QED BY PTL, TimerCorrect, <1>2, <1>4 DEF Spec

-----------------------------------------------------------------------------
(* Periodic timers.                                                        *)

(* A timer that is on a list or whose function runs stays so when the      *)
(* lists keep it and the loops keep the timer they run.                    *)
LEMMA StaysActive ==
    ASSUME NEW t, active(t),
           \A p \in Pcpu : t \in Range(list[p]) =>
                               t \in Range(list'[p]) \/ (at'[p] = "func" /\ pos'[p] = t),
           \A p \in Pcpu : at[p] = "func" /\ pos[p] = t =>
                               t \in Range(list'[p]) \/ (at'[p] = "func" /\ pos'[p] = t)
    PROVE  active(t)'
BY Zenon DEF active, queued

(* PeriodicStays: the handler, which takes every timer it runs off its     *)
(* list, never loses a periodic one.                                       *)
THEOREM PeriodicNeverDropped ==
    ASSUME LocalWriters
    PROVE  Spec => PeriodicStays
<1> DEFINE Drop == \A t \in Timer : period[t] > 0 /\ active(t) /\ ~active(t)' => UNCHANGED loop
<1>1. ASSUME TimerInv, Next PROVE Drop
    <2> SUFFICES ASSUME NEW t \in Timer, period[t] > 0, active(t), ~(UNCHANGED loop)
                 PROVE  active(t)'
        BY Zenon
    <2>1. TypeOK /\ Linked(list, timeout) /\ \A p \in Pcpu : Kept(p)
        BY Zenon, <1>1 DEF TimerInv
    <2>2. PICK p \in Pcpu : \/ stimer_handler(p) \/ expire_or_pass(p)
                            \/ func_returns(p) \/ handler_returns(p)
        <3>1. hardware => UNCHANGED loop
            BY DEF hardware, time_passes, mtimer_handler, mswi_handler, send_single_swi,
                   sswi_handler
        <3>2. ASSUME NEW q \in Pcpu, add_timer(q) PROVE UNCHANGED loop
            BY <3>2 DEF add_timer
        <3>3. ASSUME NEW q \in Pcpu, NEW x \in Timer, NEW due, set_timeout(q, x, due)
              PROVE  UNCHANGED loop
            BY <3>3 DEF set_timeout
        <3>4. ASSUME NEW q \in Pcpu, NEW x \in Timer, del_timer(q, x) PROVE UNCHANGED loop
            BY <3>4 DEF del_timer
        <3> QED BY Zenon, <1>1, <2>1, <3>1, <3>2, <3>3, <3>4, Steps
    <2>3. CASE stimer_handler(p) \/ handler_returns(p)
        <3>1. /\ list' = list /\ at[p] # "func"
              /\ \A q \in Pcpu : q # p => at'[q] = at[q] /\ pos'[q] = pos[q]
            BY <2>1, <2>3 DEF stimer_handler, handler_returns, TypeOK
        <3> QED BY Zenon, <3>1, StaysActive
    <2>4. CASE expire_or_pass(p)
        <3>1. /\ at[p] = "scan" /\ pos[p] \in Timer
              /\ \A q \in Pcpu : q # p => at'[q] = at[q] /\ pos'[q] = pos[q]
            BY <2>1, <2>4 DEF expire_or_pass, next_timer, TypeOK
        <3>2. CASE list' = list
            BY <3>1, <3>2, StaysActive
        <3>3. CASE list' = unlinked(pos[p]) /\ at' = [at EXCEPT ![p] = "func"] /\ pos' = pos
            <4>1. at'[p] = "func" /\ pos'[p] = pos[p]
                BY <2>1, <3>3 DEF TypeOK
            <4>2. \A q \in Pcpu : Range(list'[q]) = Range(list[q]) \ {pos[p]}
                BY Zenon, <2>1, <3>3, Unlink
            <4>3. CASE pos[p] = t
                BY Zenon, <4>1, <4>3 DEF active
            <4>4. CASE pos[p] # t
                BY <3>1, <4>2, <4>4, StaysActive
            <4> QED BY Zenon, <4>3, <4>4
        <3> QED BY Zenon, <2>4, <3>2, <3>3 DEF expire_or_pass
    <2>5. CASE func_returns(p)
        <3>1. at[p] = "func" /\ \A q \in Pcpu : q # p => at'[q] = at[q] /\ pos'[q] = pos[q]
            BY <2>1, <2>5 DEF func_returns, next_timer, TypeOK
        <3>2. pos[p] \in Timer /\ pos[p] \notin Range(list[p]) /\ p \in writer[pos[p]]
            BY Zenon, <2>1, <3>1 DEF Kept, Running
        <3>3. CASE UNCHANGED <<timeout, list>> /\ ~(period[pos[p]] > 0)
            <4>1. pos[p] # t /\ list' = list
                BY <3>3
            <4> QED BY Zenon, <3>1, <4>1, StaysActive
        <3>4. CASE list' = [list EXCEPT ![p] = local_add_timer(p, pos[p], mtime + period[pos[p]])]
            <4> DEFINE due == mtime + period[pos[p]]
                       new == [timeout EXCEPT ![pos[p]] = due]
            <4>1. due \in Nat /\ timeout \in [Timer -> Nat]
                <5>1. mtime \in Nat /\ timeout \in [Timer -> Nat] /\ period[pos[p]] \in Nat
                    BY Zenon, <2>1, <3>2, PeriodType, Numbers
                <5> QED BY <5>1
            <4>2. new[pos[p]] = due /\ \A x \in Timer : x # pos[p] => new[x] = timeout[x]
                BY <3>2, <4>1
            <4> HIDE DEF new
            <4>3. Linked(list, new)
                <5>1. \A q \in Pcpu : \A x \in Range(list[q]) : new[x] = timeout[x]
                    BY Zenon, <2>1, <3>2, <4>2, OneList
                <5> QED BY Zenon, <2>1, <5>1, OtherTimeouts
            <4>4. Adds(p, pos[p], due, new, list')
                BY Zenon, <3>2, <3>4, <4>1, <4>2 DEF Adds
            <4>5. /\ Range(list'[p]) = Range(list[p]) \cup {pos[p]}
                  /\ \A q \in Pcpu : q # p => list'[q] = list[q]
                BY SMTT(60), <4>3, <4>4, Link
            <4> QED BY <3>1, <4>5, StaysActive
        <3> QED BY Zenon, <2>5, <3>3, <3>4 DEF func_returns
    <2> QED BY Zenon, <2>2, <2>3, <2>4, <2>5
<1>2. ASSUME TimerInv, [Next]_vars PROVE [Drop]_vars
    BY Zenon, <1>1, <1>2
<1> HIDE DEF Drop
<1>3. TimerInv /\ [Next]_vars => [Drop]_vars
    BY Zenon, <1>2
<1>4. Spec => [][Drop]_vars
    BY PTL, TimerCorrect, <1>3 DEF Spec
<1> QED BY <1>4 DEF PeriodicStays, Drop

=============================================================================
