----------------------------- MODULE HsmProofs -----------------------------
(***************************************************************************)
(* Proofs about the two interfaces of dm/io_req.c with the Service VM's    *)
(* HSM driver.  AsyncIo: for any number of vCPUs, descriptors and elements *)
(* of the buffer, the shared buffer is a bounded first-in first-out        *)
(* buffer, and no event in it is left unannounced.  IoReq: for any number  *)
(* of vCPUs and addresses, in both completion modes and around pause,      *)
(* reset and restart, slots change hands by their state only and answers   *)
(* belong to their requests.                                               *)
(***************************************************************************)
EXTENDS AsyncIo, IoReq, TLAPS

-----------------------------------------------------------------------------
(* The shared buffer of AsyncIo.                                           *)

AioType ==
    /\ aio_desc \in [DescIndex -> [addr : Doorbell \cup {Nobody}, fd : AnyFd]]
    /\ aiodesc_queue \in Seq(DescIndex)
    /\ aio_at \in [Vcpu -> {"guest", "load", "put", "publish", "fire"}]
    /\ desc \in [Vcpu -> 0..DescMax] /\ fd \in [Vcpu -> AnyFd]
    /\ buf \in [Position -> AnyFd] /\ head \in Position /\ tail \in Position
    /\ reader \in {"idle", "drain", "read"} /\ got \in AnyFd

(* A vCPU between the write of an element and its publication holds the    *)
(* lock and has found room; the element the Service VM has read and not    *)
(* yet consumed is still in the buffer.                                    *)
PutInv ==
    /\ \A v \in Vcpu : aio_at[v] = "load" => desc[v] \in DescIndex
    /\ \A v \in Vcpu : aio_at[v] = "publish" => asyncio_lock = v /\ ~is_full
    /\ reader = "read" => head # tail

SbufInv == AioType /\ PutInv

-----------------------------------------------------------------------------
(* The arithmetic of positions.                                            *)

(* A position stays below the number of elements when it moves on, and two *)
(* positions that differ still do.                                         *)
LEMMA NextPtr ==
    ASSUME NEW p \in Position, NEW q \in Position
    PROVE  sbuf_next_ptr(p) \in Position /\ (sbuf_next_ptr(p) = sbuf_next_ptr(q) => p = q)
BY AioBounds DEF Position, sbuf_next_ptr

(* The remainders in the mapping to Fifo, for the numbers it takes them of.*)
LEMMA Wrap ==
    /\ \A x \in 0..EleNum - 1 : x % EleNum = x
    /\ \A x \in EleNum..2 * EleNum - 1 : x % EleNum = x - EleNum
    /\ (2 * EleNum) % EleNum = 0
<1>1. \A x \in 0..EleNum - 1 : x % EleNum = x
    BY AioBounds
<1>2. \A x \in EleNum..2 * EleNum - 1 : x % EleNum = x - EleNum
    BY AioBounds
<1>3. (2 * EleNum) % EleNum = 0
    BY AioBounds
<1> QED BY <1>1, <1>2, <1>3

(* The number of elements between two positions, and where they are.       *)
count(f, t) == (t + EleNum - f) % EleNum
place(f, k) == (f + k - 1) % EleNum
between(b, f, t) == [k \in 1..count(f, t) |-> b[place(f, k)]]

(* There are as many as the distance around the buffer.                    *)
LEMMA Count ==
    ASSUME NEW f \in 0..EleNum, NEW t \in Position
    PROVE  /\ count(f, t) = IF t >= f THEN t - f ELSE t + EleNum - f
           /\ count(f, t) \in 0..EleNum - 1
<1>1. CASE t >= f
    <2>1. t + EleNum - f \in EleNum..2 * EleNum - 1
        BY <1>1, AioBounds DEF Position
    <2> QED BY <1>1, <2>1, Wrap, AioBounds DEF count, Position
<1>2. CASE t < f
    <2>1. t + EleNum - f \in 0..EleNum - 1
        BY <1>2, AioBounds DEF Position
    <2> QED BY <1>2, <2>1, Wrap, AioBounds DEF count, Position
<1> QED BY <1>1, <1>2, AioBounds DEF Position

(* The place of the k-th one wraps around once.                            *)
LEMMA Place ==
    ASSUME NEW f \in 0..EleNum, NEW k \in 1..EleNum
    PROVE  /\ f + k - 1 < EleNum => place(f, k) = f + k - 1
           /\ f + k - 1 >= EleNum => place(f, k) = f + k - 1 - EleNum
           /\ place(f, k) \in Position
<1>1. CASE f + k - 1 < EleNum
    <2>1. f + k - 1 \in 0..EleNum - 1
        BY <1>1, AioBounds
    <2> QED BY <1>1, <2>1, Wrap, AioBounds DEF place, Position
<1>2. CASE f + k - 1 >= EleNum
    <2>1. f + k - 1 \in EleNum..2 * EleNum - 1
        BY <1>2, AioBounds
    <2> QED BY <1>2, <2>1, Wrap, AioBounds DEF place, Position
<1> QED BY <1>1, <1>2, AioBounds

(* The elements between two positions are a sequence.                      *)
LEMMA Between ==
    ASSUME NEW b \in [Position -> AnyFd], NEW f \in 0..EleNum, NEW t \in Position
    PROVE  /\ between(b, f, t) \in Seq(AnyFd)
           /\ Len(between(b, f, t)) = count(f, t)
           /\ \A k \in 1..count(f, t) : between(b, f, t)[k] = b[place(f, k)]
<1>1. count(f, t) \in Nat /\ count(f, t) <= EleNum
    BY Count, AioBounds
<1>2. \A k \in 1..count(f, t) : b[place(f, k)] \in AnyFd
    BY <1>1, Place, AioBounds
<1> QED BY <1>1, <1>2 DEF between

(* The position where the next element goes is none of theirs.             *)
LEMMA TailIsOutside ==
    ASSUME NEW f \in 0..EleNum, NEW t \in Position, NEW k \in 1..count(f, t)
    PROVE  place(f, k) # t
<1>1. count(f, t) = (IF t >= f THEN t - f ELSE t + EleNum - f) /\ count(f, t) \in 0..EleNum - 1
    BY Count
<1>2. k \in 1..EleNum /\ k <= count(f, t)
    BY <1>1, AioBounds
<1>3. /\ f + k - 1 < EleNum => place(f, k) = f + k - 1
      /\ f + k - 1 >= EleNum => place(f, k) = f + k - 1 - EleNum
    BY <1>2, Place
<1> QED BY <1>1, <1>2, <1>3, AioBounds DEF Position

(* One more is at the end of the sequence.                                 *)
LEMMA Published ==
    ASSUME NEW b \in [Position -> AnyFd], NEW f \in 0..EleNum, NEW t \in Position,
           count(f, t) + 1 < EleNum
    PROVE  between(b, f, sbuf_next_ptr(t)) = Append(between(b, f, t), b[t])
<1> DEFINE n == sbuf_next_ptr(t)
<1>1. n \in Position
    BY NextPtr
<1>2. count(f, t) \in Nat /\ count(f, n) = count(f, t) + 1
    <2>1. count(f, t) \in Nat
        BY Count
    <2>2. count(f, n) = IF n >= f THEN n - f ELSE n + EleNum - f
        BY <1>1, Count
    <2>3. count(f, t) = IF t >= f THEN t - f ELSE t + EleNum - f
        BY Count
    <2> QED BY <2>1, <2>2, <2>3, AioBounds DEF sbuf_next_ptr, Position
<1>3. place(f, count(f, t) + 1) = t
    <2>1. count(f, t) + 1 \in 1..EleNum
        BY <1>2, AioBounds
    <2>2. count(f, t) = IF t >= f THEN t - f ELSE t + EleNum - f
        BY Count
    <2> QED BY <2>1, <2>2, Place, AioBounds DEF Position
<1>4. b[t] \in AnyFd
    OBVIOUS
<1> HIDE DEF n
<1> DEFINE s == between(b, f, t)
           r == between(b, f, n)
<1>5. s \in Seq(AnyFd) /\ Len(s) = count(f, t) /\ \A k \in 1..count(f, t) : s[k] = b[place(f, k)]
    BY Between
<1>6. r \in Seq(AnyFd) /\ Len(r) = count(f, t) + 1 /\ \A k \in 1..count(f, t) + 1 : r[k] = b[place(f, k)]
    BY <1>1, <1>2, Between
<1> HIDE DEF s, r
<1>7. \A k \in 1..Len(r) : r[k] = Append(s, b[t])[k]
    BY <1>2, <1>3, <1>4, <1>5, <1>6
<1>8. Append(s, b[t]) \in Seq(AnyFd) /\ Len(Append(s, b[t])) = Len(r)
    BY <1>2, <1>4, <1>5, <1>6
<1>9. r = Append(s, b[t])
    BY <1>6, <1>7, <1>8
<1> QED BY <1>9 DEF s, r, n

(* One less is the rest of the sequence.                                   *)
LEMMA Taken ==
    ASSUME NEW b \in [Position -> AnyFd], NEW h \in Position, NEW t \in Position, h # t
    PROVE  /\ between(b, h, t) # <<>>
           /\ Head(between(b, h, t)) = b[h]
           /\ between(b, h + 1, t) = Tail(between(b, h, t))
<1> DEFINE s == between(b, h, t)
           r == between(b, h + 1, t)
<1>1. h \in 0..EleNum /\ h + 1 \in 0..EleNum
    BY AioBounds DEF Position
<1>2. count(h, t) \in Nat \ {0} /\ count(h, t) <= EleNum /\ count(h + 1, t) = count(h, t) - 1
    <2>1. count(h, t) = IF t >= h THEN t - h ELSE t + EleNum - h
        BY <1>1, Count
    <2>2. count(h + 1, t) = IF t >= h + 1 THEN t - (h + 1) ELSE t + EleNum - (h + 1)
        BY <1>1, Count
    <2> QED BY <2>1, <2>2, AioBounds DEF Position
<1>3. place(h, 1) = h
    BY <1>1, Place, AioBounds DEF Position
<1>4. \A k \in 1..count(h + 1, t) : place(h + 1, k) = place(h, k + 1)
    BY <1>1, <1>2, AioBounds DEF place, Position
<1>5. s \in Seq(AnyFd) /\ Len(s) = count(h, t) /\ \A k \in 1..count(h, t) : s[k] = b[place(h, k)]
    BY <1>1, Between
<1>6. r \in Seq(AnyFd) /\ Len(r) = count(h + 1, t) /\ \A k \in 1..count(h + 1, t) : r[k] = b[place(h + 1, k)]
    BY <1>1, Between
<1> HIDE DEF s, r
<1>7. s # <<>> /\ Head(s) = b[h]
    BY <1>2, <1>3, <1>5
<1>8. Tail(s) \in Seq(AnyFd) /\ Len(Tail(s)) = Len(r)
    BY <1>2, <1>5, <1>6
<1>9. \A k \in 1..Len(r) : r[k] = Tail(s)[k]
    BY <1>2, <1>4, <1>5, <1>6
<1>10. r = Tail(s)
    BY <1>6, <1>8, <1>9
<1> QED BY <1>7, <1>10 DEF s, r

(* Consuming an element that has been read changes nothing more.           *)
LEMMA Consumed ==
    ASSUME NEW b \in [Position -> AnyFd], NEW h \in Position, NEW t \in Position
    PROVE  between(b, h + 1, t) = between(b, sbuf_next_ptr(h), t)
<1>1. CASE h + 1 < EleNum
    BY <1>1, AioBounds DEF sbuf_next_ptr, Position
<1>2. CASE h + 1 = EleNum
    <2>1. sbuf_next_ptr(h) = 0
        BY <1>2, AioBounds DEF sbuf_next_ptr, Position
    <2>2. 0 \in 0..EleNum /\ EleNum \in 0..EleNum
        BY AioBounds
    <2>3. count(EleNum, t) = t /\ count(0, t) = t
        BY <2>2, Count, AioBounds DEF Position
    <2>4. \A k \in 1..t : place(EleNum, k) = place(0, k)
        BY <2>2, Place, AioBounds DEF Position
    <2> QED BY <1>2, <2>1, <2>3, <2>4 DEF between
<1> QED BY <1>1, <1>2, AioBounds DEF Position

-----------------------------------------------------------------------------
(* The inductive invariant.                                                *)

(* After init_asyncio nothing is under way.                                *)
LEMMA SbufInit == AioInit => SbufInv
<1> SUFFICES ASSUME AioInit PROVE SbufInv
    OBVIOUS
<1>1. Free \in [addr : Doorbell \cup {Nobody}, fd : AnyFd]
    BY DEF Free, AnyFd
<1>2. aiodesc_queue \in Seq(DescIndex)
    BY DEF AioInit
<1>3. AioType
    BY <1>1, <1>2, AioBounds DEF AioInit, AioType, Position, AnyFd
<1>4. PutInv
    BY DEF AioInit, PutInv
<1> QED BY <1>3, <1>4 DEF SbufInv

(* The variables keep their types; load_fd reads a descriptor that is one. *)
LEMMA AioTypeStep == SbufInv /\ [AioNext]_aioVars => AioType'
<1> SUFFICES ASSUME SbufInv, [AioNext]_aioVars PROVE AioType'
    OBVIOUS
<1> USE DEF AioType
<1>0. AioType /\ PutInv
    BY DEF SbufInv
<1>1. ASSUME NEW a \in Doorbell, NEW f \in assigned[a], add_asyncio(a, f) PROVE AioType'
    <2>1. PICK i \in DescIndex :
            /\ aio_desc' = [aio_desc EXCEPT ![i] = [addr |-> a, fd |-> f]]
            /\ aiodesc_queue' = <<i>> \o aiodesc_queue
        BY <1>1 DEF add_asyncio
    <2>2. f \in AnyFd
        BY AssignedType DEF AnyFd
    <2>3. aio_desc' \in [DescIndex -> [addr : Doorbell \cup {Nobody}, fd : AnyFd]]
        BY <1>0, <2>1, <2>2
    <2>4. aiodesc_queue' \in Seq(DescIndex)
        <3>1. \A s, t \in Seq(DescIndex) : s \o t \in Seq(DescIndex)
            OBVIOUS
        <3>2. <<i>> \in Seq(DescIndex)
            OBVIOUS
        <3> QED BY <1>0, <2>1, <3>1, <3>2
    <2> QED BY <1>0, <1>1, <2>3, <2>4 DEF add_asyncio, accesses, sbuf, reader_side
<1>2. ASSUME NEW a \in Doorbell, NEW f \in assigned[a], remove_asyncio(a, f) PROVE AioType'
    <2>1. PICK i \in DescIndex : aio_desc' = [aio_desc EXCEPT ![i] = Free] /\ list_del(i)
        BY <1>2 DEF remove_asyncio
    <2>2. aio_desc' \in [DescIndex -> [addr : Doorbell \cup {Nobody}, fd : AnyFd]]
        BY <1>0, <2>1 DEF Free, AnyFd
    <2>3. aiodesc_queue' \in Seq(DescIndex)
        <3> DEFINE q == aiodesc_queue
        <3>1. PICK k \in 1..Len(q) : q' = SubSeq(q, 1, k - 1) \o SubSeq(q, k + 1, Len(q))
            BY <2>1 DEF list_del
        <3>2. SubSeq(q, 1, k - 1) \in Seq(DescIndex) /\ SubSeq(q, k + 1, Len(q)) \in Seq(DescIndex)
            BY <1>0
        <3>3. \A s, t \in Seq(DescIndex) : s \o t \in Seq(DescIndex)
            OBVIOUS
        <3> QED BY <3>1, <3>2, <3>3
    <2> QED BY <1>0, <1>2, <2>2, <2>3 DEF remove_asyncio, accesses, sbuf, reader_side
<1>3. ASSUME NEW v \in Vcpu, NEW a \in rings[v], emulate_io(v, a) PROVE AioType'
    BY SMTT(60), <1>0, <1>3, AioBounds DEF emulate_io, descs, sbuf, reader_side, DescIndex
<1>4. ASSUME NEW v \in Vcpu, load_fd(v) PROVE AioType'
    <2>1. aio_desc[desc[v]].fd \in AnyFd
        BY <1>0, <1>4 DEF load_fd, PutInv
    <2> QED BY <1>0, <1>4, <2>1, AioBounds DEF load_fd, descs, sbuf, reader_side
<1>5. ASSUME NEW v \in Vcpu, sbuf_put(v) PROVE AioType'
    BY <1>0, <1>5 DEF sbuf_put, descs, reader_side, AnyFd
<1>6. ASSUME NEW v \in Vcpu, publish(v) PROVE AioType'
    BY <1>0, <1>6, NextPtr DEF publish, descs, reader_side
<1>7. ASSUME NEW v \in Vcpu, fire_hsm_interrupt(v) PROVE AioType'
    BY <1>0, <1>7 DEF fire_hsm_interrupt, descs, sbuf
<1>8. CASE take_aio_upcall
    BY <1>0, <1>8 DEF take_aio_upcall, descs, accesses, sbuf
<1>9. CASE sbuf_read
    BY <1>0, <1>9 DEF sbuf_read, descs, accesses, sbuf
<1>10. CASE sbuf_consume
    BY <1>0, <1>10, NextPtr DEF sbuf_consume, descs, accesses
<1>11. CASE UNCHANGED aioVars
    BY <1>0, <1>11 DEF aioVars
<1> QED BY <1>1, <1>2, <1>3, <1>4, <1>5, <1>6, <1>7, <1>8, <1>9, <1>10, <1>11 DEF AioNext, step, drain

(* The lock keeps a second vCPU from putting, and the room a vCPU has      *)
(* found stays: the Service VM moves head away from it only.               *)
LEMMA PutStep == SbufInv /\ [AioNext]_aioVars => PutInv'
<1> SUFFICES ASSUME SbufInv, [AioNext]_aioVars PROVE PutInv'
    OBVIOUS
<1>0. AioType /\ PutInv
    BY DEF SbufInv
<1> USE DEF PutInv, AioType, is_full
<1>1. ASSUME NEW a \in Doorbell, NEW f \in assigned[a], add_asyncio(a, f) \/ remove_asyncio(a, f) PROVE PutInv'
    BY <1>0, <1>1 DEF add_asyncio, remove_asyncio, accesses, sbuf, reader_side
<1>2. ASSUME NEW v \in Vcpu, NEW a \in rings[v], emulate_io(v, a) PROVE PutInv'
    BY <1>0, <1>2 DEF emulate_io, sbuf, reader_side
<1>3. ASSUME NEW v \in Vcpu, load_fd(v) PROVE PutInv'
    BY <1>0, <1>3 DEF load_fd, sbuf, reader_side
<1>4. ASSUME NEW v \in Vcpu, sbuf_put(v) PROVE PutInv'
    BY <1>0, <1>4, NobodyType, EmptyType DEF sbuf_put, reader_side
<1>5. ASSUME NEW v \in Vcpu, publish(v) PROVE PutInv'
    BY <1>0, <1>5 DEF publish, reader_side
<1>6. ASSUME NEW v \in Vcpu, fire_hsm_interrupt(v) PROVE PutInv'
    BY <1>0, <1>6 DEF fire_hsm_interrupt, sbuf
<1>7. CASE take_aio_upcall
    BY <1>0, <1>7 DEF take_aio_upcall, accesses, sbuf
<1>8. CASE sbuf_read
    BY <1>0, <1>8 DEF sbuf_read, accesses, sbuf
<1>9. CASE sbuf_consume
    BY <1>0, <1>9, NextPtr DEF sbuf_consume, accesses
<1>10. CASE UNCHANGED aioVars
    BY <1>0, <1>10 DEF aioVars
<1> QED BY <1>1, <1>2, <1>3, <1>4, <1>5, <1>6, <1>7, <1>8, <1>9, <1>10 DEF AioNext, step, drain

(* The invariant is inductive.                                             *)
THEOREM SbufConsistent == AioSpec => []SbufInv
<1>1. SbufInv /\ [AioNext]_aioVars => SbufInv'
    BY AioTypeStep, PutStep DEF SbufInv
<1> QED BY SbufInit, <1>1, PTL DEF AioSpec

-----------------------------------------------------------------------------
(* The shared buffer implements Fifo.                                      *)

(* The mapping in terms of the lemmas above.                               *)
LEMMA StoredIs ==
    ASSUME AioType
    PROVE  First \in 0..EleNum /\ Stored = between(buf, First, tail)
BY AioBounds DEF AioType, First, Stored, between, count, place, Position

(* Every step of the program puts an element, takes one, or neither.       *)
LEMMA FifoStep == SbufInv /\ AioType' /\ [AioNext]_aioVars => [Buffer!Next]_<<Stored, got>>
<1> SUFFICES ASSUME SbufInv, AioType', [AioNext]_aioVars PROVE [Buffer!Next]_<<Stored, got>>
    OBVIOUS
<1>0. AioType /\ PutInv
    BY DEF SbufInv
<1>1. First \in 0..EleNum /\ Stored = between(buf, First, tail)
    BY <1>0, StoredIs
<1>2. Stored' = between(buf', First', tail')
    BY AioBounds DEF AioType, First, Stored, between, count, place, Position
<1>3. ASSUME UNCHANGED <<buf, head, tail, reader>> PROVE UNCHANGED Stored
    BY <1>1, <1>2, <1>3 DEF First
<1>4. ASSUME NEW v \in Vcpu, sbuf_put(v) PROVE UNCHANGED <<Stored, got>>
    <2>1. UNCHANGED <<tail, First, got>> /\ buf' = [buf EXCEPT ![tail] = fd[v]]
        BY <1>4 DEF sbuf_put, reader_side, First
    <2>2. \A k \in 1..count(First, tail) : place(First, k) # tail /\ place(First, k) \in Position
        BY <1>0, <1>1, TailIsOutside, Count, Place, AioBounds DEF AioType
    <2>3. \A k \in 1..count(First, tail) : buf'[place(First, k)] = buf[place(First, k)]
        BY <1>0, <2>1, <2>2 DEF AioType
    <2>4. between(buf', First, tail) = between(buf, First, tail)
        BY <2>3 DEF between
    <2> QED BY <1>1, <1>2, <2>1, <2>4
<1>5. ASSUME NEW v \in Vcpu, publish(v) PROVE Buffer!Next
    <2>1. UNCHANGED <<buf, First, got>> /\ tail' = sbuf_next_ptr(tail)
        BY <1>5 DEF publish, reader_side, First
    <2>2. ~is_full
        BY <1>0, <1>5 DEF publish, PutInv
    <2>3. count(First, tail) + 1 < EleNum
        <3>1. count(First, tail) = IF tail >= First THEN tail - First ELSE tail + EleNum - First
            BY <1>0, <1>1, Count DEF AioType
        <3>2. First = IF reader = "read" THEN head + 1 ELSE head
            BY DEF First
        <3> QED BY <1>0, <2>2, <3>1, <3>2, AioBounds DEF AioType, PutInv, is_full, sbuf_next_ptr, Position
    <2>4. Stored' = Append(Stored, buf[tail])
        BY <1>0, <1>1, <1>2, <2>1, <2>3, Published DEF AioType
    <2>5. Len(Stored) < EleNum - 1
        <3>1. Len(between(buf, First, tail)) = count(First, tail)
            <4>1. buf \in [Position -> AnyFd] /\ tail \in Position
                BY <1>0 DEF AioType
            <4> QED BY <1>1, <4>1, Between
        <3>2. count(First, tail) \in 0..EleNum - 1
            BY <1>0, <1>1, Count DEF AioType
        <3> QED BY <1>1, <2>3, <3>1, <3>2, AioBounds
    <2>6. buf[tail] \in AnyFd
        BY <1>0 DEF AioType
    <2>7. Buffer!Put(buf[tail])
        BY <2>1, <2>4, <2>5 DEF Buffer!Put
    <2> QED BY <2>6, <2>7 DEF Buffer!Next
<1>6. CASE sbuf_read
    <2>1. CASE head = tail
        BY <1>1, <1>2, <1>6, <2>1 DEF sbuf_read, sbuf, First
    <2>2. CASE head # tail
        <3>1. First = head /\ First' = head + 1 /\ got' = buf[head] /\ UNCHANGED <<buf, tail>>
            BY <1>6, <2>2 DEF sbuf_read, sbuf, First
        <3>2. Stored # <<>> /\ Head(Stored) = got' /\ Stored' = Tail(Stored)
            BY <1>0, <1>1, <1>2, <2>2, <3>1, Taken DEF AioType
        <3>3. Buffer!Get
            BY <3>2 DEF Buffer!Get
        <3> QED BY <3>3 DEF Buffer!Next
    <2> QED BY <2>1, <2>2
<1>7. CASE sbuf_consume
    <2>1. First = head + 1 /\ First' = sbuf_next_ptr(head) /\ UNCHANGED <<buf, tail, got>>
        BY <1>7 DEF sbuf_consume, First
    <2> QED BY <1>0, <1>1, <1>2, <2>1, Consumed DEF AioType
<1>8. CASE take_aio_upcall
    BY <1>0, <1>1, <1>2, <1>8 DEF take_aio_upcall, sbuf, First
<1>9. ASSUME NEW v \in Vcpu,
             load_fd(v) \/ fire_hsm_interrupt(v) \/ \E a \in rings[v] : emulate_io(v, a)
      PROVE  UNCHANGED <<Stored, got>>
    BY <1>3, <1>9 DEF load_fd, fire_hsm_interrupt, emulate_io, sbuf, reader_side
<1>10. ASSUME NEW a \in Doorbell, NEW f \in assigned[a], add_asyncio(a, f) \/ remove_asyncio(a, f)
       PROVE  UNCHANGED <<Stored, got>>
    BY <1>3, <1>10 DEF add_asyncio, remove_asyncio, sbuf, reader_side
<1>11. CASE UNCHANGED aioVars
    BY <1>3, <1>11 DEF aioVars
<1> QED BY <1>4, <1>5, <1>6, <1>7, <1>8, <1>9, <1>10, <1>11 DEF AioNext, step, drain

(* The shared buffer is a first-in first-out buffer that stores            *)
(* "(ele_num - 1) elements at most", whatever its size and however many    *)
(* vCPUs put into it while the Service VM takes out without a lock.        *)
THEOREM SbufIsFifo == AioSpec => ImplementsFifo
<1>1. AioInit => Buffer!Init
    <2> SUFFICES ASSUME AioInit PROVE Buffer!Init
        OBVIOUS
    <2>1. AioType /\ head = 0 /\ tail = 0 /\ First = 0 /\ got \in AnyFd
        BY SbufInit DEF SbufInv, AioType, AioInit, First
    <2>2. count(0, 0) = 0
        BY <2>1, Count, AioBounds DEF Position
    <2>3. Stored = [k \in 1..0 |-> buf[place(0, k)]]
        BY <2>1, <2>2, StoredIs DEF between
    <2>4. Stored = <<>>
        BY <2>3
    <2> QED BY <2>1, <2>4 DEF Buffer!Init
<1>2. SbufInv /\ SbufInv' /\ [AioNext]_aioVars => [Buffer!Next]_<<Stored, got>>
    BY FifoStep DEF SbufInv
<1> QED BY SbufConsistent, <1>1, <1>2, PTL DEF AioSpec, ImplementsFifo, Buffer!Spec

(* No event is left in the buffer for the next one to announce: the        *)
(* interrupt of acrn_insert_asyncio is not lost against a Service VM that  *)
(* is just finding the buffer empty.                                       *)
THEOREM EventsAreAnnounced == AioSpec => []EventIsAnnounced
<1>1. AioInit => EventIsAnnounced
    BY DEF AioInit, EventIsAnnounced
<1>2. SbufInv /\ EventIsAnnounced /\ [AioNext]_aioVars => EventIsAnnounced'
    <2> SUFFICES ASSUME SbufInv, EventIsAnnounced, [AioNext]_aioVars PROVE EventIsAnnounced'
        OBVIOUS
    <2>0. AioType
        BY DEF SbufInv
    <2> USE DEF EventIsAnnounced, AioType
    <2>1. ASSUME NEW a \in Doorbell, NEW f \in assigned[a], add_asyncio(a, f) \/ remove_asyncio(a, f)
          PROVE  EventIsAnnounced'
        BY <2>1 DEF add_asyncio, remove_asyncio, accesses, sbuf, reader_side
    <2>2. ASSUME NEW v \in Vcpu, step(v) \/ \E a \in rings[v] : emulate_io(v, a)
          PROVE  EventIsAnnounced'
        BY <2>0, <2>2 DEF step, emulate_io, load_fd, sbuf_put, publish, fire_hsm_interrupt, sbuf, reader_side
    <2>3. CASE drain
        BY <2>0, <2>3 DEF drain, take_aio_upcall, sbuf_read, sbuf_consume, accesses, sbuf
    <2>4. CASE UNCHANGED aioVars
        BY <2>4 DEF aioVars
    <2> QED BY <2>1, <2>2, <2>3, <2>4 DEF AioNext
<1> QED BY SbufConsistent, <1>1, <1>2, PTL DEF AioSpec

-----------------------------------------------------------------------------
(* The slots of IoReq.                                                     *)

States == {"FREE", "PENDING", "PROCESSING", "COMPLETE"}
Places == {"guest", "insert", "mark", "fire", "poll", "wait", "complete"}
Works == {"idle", "serving", "answered", "notify"}

SlotType ==
    /\ processed \in [Vcpu -> States] /\ at \in [Vcpu -> Places] /\ hsm \in [Vcpu -> Works]
    /\ slot \in [Vcpu -> Access] /\ req \in [Vcpu -> Access]
    /\ ev_set \in [Vcpu -> BOOLEAN]

(* The vCPU has handed its request over and not taken the answer yet.      *)
asked(v) == at[v] \in {"fire", "poll", "wait"}

(* A slot that is free is in nobody's hands, and an event that is set, or  *)
(* about to be, is the one of the request the vCPU waits for: the states   *)
(* of the vCPU, its slot, the client and the event go together.            *)
SlotInv(v) ==
    /\ at[v] \in {"guest", "insert", "mark"} => processed[v] = "FREE" /\ ~ev_set[v]
    /\ at[v] = "mark" => slot[v] = req[v]
    /\ at[v] = "poll" => polling
    /\ at[v] = "complete" => processed[v] \in {"FREE", "COMPLETE"} /\ hsm[v] = "idle" /\ ~ev_set[v]
    /\ processed[v] = "FREE" => hsm[v] = "idle"
    /\ processed[v] = "PENDING" => hsm[v] = "idle" /\ asked(v) /\ ~ev_set[v] /\ slot[v].addr = req[v].addr
    /\ processed[v] = "PROCESSING" =>
          hsm[v] \in {"serving", "answered"} /\ asked(v) /\ ~ev_set[v] /\ slot[v].addr = req[v].addr
    /\ processed[v] = "COMPLETE" => hsm[v] \in {"idle", "notify"} /\ slot[v].value = req[v].addr
    /\ hsm[v] = "answered" => slot[v].value = req[v].addr
    /\ hsm[v] = "notify" => processed[v] = "COMPLETE" /\ at[v] \in {"fire", "wait"} /\ ~ev_set[v] /\ ~polling
    /\ ev_set[v] => at[v] \in {"fire", "wait"} /\ hsm[v] = "idle" /\ ~polling

IoReqInv == SlotType /\ \A v \in Vcpu : SlotInv(v)

-----------------------------------------------------------------------------

(* After create_vm all slots are free.                                     *)
LEMMA IoReqInit == Init => IoReqInv
<1> SUFFICES ASSUME Init PROVE IoReqInv
    OBVIOUS
<1>1. NoAccess \in Access
    BY DEF NoAccess, Access
<1>2. SlotType
    BY <1>1 DEF Init, SlotType, States, Places, Works
<1>3. \A v \in Vcpu : SlotInv(v)
    BY DEF Init, SlotInv
<1> QED BY <1>2, <1>3 DEF IoReqInv

(* The variables keep their types.                                         *)
LEMMA SlotTypeStep == SlotType /\ [Next]_vars => SlotType'
<1> SUFFICES ASSUME SlotType, [Next]_vars PROVE SlotType'
    OBVIOUS
<1> USE DEF SlotType
<1>1. ASSUME NEW v \in Vcpu, NEW a \in driver[v], NEW dir \in {"READ", "WRITE"}, s2pt_violation(v, a, dir)
      PROVE  SlotType'
    <2>1. a \in Addr
        BY DriverType
    <2>2. req' \in [Vcpu -> Access]
        <3>1. req[v].value \in Addr \cup {Nobody}
            BY DEF Access
        <3> QED BY <1>1, <2>1, <3>1 DEF s2pt_violation, Access
    <2> QED BY <1>1, <2>2 DEF s2pt_violation, goto, shared, service, Places
<1>2. ASSUME NEW v \in Vcpu, acrn_insert_request(v) PROVE SlotType'
    BY <1>2 DEF acrn_insert_request, goto, service, Places
<1>3. ASSUME NEW v \in Vcpu, mark_pending(v) PROVE SlotType'
    BY <1>3 DEF mark_pending, goto, service, Places, States
<1>4. ASSUME NEW v \in Vcpu, arch_fire_hsm_interrupt(v) PROVE SlotType'
    BY <1>4 DEF arch_fire_hsm_interrupt, goto, Places, shared
<1>5. ASSUME NEW v \in Vcpu, poll_completion(v) PROVE SlotType'
    BY <1>5 DEF poll_completion, goto, Places, shared, service
<1>6. ASSUME NEW v \in Vcpu, wait_event(v) PROVE SlotType'
    BY <1>6 DEF wait_event, goto, Places, shared, service
<1>7. ASSUME NEW v \in Vcpu, dm_emulate_io_complete(v) PROVE SlotType'
    <2>1. UNCHANGED <<slot, ev_set, hsm>> /\ at' \in [Vcpu -> Places]
        BY <1>7 DEF dm_emulate_io_complete, goto, Places, service
    <2>2. processed' \in [Vcpu -> States]
        BY <1>7 DEF dm_emulate_io_complete, States
    <2>3. req' \in [Vcpu -> Access]
        <3>1. slot[v].value \in Addr \cup {Nobody}
            BY DEF Access
        <3>2. UNCHANGED req \/ req' = [req EXCEPT ![v].value = slot[v].value]
            BY <1>7 DEF dm_emulate_io_complete
        <3>3. ASSUME NEW x \in Addr \cup {Nobody}
              PROVE  [req EXCEPT ![v].value = x] \in [Vcpu -> Access]
            BY DEF Access
        <3> QED BY <3>1, <3>2, <3>3
    <2> QED BY <2>1, <2>2, <2>3
<1>8. ASSUME NEW v \in Vcpu, dispatch(v) PROVE SlotType'
    BY <1>8 DEF dispatch, vcpu, States, Works
<1>9. ASSUME NEW v \in Vcpu, answer(v) PROVE SlotType'
    <2>1. slot' \in [Vcpu -> Access]
        <3>1. slot[v].addr \in Addr \cup {Nobody}
            BY DEF Access
        <3> QED BY <1>9, <3>1 DEF answer, Access
    <2> QED BY <1>9, <2>1 DEF answer, vcpu, Works
<1>10. ASSUME NEW v \in Vcpu, complete(v) PROVE SlotType'
    BY <1>10 DEF complete, vcpu, States, Works
<1>11. ASSUME NEW v \in Vcpu, hcall_notify_ioreq_finish(v) PROVE SlotType'
    BY <1>11 DEF hcall_notify_ioreq_finish, vcpu, shared, Works
<1>12. CASE take_upcall
    BY <1>12 DEF take_upcall, vcpu, shared
<1>13. CASE start_vm \/ pause_vm
    BY <1>13 DEF start_vm, pause_vm, vcpu, shared, service
<1>14. CASE reset_vm
    BY <1>14 DEF reset_vm, vcpu, service, States
<1>15. CASE UNCHANGED vars
    BY <1>15 DEF vars
<1> QED BY <1>1, <1>2, <1>3, <1>4, <1>5, <1>6, <1>7, <1>8, <1>9, <1>10, <1>11, <1>12, <1>13, <1>14, <1>15
        DEF Next, thread, client

(* So do the states of a vCPU's slot: steps of the vCPU, its client, the   *)
(* HSM's scan and the VM's management in any order.                        *)
LEMMA SlotStep == IoReqInv /\ [Next]_vars => \A u \in Vcpu : SlotInv(u)'
<1> SUFFICES ASSUME IoReqInv, [Next]_vars, NEW u \in Vcpu PROVE SlotInv(u)'
    OBVIOUS
<1>0. SlotType /\ SlotInv(u)
    BY DEF IoReqInv
<1> USE DEF SlotType, States, SlotInv, asked
<1>1. ASSUME NEW v \in Vcpu, NEW a \in driver[v], NEW dir \in {"READ", "WRITE"}, s2pt_violation(v, a, dir)
      PROVE  SlotInv(u)'
    BY <1>0, <1>1 DEF s2pt_violation, goto, shared, service
<1>2. ASSUME NEW v \in Vcpu, acrn_insert_request(v) PROVE SlotInv(u)'
    <2>1. UNCHANGED <<processed, req, ev_set, hsm, polling>>
        BY <1>2 DEF acrn_insert_request, service
    <2>2. CASE u = v
        <3>1. processed[u] = "FREE" /\ ~ev_set[u] /\ hsm[u] = "idle"
            BY <1>0, <1>2, <2>2 DEF acrn_insert_request
        <3>2. slot'[u] = req[u] /\ at'[u] = "mark"
            BY <1>0, <1>2, <2>2, <3>1 DEF acrn_insert_request, goto
        <3> QED BY <2>1, <3>1, <3>2
    <2>3. CASE u # v
        <3>1. slot'[u] = slot[u] /\ at'[u] = at[u]
            BY <1>0, <1>2, <2>3 DEF acrn_insert_request, goto
        <3> QED BY <1>0, <2>1, <3>1
    <2> QED BY <2>2, <2>3
<1>3. ASSUME NEW v \in Vcpu, mark_pending(v) PROVE SlotInv(u)'
    BY <1>0, <1>3 DEF mark_pending, goto, service
<1>4. ASSUME NEW v \in Vcpu, arch_fire_hsm_interrupt(v) PROVE SlotInv(u)'
    BY <1>0, <1>4 DEF arch_fire_hsm_interrupt, goto, shared
<1>5. ASSUME NEW v \in Vcpu, poll_completion(v) PROVE SlotInv(u)'
    BY <1>0, <1>5 DEF poll_completion, goto, shared, service
<1>6. ASSUME NEW v \in Vcpu, wait_event(v) PROVE SlotInv(u)'
    BY <1>0, <1>6 DEF wait_event, goto, shared, service
<1>7. ASSUME NEW v \in Vcpu, dm_emulate_io_complete(v) PROVE SlotInv(u)'
    BY <1>0, <1>7 DEF dm_emulate_io_complete, goto, service
<1>8. ASSUME NEW v \in Vcpu, dispatch(v) PROVE SlotInv(u)'
    BY <1>0, <1>8 DEF dispatch, vcpu
<1>9. ASSUME NEW v \in Vcpu, answer(v) PROVE SlotInv(u)'
    <2>1. UNCHANGED <<processed, at, req, ev_set, polling>>
        BY <1>9 DEF answer, vcpu
    <2>2. CASE u = v
        <3>1. hsm[u] = "serving" /\ hsm'[u] = "answered"
            BY <1>0, <1>9, <2>2 DEF answer
        <3>2. slot'[u] = [slot[u] EXCEPT !.value = slot[u].addr]
            BY <1>0, <1>9, <2>2 DEF answer
        <3>3. slot'[u].value = slot[u].addr /\ slot'[u].addr = slot[u].addr
            BY <1>0, <3>2 DEF Access
        <3>4. processed[u] = "PROCESSING"
            BY <1>0, <3>1
        <3> QED BY <1>0, <2>1, <3>1, <3>3, <3>4
    <2>3. CASE u # v
        <3>1. hsm'[u] = hsm[u] /\ slot'[u] = slot[u]
            BY <1>0, <1>9, <2>3 DEF answer
        <3> QED BY <1>0, <2>1, <3>1
    <2> QED BY <2>2, <2>3
<1>10. ASSUME NEW v \in Vcpu, complete(v) PROVE SlotInv(u)'
    BY <1>0, <1>10 DEF complete, vcpu
<1>11. ASSUME NEW v \in Vcpu, hcall_notify_ioreq_finish(v) PROVE SlotInv(u)'
    BY <1>0, <1>11 DEF hcall_notify_ioreq_finish, vcpu, shared
<1>12. CASE take_upcall
    BY <1>0, <1>12 DEF take_upcall, vcpu, shared
<1>13. CASE start_vm \/ pause_vm
    <2>1. UNCHANGED <<processed, slot, req, at, ev_set, hsm, polling>>
        BY <1>13 DEF start_vm, pause_vm, vcpu, shared, service
    <2> QED BY <1>0, <2>1
<1>14. CASE reset_vm
    BY <1>0, <1>14 DEF reset_vm, vcpu, service
<1>15. CASE UNCHANGED vars
    BY <1>0, <1>15 DEF vars
<1> QED BY <1>1, <1>2, <1>3, <1>4, <1>5, <1>6, <1>7, <1>8, <1>9, <1>10, <1>11, <1>12, <1>13, <1>14, <1>15
        DEF Next, thread, client

(* The invariant is inductive.                                             *)
THEOREM SlotsConsistent == Spec => []IoReqInv
<1>1. IoReqInv /\ [Next]_vars => IoReqInv'
    BY SlotTypeStep, SlotStep DEF IoReqInv
<1> QED BY IoReqInit, <1>1, PTL DEF Spec

(* The guest never runs with its slot in use, for any number of vCPUs:     *)
(* acrn_insert_request never has to refuse a request, also when the VM is  *)
(* reset with requests in flight.                                          *)
THEOREM SlotIsFreeInGuest == Spec => []GuestRunsWithFreeSlot
<1>1. IoReqInv => GuestRunsWithFreeSlot
    BY DEF IoReqInv, SlotInv, GuestRunsWithFreeSlot
<1> QED BY SlotsConsistent, <1>1, PTL

(* Clients work on the request of the vCPU whose slot they have, and what  *)
(* the vCPU takes for its answer is the answer to its last request.        *)
THEOREM AnswersMatch == Spec => []AnswerIsForRequest
<1>1. IoReqInv => AnswerIsForRequest
    BY DEF IoReqInv, SlotType, States, SlotInv, AnswerIsForRequest
<1> QED BY SlotsConsistent, <1>1, PTL

(* The contents of a slot change in the hands of its owner only: the       *)
(* hypervisor while the slot is free or complete, the Service VM while it  *)
(* processes the request.                                                  *)
THEOREM OwnersWrite == Spec => SlotOwnership
<1>1. ASSUME IoReqInv, [Next]_vars, NEW v \in Vcpu, slot[v] # slot'[v]
      PROVE  \/ processed[v] \in {"FREE", "COMPLETE"} /\ hsm[v] = "idle"
             \/ processed[v] = "PROCESSING" /\ at[v] \in {"fire", "poll", "wait"}
    <2>0. SlotType /\ SlotInv(v)
        BY <1>1 DEF IoReqInv
    <2>1. CASE \E u \in Vcpu : acrn_insert_request(u)
        BY <1>1, <2>0, <2>1 DEF acrn_insert_request, SlotInv, SlotType
    <2>2. CASE \E u \in Vcpu : answer(u)
        BY <1>1, <2>0, <2>2 DEF answer, SlotInv, SlotType, States, asked
    <2>3. CASE UNCHANGED slot
        BY <1>1, <2>3
    <2>4. \/ \E u \in Vcpu : acrn_insert_request(u) \/ answer(u)
          \/ UNCHANGED slot
        BY <1>1 DEF Next, thread, client, s2pt_violation, mark_pending, arch_fire_hsm_interrupt, poll_completion,
                    wait_event, dm_emulate_io_complete, dispatch, complete, hcall_notify_ioreq_finish,
                    take_upcall, start_vm, pause_vm, reset_vm, shared, vars
    <2> QED BY <2>1, <2>2, <2>3, <2>4
<1>2. IoReqInv /\ [Next]_vars =>
        [\A v \in Vcpu :
            slot[v] # slot'[v] =>
                \/ processed[v] \in {"FREE", "COMPLETE"} /\ hsm[v] = "idle"
                \/ processed[v] = "PROCESSING" /\ at[v] \in {"fire", "poll", "wait"}]_vars
    BY <1>1
<1> QED BY SlotsConsistent, <1>2, PTL DEF Spec, SlotOwnership

=============================================================================
