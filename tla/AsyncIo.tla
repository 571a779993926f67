------------------------------ MODULE AsyncIo ------------------------------
(***************************************************************************)
(* Asynchronous I/O of a post-launched VM: the descriptors that turn an    *)
(* access into an event (add_asyncio, remove_asyncio, get_asyncio_desc of  *)
(* hypervisor/dm/io_req.c), and the shared buffer the events go through to *)
(* the Service VM (acrn_insert_asyncio, and sbuf_put of common/sbuf.c).    *)
(* The Service VM's side of the buffer is code of its HSM driver.          *)
(*                                                                         *)
(* An address stands for the pair of type and address, and a position in   *)
(* the buffer counts elements.  What runs under asyncio_lock is one step,  *)
(* but for sbuf_put, whose other side does not take the lock.              *)
(***************************************************************************)
EXTENDS DmBase, Naturals, Sequences

CONSTANTS
    Doorbell,   \* addresses, none of them 0
    Fd,         \* the events' identities
    rings,      \* rings[v]: the addresses the guest accesses on the vCPU v
    assigned,   \* assigned[a]: the events the Service VM may assign to a
    DescMax,    \* ACRN_ASYNCIO_MAX
    EleNum      \* number of elements of the shared buffer

ASSUME AioBounds == DescMax \in Nat \ {0} /\ EleNum \in Nat \ {0, 1}
ASSUME RingsType == rings \in [Vcpu -> SUBSET Doorbell]
ASSUME AssignedType == assigned \in [Doorbell -> SUBSET Fd]
ASSUME EmptyType == Nobody \notin Doorbell \cup Fd

VARIABLES
    aio_desc,       \* the descriptors
    aiodesc_queue,  \* their list, by index
    asyncio_lock,
    aio_at,         \* where the vCPU is in emulate_io
    io,             \* the address it accesses
    desc,           \* the descriptor that get_asyncio_desc returned
    fd,             \* the event it puts
    buf, head, tail,
    aio_upcall,     \* the interrupt to the Service VM is pending
    reader,         \* what the HSM does with the buffer
    got             \* the element it has read last

descs == <<aio_desc, aiodesc_queue>>
accesses == <<aio_at, io, desc, fd>>
sbuf == <<buf, head, tail>>
reader_side == <<aio_upcall, reader, got>>
aioVars == <<aio_desc, aiodesc_queue, asyncio_lock, aio_at, io, desc, fd,
             buf, head, tail, aio_upcall, reader, got>>

DescIndex == 1..DescMax
Free == [addr |-> Nobody, fd |-> Nobody]
Position == 0..EleNum - 1
AnyFd == Fd \cup {Nobody}

AioTypeOK ==
    /\ aio_desc \in [DescIndex -> [addr : Doorbell \cup {Nobody}, fd : AnyFd]]
    /\ aiodesc_queue \in Seq(DescIndex) /\ Len(aiodesc_queue) <= DescMax
    /\ asyncio_lock \in Vcpu \cup {Nobody}
    /\ aio_at \in [Vcpu -> {"guest", "load", "put", "publish", "fire"}]
    /\ io \in [Vcpu -> Doorbell \cup {Nobody}]
    /\ desc \in [Vcpu -> 0..DescMax]
    /\ fd \in [Vcpu -> AnyFd]
    /\ buf \in [Position -> AnyFd]
    /\ head \in Position /\ tail \in Position
    /\ aio_upcall \in BOOLEAN
    /\ reader \in {"idle", "drain", "read"}
    /\ got \in AnyFd

(* The state after init_asyncio.                                           *)
AioInit ==
    /\ aio_desc = [i \in DescIndex |-> Free]
    /\ aiodesc_queue = <<>>
    /\ asyncio_lock = Nobody
    /\ aio_at = [v \in Vcpu |-> "guest"]
    /\ io = [v \in Vcpu |-> Nobody]
    /\ desc = [v \in Vcpu |-> 0]
    /\ fd = [v \in Vcpu |-> Nobody]
    /\ buf = [p \in Position |-> Nobody]
    /\ head = 0 /\ tail = 0
    /\ aio_upcall = FALSE
    /\ reader = "idle" /\ got = Nobody

-----------------------------------------------------------------------------
(* The descriptors, from hypercalls of the Service VM, which does not      *)
(* assign an address twice.                                                *)

add_asyncio(a, f) ==
    /\ asyncio_lock = Nobody
    /\ \A i \in DescIndex : aio_desc[i].addr # a
    /\ \E i \in DescIndex :
        /\ aio_desc[i] = Free
        /\ \A j \in 1..i - 1 : aio_desc[j] # Free
        /\ aio_desc' = [aio_desc EXCEPT ![i] = [addr |-> a, fd |-> f]]
        /\ aiodesc_queue' = <<i>> \o aiodesc_queue
    /\ UNCHANGED <<asyncio_lock, accesses, sbuf, reader_side>>

list_del(i) ==
    \E k \in 1..Len(aiodesc_queue) :
        /\ aiodesc_queue[k] = i
        /\ aiodesc_queue' = SubSeq(aiodesc_queue, 1, k - 1) \o
                            SubSeq(aiodesc_queue, k + 1, Len(aiodesc_queue))

remove_asyncio(a, f) ==
    /\ asyncio_lock = Nobody
    /\ \E i \in DescIndex :
        /\ aio_desc[i] = [addr |-> a, fd |-> f]
        /\ aio_desc' = [aio_desc EXCEPT ![i] = Free]
        /\ list_del(i)
    /\ UNCHANGED <<asyncio_lock, accesses, sbuf, reader_side>>

-----------------------------------------------------------------------------
(* The vCPU's access.                                                      *)

(* The first descriptor on the list with the address.                      *)
get_asyncio_desc(a, i) ==
    \E k \in 1..Len(aiodesc_queue) :
        /\ i = aiodesc_queue[k] /\ aio_desc[i].addr = a
        /\ \A j \in 1..k - 1 : aio_desc[aiodesc_queue[j]].addr # a

(* emulate_io up to the look-up, for an access the hypervisor has no       *)
(* handler for.  Without a descriptor it becomes a synchronous request.    *)
emulate_io(v, a) ==
    /\ aio_at[v] = "guest"
    /\ asyncio_lock = Nobody
    /\ \E i \in DescIndex :
        /\ get_asyncio_desc(a, i)
        /\ desc' = [desc EXCEPT ![v] = i]
    /\ io' = [io EXCEPT ![v] = a]
    /\ aio_at' = [aio_at EXCEPT ![v] = "load"]
    /\ UNCHANGED <<descs, asyncio_lock, fd, sbuf, reader_side>>

(* aio_desc->fd is read when the lock has been released.  (A local is      *)
(* cleared at its last use.)                                               *)
load_fd(v) ==
    /\ aio_at[v] = "load"
    /\ fd' = [fd EXCEPT ![v] = aio_desc[desc[v]].fd]
    /\ desc' = [desc EXCEPT ![v] = 0]
    /\ io' = [io EXCEPT ![v] = Nobody]
    /\ aio_at' = [aio_at EXCEPT ![v] = "put"]
    /\ UNCHANGED <<descs, asyncio_lock, sbuf, reader_side>>

sbuf_next_ptr(p) == IF p + 1 >= EleNum THEN p + 1 - EleNum ELSE p + 1

is_full == sbuf_next_ptr(tail) = head

(* Fault: another vCPU may put while this one does.                        *)
sbuf_put_unlocked(v) ==
    /\ aio_at[v] = "put"
    /\ ~is_full
    /\ buf' = [buf EXCEPT ![tail] = fd[v]]
    /\ fd' = [fd EXCEPT ![v] = Nobody]
    /\ aio_at' = [aio_at EXCEPT ![v] = "publish"]
    /\ UNCHANGED <<asyncio_lock, descs, io, desc, head, tail, reader_side>>

(* While the buffer is full the lock is released and taken again.          *)
sbuf_put(v) ==
    /\ aio_at[v] = "put"
    /\ asyncio_lock = Nobody
    /\ ~is_full
    /\ asyncio_lock' = v
    /\ buf' = [buf EXCEPT ![tail] = fd[v]]
    /\ fd' = [fd EXCEPT ![v] = Nobody]
    /\ aio_at' = [aio_at EXCEPT ![v] = "publish"]
    /\ UNCHANGED <<descs, io, desc, head, tail, reader_side>>

(* Fault: the vCPU goes on without an interrupt to the Service VM.         *)
publish_silently(v) ==
    /\ aio_at[v] = "publish"
    /\ tail' = sbuf_next_ptr(tail)
    /\ asyncio_lock' = Nobody
    /\ aio_at' = [aio_at EXCEPT ![v] = "guest"]
    /\ UNCHANGED <<descs, io, desc, fd, buf, head, reader_side>>

(* The element is behind the barrier; then the lock is released.           *)
publish(v) ==
    /\ aio_at[v] = "publish"
    /\ tail' = sbuf_next_ptr(tail)
    /\ asyncio_lock' = Nobody
    /\ aio_at' = [aio_at EXCEPT ![v] = "fire"]
    /\ UNCHANGED <<descs, io, desc, fd, buf, head, reader_side>>

fire_hsm_interrupt(v) ==
    /\ aio_at[v] = "fire"
    /\ aio_upcall' = TRUE
    /\ aio_at' = [aio_at EXCEPT ![v] = "guest"]
    /\ UNCHANGED <<descs, asyncio_lock, io, desc, fd, sbuf, reader, got>>

-----------------------------------------------------------------------------
(* The Service VM: on an upcall it empties the buffer.                     *)

take_aio_upcall ==
    /\ aio_upcall
    /\ aio_upcall' = FALSE
    /\ reader' = IF reader = "idle" THEN "drain" ELSE reader
    /\ UNCHANGED <<descs, asyncio_lock, accesses, sbuf, got>>

sbuf_read ==
    /\ reader = "drain"
    /\ IF head = tail
       THEN reader' = "idle" /\ UNCHANGED got
       ELSE reader' = "read" /\ got' = buf[head]
    /\ UNCHANGED <<descs, asyncio_lock, accesses, sbuf, aio_upcall>>

sbuf_consume ==
    /\ reader = "read"
    /\ head' = sbuf_next_ptr(head)
    /\ reader' = "drain"
    /\ UNCHANGED <<descs, asyncio_lock, accesses, buf, tail, aio_upcall, got>>

-----------------------------------------------------------------------------
step(v) ==
    \/ load_fd(v)
    \/ sbuf_put(v)
    \/ publish(v)
    \/ fire_hsm_interrupt(v)

drain == take_aio_upcall \/ sbuf_read \/ sbuf_consume

AioNext ==
    \/ \E a \in Doorbell : \E f \in assigned[a] : add_asyncio(a, f) \/ remove_asyncio(a, f)
    \/ \E v \in Vcpu : step(v) \/ \E a \in rings[v] : emulate_io(v, a)
    \/ drain

AioSpec == AioInit /\ [][AioNext]_aioVars

(* vCPU threads run, and the Service VM empties the buffer when told to.   *)
AioFairSpec == AioSpec /\ WF_aioVars(drain) /\ \A v \in Vcpu : WF_aioVars(step(v))

-----------------------------------------------------------------------------
(* Every event in the buffer has the Service VM's attention, or a vCPU     *)
(* that is about to ask for it: no event waits for the next one.           *)
EventIsAnnounced ==
    head # tail => aio_upcall \/ reader # "idle" \/ \E v \in Vcpu : aio_at[v] = "fire"

(* "buf can store (ele_num - 1) elements at most", and between its two     *)
(* sides, of which only one holds a lock, it is a first-in first-out       *)
(* buffer: nothing is lost, doubled, reordered or read half written.  An   *)
(* element is taken when it is read, before head goes past it.             *)
First == IF reader = "read" THEN head + 1 ELSE head
Stored == [k \in 1..(tail + EleNum - First) % EleNum |-> buf[(First + k - 1) % EleNum]]
Buffer == INSTANCE Fifo WITH
    Data <- AnyFd, Capacity <- EleNum - 1, stored <- Stored, taken <- got
ImplementsFifo == Buffer!Spec

(* "sbuf is full, try later..": again and again no vCPU waits for room, or *)
(* one of them has just got it, so a full buffer never stops all of them.  *)
RoomIsFound ==
    []<>((\E v \in Vcpu : aio_at[v] = "put") => \E v \in Vcpu : aio_at[v] \in {"publish", "fire"})

(* The spin-lock is there "to protect asyncio add/remove for a VM": the    *)
(* event an access puts is one that is assigned to its address.            *)
EventIsAssigned ==
    [][\A v \in Vcpu :
        aio_at[v] = "load" /\ aio_at'[v] = "put"
            => \E i \in DescIndex : aio_desc[i] = [addr |-> io[v], fd |-> fd'[v]]]_aioVars

=============================================================================
