----------------------------- MODULE VirtioBlk -----------------------------
(***************************************************************************)
(* The virtio block device (hw/pci/virtio/virtio_block.c) and its          *)
(* virtqueue (virtio.c): requests the guest posts are handed to BlockIf,   *)
(* and its callbacks put them on the used ring and interrupt the guest.    *)
(* The notification handler and the callbacks exclude each other with      *)
(* blk->mtx (virtio_base.mtx); the guest shares only the ring with them.   *)
(***************************************************************************)
EXTENDS BlockIf

CONSTANT Kind       \* the types of request the guest makes with each chain

VARIABLES
    avail,          \* the chains between last_avail and avail->idx, in order
    used,           \* the chains on the used ring the guest has not taken
    kind,           \* the type of each chain's request
    no_notify,      \* VRING_USED_F_NO_NOTIFY
    no_intr,        \* VRING_AVAIL_F_NO_INTERRUPT
    kick,           \* a QUEUE_NOTIFY write that is not handled yet
    intr,           \* an interrupt that is not handled yet
    notify,         \* where virtio_blk_notify is
    blk_mtx,        \* the holder of blk->mtx: NULL, "notify" or a worker
    posted,         \* the guest: chains it has given to the device,
    driver,         \* where it is in posting one
    isr             \* and in its interrupt handler

ring == <<avail, used, kind, no_notify, no_intr, kick, intr>>
guest == <<posted, driver, isr>>
vvars == <<ring, guest, notify, blk_mtx>>

(* Two adjacent transfers, a flush, and a request that is answered without *)
(* any I/O (IDENT, and every request refused with an error).               *)
Kinds == {"first", "second", "flush", "ident"}

ASSUME KindAssumption == Kind \in [Req -> SUBSET Kinds]

virtio_init ==
    /\ avail = <<>> /\ used = {} /\ kind = [r \in Req |-> "ident"]
    /\ no_notify = FALSE /\ no_intr = FALSE /\ kick = FALSE /\ intr = FALSE
    /\ notify = "idle" /\ blk_mtx = NULL
    /\ posted = {} /\ driver = "idle" /\ isr = "idle"

vq_has_descs == avail # <<>>

-----------------------------------------------------------------------------
(* virtio_blk_notify, called with blk->mtx held.                           *)

(* The look at the ring and the mask of further notifications: the guest   *)
(* sees only the mask.                                                     *)
notify_entered ==
    /\ ~closing /\ kick /\ notify = "idle" /\ blk_mtx = NULL
    /\ kick' = FALSE
    /\ \/ ~vq_has_descs /\ UNCHANGED <<notify, blk_mtx, no_notify>>
       \/ vq_has_descs /\ notify' = "proc" /\ blk_mtx' = "notify" /\ no_notify' = TRUE
    /\ UNCHANGED <<avail, used, kind, no_intr, intr, guest, bvars>>

(* The offset and end of a transfer; a flush takes the header's sector.    *)
submit(r) ==
    \/ kind[r] = "first"  /\ blockif_request(r, 0, 512)
    \/ kind[r] = "second" /\ blockif_request(r, 512, 1024)
    \/ kind[r] = "flush"  /\ blockif_request(r, 0, flush_end)

virtio_blk_proc ==
    /\ notify = "proc"
    /\ vq_has_descs
    /\ avail' = Tail(avail)
    /\ \/ /\ kind[Head(avail)] = "ident"
          /\ used' = used \cup {Head(avail)}
          /\ notify' = "end"
          /\ UNCHANGED bvars
       \/ /\ submit(Head(avail))
          /\ notify' = "test"
          /\ UNCHANGED used
    /\ UNCHANGED <<kind, no_notify, no_intr, kick, intr, blk_mtx, guest>>

(* vq_endchains: "suppressed by VRING_AVAIL_F_NO_INTERRUPT".               *)
vq_endchains == intr' = (intr \/ ~no_intr)

proc_answered ==
    /\ notify = "end"
    /\ vq_endchains
    /\ notify' = "test"
    /\ UNCHANGED <<avail, used, kind, no_notify, no_intr, kick, blk_mtx, guest, bvars>>

inner_loop ==
    /\ notify = "test"
    /\ notify' = IF vq_has_descs THEN "proc" ELSE "unmask"
    /\ UNCHANGED <<ring, blk_mtx, guest, bvars>>

vq_clear_used_ring_flags ==
    /\ notify = "unmask"
    /\ no_notify' = FALSE
    /\ notify' = "recheck"
    /\ UNCHANGED <<avail, used, kind, no_intr, kick, intr, blk_mtx, guest, bvars>>

(* Fault: the handler returns without the outer loop's second look.        *)
outer_loop_once ==
    /\ notify = "recheck"
    /\ notify' = "idle" /\ blk_mtx' = NULL
    /\ UNCHANGED <<ring, guest, bvars>>

outer_loop ==
    /\ notify = "recheck"
    /\ \/ vq_has_descs /\ notify' = "proc" /\ no_notify' = TRUE /\ UNCHANGED blk_mtx
       \/ ~vq_has_descs /\ notify' = "idle" /\ blk_mtx' = NULL /\ UNCHANGED no_notify
    /\ UNCHANGED <<avail, used, kind, no_intr, kick, intr, guest, bvars>>

virtio_blk_notify ==
    \/ notify_entered \/ virtio_blk_proc \/ proc_answered
    \/ inner_loop \/ vq_clear_used_ring_flags \/ outer_loop

-----------------------------------------------------------------------------
(* The callback: vq_relchain, then vq_endchains, under blk->mtx.           *)

virtio_blk_done(w) ==
    /\ worker[w].at = "callback"
    /\ blk_mtx = NULL
    /\ blk_mtx' = w
    /\ used' = used \cup {worker[w].req}
    /\ UNCHANGED <<avail, kind, no_notify, no_intr, kick, intr, notify, guest, bvars>>

done_ends(w) ==
    /\ blk_mtx = w
    /\ blk_mtx' = NULL
    /\ vq_endchains
    /\ callback_returns(w)
    /\ UNCHANGED <<avail, used, kind, no_notify, no_intr, kick, notify, guest>>

-----------------------------------------------------------------------------
(* The guest's driver: it posts a chain, then looks whether to notify; its *)
(* interrupt handler masks interrupts, takes the used chains, unmasks and  *)
(* looks again.                                                            *)

guest_posts(r, k) ==
    /\ ~closing /\ driver = "idle" /\ r \notin posted
    /\ k \in Kind[r]
    /\ posted' = posted \cup {r}
    /\ kind' = [kind EXCEPT ![r] = k]
    /\ avail' = Append(avail, r)
    /\ driver' = "kick"
    /\ UNCHANGED <<used, no_notify, no_intr, kick, intr, isr, notify, blk_mtx, bvars>>

guest_kicks ==
    /\ ~closing /\ driver = "kick"
    /\ kick' = (kick \/ ~no_notify)
    /\ driver' = "idle"
    /\ UNCHANGED <<avail, used, kind, no_notify, no_intr, intr, posted, isr, notify, blk_mtx, bvars>>

guest_interrupted ==
    /\ ~closing
    /\ \/ isr = "idle" /\ intr /\ intr' = FALSE
       \/ isr = "recheck" /\ used # {} /\ UNCHANGED intr
    /\ no_intr' = TRUE
    /\ posted' = posted \ used
    /\ kind' = [r \in Req |-> IF r \in used THEN "ident" ELSE kind[r]]
    /\ used' = {}
    /\ isr' = "enable"
    /\ UNCHANGED <<avail, no_notify, kick, driver, notify, blk_mtx, bvars>>

guest_enables ==
    /\ ~closing
    /\ \/ isr = "enable" /\ no_intr' = FALSE /\ isr' = "recheck"
       \/ isr = "recheck" /\ used = {} /\ isr' = "idle" /\ UNCHANGED no_intr
    /\ UNCHANGED <<avail, used, kind, no_notify, kick, intr, posted, driver, notify, blk_mtx, bvars>>

virtio_guest == guest_kicks \/ guest_interrupted \/ guest_enables

=============================================================================
