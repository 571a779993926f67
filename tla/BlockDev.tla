------------------------------ MODULE BlockDev ------------------------------
(***************************************************************************)
(* A disk of a guest: BlockIf under one of its two controllers, the virtio *)
(* block device or a port of the AHCI controller.                          *)
(***************************************************************************)
EXTENDS VirtioBlk, Ahci

(* The offsets and ends of the transfers are offsets of BlockIf, and the   *)
(* holders of a mutex are told apart.                                      *)
ASSUME DiskAssumption ==
    {0, 512, 1024} \subseteq Offset /\ {"write", "notify"} \cap (Worker \cup {NULL}) = {}

VARIABLE client     \* the controller the disk is attached to

vars == <<bvars, vvars, avars, client>>

Init ==
    /\ client \in {"virtio", "ahci"}
    /\ blockif_open /\ virtio_init /\ ahci_init

(* virtio_blk_deinit and pci_ahci_deinit, once the thread that handles the *)
(* guest's requests (vm_loop) is gone.                                     *)
deinit ==
    /\ notify = "idle" /\ port_mtx.by # "write"
    /\ blockif_close
    /\ UNCHANGED <<vvars, avars>>

(* A thread of the backend, in the backend and in its client's callback.   *)
blockif_thread(w) ==
    /\ \/ blockif_thr(w) \/ blockif_proc(w) \/ blockif_complete(w)
    /\ UNCHANGED <<vvars, avars>>

callback(w) ==
    \/ /\ client = "virtio"
       /\ virtio_blk_done(w) \/ done_ends(w)
       /\ UNCHANGED avars
    \/ /\ client = "ahci"
       /\ \/ cb_continues(w) \/ cb_returns(w)
          \/ \E err \in BOOLEAN : cb_ends(w, err)
          \/ port_mtx.by = w /\ ahci_handle_port
       /\ UNCHANGED vvars

(* vm_loop: the notification and the register writes it is in.             *)
vm_loop ==
    \/ client = "virtio" /\ virtio_blk_notify /\ UNCHANGED avars
    \/ /\ client = "ahci"
       /\ \/ port_mtx.by = "write" /\ ahci_handle_port
          \/ write_returns
          \/ \E s \in Req : stop_cancels(s) \/ stop_interrupts(s)
          \/ stop_goes_on \/ stop_ends
       /\ UNCHANGED vvars

(* What the guest does in any case: it handles interrupts, and recovers a  *)
(* port that is in error or stopped.                                       *)
guest_reacts ==
    \/ client = "virtio" /\ virtio_guest /\ UNCHANGED avars
    \/ /\ client = "ahci"
       /\ (waitforclear /\ guest_stops) \/ guest_starts
       /\ UNCHANGED vvars

guest_asks ==
    \/ /\ client = "virtio"
       /\ \E r \in Req, k \in Kinds : guest_posts(r, k)
       /\ UNCHANGED avars
    \/ /\ client = "ahci"
       /\ \/ \E s \in Req, c \in Command : guest_issues(s, c)
          \/ guest_stops \/ ahci_reset
       /\ UNCHANGED vvars

Next ==
    /\ \/ \E w \in Worker : blockif_thread(w) \/ callback(w)
       \/ vm_loop \/ guest_reacts \/ guest_asks \/ deinit
    /\ UNCHANGED client

(* A thread that wants a mutex gets it in the end and then runs on, and    *)
(* the guest gets to run between the register writes of vm_loop.           *)
Fairness ==
    /\ \A w \in Worker : SF_vars((blockif_thread(w) \/ callback(w)) /\ UNCHANGED client)
    /\ SF_vars(vm_loop /\ UNCHANGED client)
    /\ SF_vars(guest_reacts /\ UNCHANGED client)

Spec == Init /\ [][Next]_vars
FairSpec == Spec /\ Fairness

-----------------------------------------------------------------------------

(* The guest's memory is its own once the device has answered: a request   *)
(* on the used ring, a command whose PxCI and PxSACT bits are clear and a  *)
(* port whose PxCMD.CR is clear have no transfer queued or in progress     *)
(* (ahci_check_stopped: "If we are no longer processing the command list   *)
(* and nothing is in-flight, clear the running bit").                      *)
NoIoBehindGuest ==
    \A r \in Req :
        \/ ~is_queued(r) /\ \A w \in Worker : worker[w].at = "busy" => worker[w].req # r
        \/ client = "virtio" /\ r \in posted \ used
        \/ client = "ahci" /\ r \in ci \cup sact /\ cmd.cr

answered(r) == IF client = "virtio" THEN r \notin posted ELSE r \notin ci \cup sact

(* Every request is answered: whatever notifications, interrupts and       *)
(* callbacks cross, however requests block each other and whether or not   *)
(* the port is stopped meanwhile, the guest gets each chain and each slot  *)
(* back, and blockif_close gets all its threads to join.  A guest that     *)
(* keeps virtio_blk_notify in its loops for ever (with requests answered   *)
(* at once) keeps blk->mtx from the callbacks and is not promised this.    *)
DeviceAnswers ==
    /\ \A r \in Req : []<>(closing \/ answered(r)) \/ <>[](notify # "idle")
    /\ []<>(closing => \A w \in Worker : worker[w].at = "exit")

=============================================================================
