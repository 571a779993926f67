-------------------------------- MODULE Ahci --------------------------------
(***************************************************************************)
(* A port of the AHCI controller (hw/pci/ahci.c): commands the guest       *)
(* issues in slots, handed to BlockIf one transfer at a time, and the stop *)
(* of the port, which cancels what is in flight.  ahci_dev->mtx is held by *)
(* a register write or by a callback (port_mtx) over several steps: the    *)
(* stop waits in blockif_cancel with it, and ahci_handle_port issues slot  *)
(* after slot.                                                             *)
(*                                                                         *)
(* A slot has at most one aior at a time and there are more aiors than     *)
(* slots, so an aior is its slot (Req), and iobhd is pending.              *)
(***************************************************************************)
EXTENDS BlockIf

CONSTANTS
    Slots,          \* the number of command slots; Req is 0 .. Slots - 1
    Patient,        \* the guest starts a stopped port only once CR is clear
    QuietReset      \* the guest resets the controller only with the port stopped

ASSUME SlotsAssumption == Slots \in Nat \ {0} /\ Req = 0 .. (Slots - 1)

VARIABLES
    cmd,            \* PxCMD: [st, cr]
    busy,           \* PxTFD.BSY
    waitforclear,
    ci, sact,       \* PxCI, PxSACT
    pending,        \* the slots in flight
    ccs,            \* the slot ahci_handle_port looks at next
    command,        \* the command in each slot
    port_mtx        \* the holder of ahci_dev->mtx and what it does

registers == <<cmd, busy, waitforclear, ci, sact, pending, ccs>>
avars == <<registers, command, port_mtx>>

(* A queued transfer, a transfer whose PRDT does not fit one request, a    *)
(* flush, a command answered at once, and one that is refused.             *)
Command == {"ncq", "long", "flush", "setmulti", "refused"}

free_mtx == [by |-> NULL, does |-> "nothing", slots |-> {}]

ahci_init ==
    /\ cmd = [st |-> TRUE, cr |-> TRUE] /\ busy = FALSE /\ waitforclear = FALSE
    /\ ci = {} /\ sact = {} /\ pending = {} /\ ccs = 0
    /\ command = [s \in Req |-> "none"]
    /\ port_mtx = free_mtx

holds(does) == port_mtx.by # NULL /\ port_mtx.does = does

ncq(s) == command[s] = "ncq"

-----------------------------------------------------------------------------
(* ahci_handle_port: the slots that are issued and not in flight, from ccs *)
(* on, until the device is busy or in error.                               *)

waiting_slots == ci \ pending

goes_on == cmd.st /\ waiting_slots # {} /\ ~busy /\ ~waitforclear

next_slot(s) ==
    \A t \in waiting_slots : (s + Slots - ccs) % Slots <= (t + Slots - ccs) % Slots

(* ahci_handle_rw, ahci_handle_flush: the slot's first transfer.  A flush  *)
(* does not set breq->offset, which keeps what the aior had before.        *)
transfer(s) ==
    \/ command[s] \in {"ncq", "long"} /\ blockif_request(s, 0, 512)
    \/ command[s] = "flush" /\ \E off \in Offset : blockif_request(s, off, flush_end)

ahci_handle_slot(s) ==
    \/ /\ command[s] \in {"ncq", "long", "flush"}
       /\ pending' = pending \cup {s}
       /\ busy' = ~ncq(s)
       /\ ci' = IF ncq(s) THEN ci \ {s} ELSE ci
       /\ transfer(s)
       /\ UNCHANGED <<waitforclear, command>>
    \/ /\ command[s] = "setmulti"
       /\ ci' = ci \ {s}
       /\ command' = [command EXCEPT ![s] = "none"]
       /\ UNCHANGED <<busy, waitforclear, pending, bvars>>
    \/ /\ command[s] = "refused"
       /\ waitforclear' = TRUE
       /\ UNCHANGED <<busy, ci, pending, command, bvars>>

ahci_handle_port ==
    /\ holds("issue")
    /\ goes_on
    /\ \E s \in waiting_slots :
          /\ next_slot(s)
          /\ ahci_handle_slot(s)
          /\ ccs' = (s + 1) % Slots
    /\ UNCHANGED <<cmd, sact, port_mtx>>

write_returns ==
    /\ holds("issue") /\ port_mtx.by = "write"
    /\ ~goes_on
    /\ port_mtx' = free_mtx
    /\ UNCHANGED <<registers, command, bvars>>

-----------------------------------------------------------------------------
(* ata_ioreq_cb.                                                           *)

(* ahci_check_stopped, with the slots still in flight.                     *)
ahci_check_stopped(left) ==
    IF ~cmd.st /\ left = {}
      THEN /\ cmd' = [cmd EXCEPT !.cr = FALSE]
           /\ ccs' = 0 /\ ci' = {} /\ sact' = {} /\ waitforclear' = FALSE
           /\ command' = [s \in Req |-> "none"]
      ELSE UNCHANGED <<cmd, ccs>>

(* aior->more: the next transfer of the same command, from an aior of its  *)
(* own, also when the port is being stopped.                               *)
cb_continues(w) ==
    LET s == worker[w].req
    IN  /\ worker[w].at = "callback"
        /\ port_mtx.by = NULL
        /\ command[s] = "long"
        /\ command' = [command EXCEPT ![s] = "last"]
        /\ blockif_request(s, 512, 1024)
        /\ port_mtx' = [by |-> w, does |-> "return", slots |-> {}]
        /\ UNCHANGED registers

(* err: the I/O failed, or was interrupted by blockif_cancel.              *)
cb_ends(w, err) ==
    LET s == worker[w].req
        stopped == ~cmd.st /\ pending = {s}
    IN  /\ worker[w].at = "callback"
        /\ port_mtx.by = NULL
        /\ err \/ command[s] # "long"
        /\ pending' = pending \ {s}
        /\ busy' = (busy /\ ncq(s))
        /\ ahci_check_stopped(pending \ {s})
        /\ ~stopped => /\ ci' = IF err \/ ncq(s) THEN ci ELSE ci \ {s}
                       /\ sact' = IF err \/ ~ncq(s) THEN sact ELSE sact \ {s}
                       /\ waitforclear' = (waitforclear \/ err)
                       /\ command' = [command EXCEPT ![s] = IF err THEN @ ELSE "none"]
        /\ port_mtx' = [by |-> w, does |-> "issue", slots |-> {}]
        /\ UNCHANGED bvars

cb_returns(w) ==
    /\ port_mtx.by = w
    /\ holds("issue") => ~goes_on
    /\ port_mtx' = free_mtx
    /\ callback_returns(w)
    /\ UNCHANGED <<registers, command>>

-----------------------------------------------------------------------------
(* The guest's register writes.                                            *)

(* PxSACT and PxCI.                                                        *)
guest_issues(s, c) ==
    /\ ~closing /\ port_mtx.by = NULL
    /\ cmd.st /\ ~waitforclear /\ s \notin ci \cup sact
    /\ command' = [command EXCEPT ![s] = c]
    /\ ci' = ci \cup {s}
    /\ sact' = IF c = "ncq" THEN sact \cup {s} ELSE sact
    /\ port_mtx' = [by |-> "write", does |-> "issue", slots |-> {}]
    /\ UNCHANGED <<cmd, busy, waitforclear, pending, ccs, bvars>>

(* PxCMD without ST: ahci_port_stop.                                       *)
guest_stops ==
    /\ ~closing /\ port_mtx.by = NULL
    /\ cmd.st
    /\ cmd' = [cmd EXCEPT !.st = FALSE]
    /\ port_mtx' = [by |-> "write", does |-> "stop", slots |-> pending]
    /\ UNCHANGED <<busy, waitforclear, ci, sact, pending, ccs, command, bvars>>

stop_cancels(s) ==
    /\ holds("stop") /\ s \in port_mtx.slots
    /\ cancel_queued(s)
    /\ pending' = pending \ {s}
    /\ ci' = IF ncq(s) THEN ci ELSE ci \ {s}
    /\ sact' = IF ncq(s) THEN sact \ {s} ELSE sact
    /\ command' = [command EXCEPT ![s] = "none"]
    /\ port_mtx' = [port_mtx EXCEPT !.slots = @ \ {s}]
    /\ UNCHANGED <<cmd, busy, waitforclear, ccs>>

(* Fault: ahci_port_stop takes EBUSY for success.                          *)
stop_interrupts_done(s) ==
    /\ holds("stop") /\ s \in port_mtx.slots
    /\ cancel_busy(s)
    /\ pending' = pending \ {s}
    /\ port_mtx' = [port_mtx EXCEPT !.slots = @ \ {s}]
    /\ UNCHANGED <<cmd, busy, waitforclear, ci, sact, ccs, command>>

stop_interrupts(s) ==
    /\ holds("stop") /\ s \in port_mtx.slots
    /\ cancel_busy(s)
    /\ port_mtx' = [port_mtx EXCEPT !.slots = @ \ {s}]
    /\ UNCHANGED <<registers, command>>

stop_goes_on ==
    /\ holds("stop")
    /\ cancel_returns
    /\ UNCHANGED avars

stop_ends ==
    /\ holds("stop") /\ port_mtx.slots = {} /\ canceling = NULL
    /\ ahci_check_stopped(pending)
    /\ cmd.st \/ pending # {} => UNCHANGED <<ci, sact, waitforclear, command>>
    /\ port_mtx' = free_mtx
    /\ UNCHANGED <<busy, pending, bvars>>

(* PxCMD with CLO, then with ST.                                           *)
guest_starts ==
    /\ ~closing /\ port_mtx.by = NULL
    /\ ~cmd.st
    /\ Patient => ~cmd.cr
    /\ cmd' = [st |-> TRUE, cr |-> TRUE]
    /\ busy' = FALSE
    /\ port_mtx' = [by |-> "write", does |-> "issue", slots |-> {}]
    /\ UNCHANGED <<waitforclear, ci, sact, pending, ccs, command, bvars>>

(* GHC.HR: ahci_reset and ahci_port_reset.                                 *)
ahci_reset ==
    /\ ~closing /\ port_mtx.by = NULL
    /\ QuietReset => ~cmd.cr
    /\ cmd' = [st |-> FALSE, cr |-> FALSE]
    /\ busy' = FALSE
    /\ sact' = {}
    /\ UNCHANGED <<waitforclear, ci, pending, ccs, command, port_mtx, bvars>>

=============================================================================
