-------------------------------- MODULE PtIntx --------------------------------
(***************************************************************************)
(* A level-triggered line of a passed-through device, from the physical    *)
(* IOAPIC pin to the guest and back (x86 build): dispatch_interrupt,       *)
(* do_irq and do_softirq on the pCPU that takes the interrupt              *)
(* (arch/x86/irq.c, common/irq.c, common/softirq.c), the remapping entry   *)
(* and its softirq list (common/ptdev.c, arch/x86/guest/assign.c), and the *)
(* virtual IOAPIC pin with the guest's redirection table writes and EOIs   *)
(* (dm/vioapic.c).  Four actors interleave: the interrupted pCPU, the      *)
(* vCPU, the hypercall that removes or adds the mapping, and the device.   *)
(*                                                                         *)
(* The handler masks the physical pin; only the guest's EOI, or its next   *)
(* redirection table write, unmasks it.  One irq, one vector, one pin,     *)
(* active high; the pin belongs to a User VM when Delays, whose interrupts *)
(* may be held back by intr_delay_timer.                                   *)
(***************************************************************************)
EXTENDS Naturals

CONSTANTS
    Delays,      \* whether intr_inject_delay_delta > 0
    Quiesced     \* whether a mapping is removed only from a quiet device

ASSUME PtIntxAssumption == Delays \in BOOLEAN /\ Quiesced \in BOOLEAN

VARIABLES
    line,        \* the device asserts its line
    rte,         \* physical pin: mask, and sent (the IOAPIC's remote IRR)
    lapic,       \* the host vector at the pCPU: irr, isr
    desc,        \* the irq: action (with priv_data), level, vector, num
    handler,     \* dispatch_interrupt and do_irq: at, and what they have read
    softirq,     \* SOFTIRQ_PTDEV pending; at, do_softirq; cur, ptirq_softirq
    list,        \* entry is on softirq_dev_entry_list
    timer,       \* intr_delay_timer: unset, armed, expired
    entry,       \* the remapping entry: none, inactive, active
    vrte,        \* virtual pin: mask, remote_irr, pin (pin_state)
    vlapic,      \* the guest's vector: irr, isr
    vcpu,        \* the vCPU: in the guest, or in a step of a VM exit
    hcall        \* the hypercall: idle, or in a step of the removal

hostVars == <<rte, lapic, desc, handler, softirq, list, timer, entry>>
guestVars == <<vrte, vlapic, vcpu>>
vars == <<line, hostVars, guestVars, hcall>>

-----------------------------------------------------------------------------
(* The virtual pin.  generate(v) is what vioapic_generate_intr makes of    *)
(* the pin v and of the guest's vector.                                    *)

sends(v) == ~v.mask /\ ~v.remote_irr

vioapic_generate_intr(v) ==
    /\ vrte' = [v EXCEPT !.remote_irr = @ \/ sends(v)]
    /\ vlapic' = [vlapic EXCEPT !.irr = @ \/ sends(v)]

vioapic_set_pinstate(high) ==
    LET v == [vrte EXCEPT !.pin = high] IN
    IF high /\ ~vrte.pin THEN vioapic_generate_intr(v)
    ELSE vrte' = v /\ UNCHANGED vlapic

(* Generate again when the pin is (still) asserted: vioapic_need_intr.     *)
regenerate(v) ==
    IF v.pin THEN vioapic_generate_intr(v) ELSE vrte' = v /\ UNCHANGED vlapic

(* The vCPU holds the vioapic lock across a redirection table write.       *)
vioapic_locked == vcpu \in {"remap", "unmask"}

-----------------------------------------------------------------------------
Init ==
    /\ line = FALSE
    /\ rte = [mask |-> TRUE, sent |-> FALSE]
    /\ lapic = [irr |-> FALSE, isr |-> FALSE]
    /\ desc = [action |-> FALSE, level |-> FALSE, vector |-> FALSE, num |-> FALSE]
    /\ handler = [at |-> "idle", action |-> FALSE, level |-> FALSE]
    /\ softirq = [pending |-> FALSE, at |-> "idle", cur |-> "none"]
    /\ list = FALSE
    /\ timer = "unset"
    /\ entry = "none"
    /\ vrte = [mask |-> TRUE, remote_irr |-> FALSE, pin |-> FALSE]
    /\ vlapic = [irr |-> FALSE, isr |-> FALSE]
    /\ vcpu = "guest"
    /\ hcall = "idle"

(* The device and the physical IOAPIC: a level is sent once per EOI.       *)
device_asserts ==
    /\ ~line
    /\ line' = TRUE
    /\ UNCHANGED <<hostVars, guestVars, hcall>>

ioapic_sends ==
    /\ line /\ ~rte.mask /\ ~rte.sent
    /\ rte' = [rte EXCEPT !.sent = TRUE]
    /\ lapic' = [lapic EXCEPT !.irr = TRUE]
    /\ UNCHANGED <<line, desc, handler, softirq, list, timer, entry, guestVars, hcall>>

-----------------------------------------------------------------------------
(* The interrupted pCPU.  An interrupt nests in the softirq part that runs *)
(* with interrupts enabled.                                                *)

dispatch_interrupt ==
    /\ handler.at = "idle"
    /\ softirq.at # "off"
    /\ lapic.irr
    /\ IF desc.vector
       THEN /\ handler' = [handler EXCEPT !.at = "bound"]
            /\ lapic' = [irr |-> FALSE, isr |-> TRUE]
            /\ UNCHANGED rte
       ELSE /\ lapic' = [irr |-> FALSE, isr |-> FALSE]
            /\ rte' = [rte EXCEPT !.sent = FALSE]
            /\ UNCHANGED handler
    /\ UNCHANGED <<line, desc, softirq, list, timer, entry, guestVars, hcall>>

(* irq_data[irq].vector is compared with the vector that came in.          *)
vector_matches ==
    /\ handler.at = "bound"
    /\ handler' = [handler EXCEPT !.at = IF desc.vector THEN "matched" ELSE "idle"]
    /\ UNCHANGED <<line, rte, lapic, desc, softirq, list, timer, entry, guestVars, hcall>>

(* do_irq tests irq_alloc_bitmap, and handle_irq reads the descriptor.     *)
do_irq ==
    /\ handler.at = "matched"
    /\ handler' = IF desc.num
                  THEN [at |-> "found", action |-> desc.action, level |-> desc.level]
                  ELSE [handler EXCEPT !.at = "exit"]
    /\ UNCHANGED <<line, rte, lapic, desc, softirq, list, timer, entry, guestVars, hcall>>

pre_irq_arch ==
    /\ handler.at = "found"
    /\ rte' = [mask |-> rte.mask \/ handler.level, sent |-> FALSE]
    /\ lapic' = [lapic EXCEPT !.isr = FALSE]
    /\ handler' = [handler EXCEPT !.at = "masked"]
    /\ UNCHANGED <<line, desc, softirq, list, timer, entry, guestVars, hcall>>

(* The action, ptirq_interrupt_handler, gets the priv_data of the moment.  *)
ptirq_interrupt_handler ==
    /\ handler.at = "masked"
    /\ LET enqueue == handler.action /\ desc.action /\ timer # "armed" IN
       /\ handler' = [handler EXCEPT
              !.at = IF handler.action /\ ~desc.action THEN "fault" ELSE "exit"]
       /\ list' = (list \/ enqueue)
       /\ softirq' = [softirq EXCEPT !.pending = @ \/ enqueue]
       /\ timer' = IF enqueue THEN "unset" ELSE timer
    /\ UNCHANGED <<line, rte, lapic, desc, entry, guestVars, hcall>>

(* do_softirq: nested calls return at once.                                *)
enter_softirq ==
    /\ handler.at = "exit"
    /\ handler' = [at |-> "idle", action |-> FALSE, level |-> FALSE]
    /\ softirq' = [softirq EXCEPT !.at = IF @ = "idle" THEN "on" ELSE @]
    /\ UNCHANGED <<line, rte, lapic, desc, list, timer, entry, guestVars, hcall>>

(* do_softirq_internal runs with interrupts enabled, and once more after   *)
(* they are disabled (at = "last", "off").                                 *)
next_part(at) == [on |-> "last", last |-> "off", off |-> "idle"][at]

(* Fault: no second pass with interrupts disabled.                         *)
do_softirq_once ==
    /\ handler.at = "idle" /\ softirq.at # "idle" /\ softirq.cur = "none"
    /\ softirq' = IF softirq.pending /\ softirq.at = "on"
                  THEN [softirq EXCEPT !.pending = FALSE, !.cur = "dequeue"]
                  ELSE [softirq EXCEPT !.at = next_part(@)]
    /\ UNCHANGED <<line, rte, lapic, desc, handler, list, timer, entry, guestVars, hcall>>

do_softirq ==
    /\ handler.at = "idle" /\ softirq.at # "idle" /\ softirq.cur = "none"
    /\ softirq' = IF softirq.pending /\ softirq.at # "last"
                  THEN [softirq EXCEPT !.pending = FALSE, !.cur = "dequeue"]
                  ELSE [softirq EXCEPT !.at = next_part(@)]
    /\ UNCHANGED <<line, rte, lapic, desc, handler, list, timer, entry, guestVars, hcall>>

(* An interrupt of a User VM that is not due waits for its timer.          *)
ptirq_dequeue_softirq ==
    /\ handler.at = "idle" /\ softirq.cur = "dequeue"
    /\ \/ /\ ~list
          /\ softirq' = [softirq EXCEPT !.cur = "none"]
          /\ UNCHANGED <<list, timer>>
       \/ /\ list
          /\ list' = FALSE
          /\ softirq' = [softirq EXCEPT !.cur = "taken"]
          /\ UNCHANGED timer
       \/ /\ list /\ Delays /\ timer = "unset"
          /\ list' = FALSE
          /\ timer' = "armed"
          /\ UNCHANGED softirq
    /\ UNCHANGED <<line, rte, lapic, desc, handler, entry, guestVars, hcall>>

(* ptirq_softirq skips an inactive entry and injects for an active one.    *)
skip_inactive ==
    /\ handler.at = "idle" /\ softirq.cur = "taken"
    /\ softirq' = [softirq EXCEPT !.cur = IF entry = "active" THEN "checked" ELSE "dequeue"]
    /\ UNCHANGED <<line, rte, lapic, desc, handler, list, timer, entry, guestVars, hcall>>

ptirq_handle_intx ==
    /\ handler.at = "idle" /\ softirq.cur = "checked"
    /\ ~vioapic_locked
    /\ IF entry = "none"
       THEN softirq' = [softirq EXCEPT !.cur = "fault"] /\ UNCHANGED <<vrte, vlapic>>
       ELSE /\ softirq' = [softirq EXCEPT !.cur = "dequeue"]
            /\ vioapic_set_pinstate(TRUE)
    /\ UNCHANGED <<line, rte, lapic, desc, handler, list, timer, entry, vcpu, hcall>>

(* The timer softirq on the same pCPU calls ptirq_intr_delay_callback.     *)
ptirq_intr_delay_callback ==
    /\ timer = "armed"
    /\ handler.at = "idle" /\ softirq.cur = "none"
    /\ timer' = "expired"
    /\ list' = TRUE
    /\ softirq' = [softirq EXCEPT !.pending = TRUE, !.at = IF @ = "idle" THEN "on" ELSE @]
    /\ UNCHANGED <<line, rte, lapic, desc, handler, entry, guestVars, hcall>>

-----------------------------------------------------------------------------
(* The guest, and the VM exits of its vCPU.                                *)

guest_takes ==
    /\ vcpu = "guest"
    /\ vlapic.irr /\ ~vlapic.isr
    /\ vlapic' = [irr |-> FALSE, isr |-> TRUE]
    /\ UNCHANGED <<line, hostVars, vrte, vcpu, hcall>>

guest_services ==
    /\ vcpu = "guest"
    /\ vlapic.isr /\ line
    /\ line' = FALSE
    /\ UNCHANGED <<hostVars, guestVars, hcall>>

(* A write of the redirection table entry, under the vioapic lock.  The    *)
(* lookup of the entry takes ptdev_lock, which a removal holds.            *)
vioapic_indirect_write(masked) ==
    LET v == [vrte EXCEPT !.mask = masked] IN
    /\ vcpu = "guest"
    /\ hcall = "idle"
    /\ IF entry = "active" /\ ~(masked /\ vrte.mask)
       THEN /\ vrte' = v
            /\ rte' = [rte EXCEPT !.mask = TRUE]
            /\ vcpu' = "remap"
            /\ UNCHANGED vlapic
       ELSE regenerate(v) /\ UNCHANGED <<rte, vcpu>>
    /\ UNCHANGED <<line, lapic, desc, handler, softirq, list, timer, entry, hcall>>

(* activate_ioapic_rte: the trigger mode, the masked entry, the unmask.    *)
set_irq_trigger_mode ==
    /\ vcpu = "remap"
    /\ desc' = [desc EXCEPT !.level = TRUE]
    /\ rte' = [rte EXCEPT !.mask = TRUE]
    /\ vcpu' = "unmask"
    /\ UNCHANGED <<line, lapic, handler, softirq, list, timer, entry, vrte, vlapic, hcall>>

(* Fault: the pin is generated for only by the write that finds no entry.  *)
activate_no_regenerate ==
    /\ vcpu = "unmask"
    /\ rte' = [rte EXCEPT !.mask = vrte.mask /\ @]
    /\ vcpu' = "guest"
    /\ UNCHANGED <<line, lapic, desc, handler, softirq, list, timer, entry, vrte, vlapic, hcall>>

activate_ioapic_rte ==
    /\ vcpu = "unmask"
    /\ rte' = [rte EXCEPT !.mask = vrte.mask /\ @]
    /\ regenerate(vrte)
    /\ vcpu' = "guest"
    /\ UNCHANGED <<line, lapic, desc, handler, softirq, list, timer, entry, hcall>>

(* vlapic_process_eoi, and the first, unlocked, loop of                    *)
(* vioapic_process_eoi: is the pin to be acknowledged?                     *)
vlapic_process_eoi ==
    /\ vcpu = "guest"
    /\ vlapic.isr
    /\ vlapic' = [vlapic EXCEPT !.isr = FALSE]
    /\ vcpu' = IF vrte.remote_irr THEN "ack" ELSE "clear"
    /\ UNCHANGED <<line, hostVars, vrte, hcall>>

ptirq_intx_ack ==
    /\ vcpu = "ack"
    /\ vcpu' = IF entry = "active" THEN "low" ELSE "clear"
    /\ UNCHANGED <<line, hostVars, vrte, vlapic, hcall>>

ack_low ==
    /\ vcpu = "low"
    /\ vioapic_set_pinstate(FALSE)
    /\ vcpu' = "unmask_phys"
    /\ UNCHANGED <<line, hostVars, hcall>>

ioapic_gsi_unmask_irq ==
    /\ vcpu = "unmask_phys"
    /\ rte' = [rte EXCEPT !.mask = FALSE]
    /\ vcpu' = "clear"
    /\ UNCHANGED <<line, lapic, desc, handler, softirq, list, timer, entry, vrte, vlapic, hcall>>

(* Fault: the second loop does not look at the pin again.                  *)
process_eoi_no_regenerate ==
    /\ vcpu = "clear"
    /\ vrte' = [vrte EXCEPT !.remote_irr = FALSE]
    /\ vcpu' = "guest"
    /\ UNCHANGED <<line, hostVars, vlapic, hcall>>

(* The second, locked, loop of vioapic_process_eoi.                        *)
vioapic_process_eoi ==
    /\ vcpu = "clear"
    /\ IF vrte.remote_irr THEN regenerate([vrte EXCEPT !.remote_irr = FALSE])
                          ELSE UNCHANGED <<vrte, vlapic>>
    /\ vcpu' = "guest"
    /\ UNCHANGED <<line, hostVars, hcall>>

(* reset_vm: the virtual pins are masked, and their levels stay.           *)
reset_vioapics ==
    /\ vcpu = "guest"
    /\ vrte' = [vrte EXCEPT !.mask = TRUE, !.remote_irr = FALSE]
    /\ vlapic' = [irr |-> FALSE, isr |-> FALSE]
    /\ UNCHANGED <<line, hostVars, vcpu, hcall>>

-----------------------------------------------------------------------------
(* Adding and removing the mapping, under ptdev_lock.  free_irq takes the  *)
(* descriptor, the vector and the number back in three critical sections.  *)

(* Nothing is on its way: the last interrupt was handled to its end.       *)
quiet ==
    /\ ~lapic.irr /\ ~list /\ timer # "armed"
    /\ handler.at = "idle" /\ softirq.at = "idle"
    /\ vcpu = "guest" /\ ~vrte.remote_irr

add_intx_remapping ==
    /\ hcall = "idle"
    /\ entry = "none"
    /\ desc' = [action |-> TRUE, level |-> FALSE, vector |-> TRUE, num |-> TRUE]
    /\ entry' = "active"
    /\ UNCHANGED <<line, rte, lapic, handler, softirq, list, timer, guestVars, hcall>>

(* Fault: the pin is not masked before the mapping is taken down.          *)
remove_unmasked ==
    /\ hcall = "idle"
    /\ entry = "active"
    /\ Quiesced => quiet
    /\ hcall' = "masked"
    /\ UNCHANGED <<line, rte, lapic, desc, handler, softirq, list, timer, entry, guestVars>>

remove_intx_remapping ==
    /\ hcall = "idle"
    /\ entry = "active"
    /\ Quiesced => quiet
    /\ rte' = [rte EXCEPT !.mask = TRUE]
    /\ hcall' = "masked"
    /\ UNCHANGED <<line, lapic, desc, handler, softirq, list, timer, entry, guestVars>>

ptirq_deactivate_entry ==
    /\ hcall = "masked"
    /\ entry' = "inactive"
    /\ hcall' = "inactive"
    /\ UNCHANGED <<line, rte, lapic, desc, handler, softirq, list, timer, guestVars>>

free_irq ==
    /\ \/ /\ hcall = "inactive"
          /\ desc' = [desc EXCEPT !.action = FALSE, !.level = FALSE]
          /\ hcall' = "no_action"
       \/ /\ hcall = "no_action"
          /\ desc' = [desc EXCEPT !.vector = FALSE]
          /\ hcall' = "no_vector"
       \/ /\ hcall = "no_vector"
          /\ desc' = [desc EXCEPT !.num = FALSE]
          /\ hcall' = "no_num"
    /\ UNCHANGED <<line, rte, lapic, handler, softirq, list, timer, entry, guestVars>>

ptirq_release_entry ==
    /\ hcall = "no_num"
    /\ entry' = "none"
    /\ list' = FALSE
    /\ timer' = "unset"
    /\ hcall' = "idle"
    /\ UNCHANGED <<line, rte, lapic, desc, handler, softirq, guestVars>>

-----------------------------------------------------------------------------
pcpu ==
    \/ dispatch_interrupt \/ vector_matches \/ do_irq \/ pre_irq_arch
    \/ ptirq_interrupt_handler \/ enter_softirq \/ do_softirq
    \/ ptirq_dequeue_softirq \/ skip_inactive \/ ptirq_handle_intx
    \/ ptirq_intr_delay_callback
exits ==
    \/ set_irq_trigger_mode \/ activate_ioapic_rte \/ ptirq_intx_ack \/ ack_low
    \/ ioapic_gsi_unmask_irq \/ vioapic_process_eoi
removal == ptirq_deactivate_entry \/ free_irq \/ ptirq_release_entry

Next ==
    \/ device_asserts \/ ioapic_sends \/ pcpu \/ exits
    \/ guest_takes \/ guest_services \/ vlapic_process_eoi \/ reset_vioapics
    \/ \E masked \in BOOLEAN : vioapic_indirect_write(masked)
    \/ add_intx_remapping \/ remove_intx_remapping \/ removal

Spec == Init /\ [][Next]_vars

(* The pCPUs make progress with what they have begun, the IOAPIC sends     *)
(* what is asserted, and the guest handles its interrupts: it takes them,  *)
(* services the device and ends them.                                      *)
Fairness ==
    /\ WF_vars(pcpu) /\ WF_vars(exits) /\ WF_vars(removal) /\ WF_vars(ioapic_sends)
    /\ SF_vars(guest_takes) /\ SF_vars(guest_services) /\ SF_vars(vlapic_process_eoi)

FairSpec == Spec /\ Fairness

-----------------------------------------------------------------------------
in_flight ==
    \/ lapic.irr \/ handler.at # "idle" \/ softirq.at # "idle" \/ list \/ timer = "armed"
    \/ vcpu # "guest" \/ hcall # "idle"

(* The handler leaves the physical pin masked, and someone always owes it  *)
(* an unmask: when the guest's pin is open and nothing is in flight, a     *)
(* masked physical pin belongs to a virtual interrupt that the guest has   *)
(* yet to take or to end, whatever masks, resets, EOIs and removals came   *)
(* in between.                                                             *)
MaskedPinIsOwed ==
    entry = "active" /\ desc.level /\ ~vrte.mask /\ rte.mask /\ ~in_flight =>
        vrte.remote_irr /\ (vlapic.irr \/ vlapic.isr)

(* No softirq is left behind: when the pCPU is back in thread context, the *)
(* softirq is not pending and the entry is not queued, though the          *)
(* interrupts that queue it nest in the softirq itself.                    *)
NoSoftirqLeft ==
    handler.at = "idle" /\ softirq.at = "idle" => ~softirq.pending /\ ~list

(* Every interrupt the pCPU took got its EOI before the handler returned,  *)
(* also while the mapping is taken down.                                   *)
EoiIsSent == handler.at = "idle" => ~lapic.isr

(* No handler runs with the data of an irq that was freed, and no softirq  *)
(* with an entry that was released: once the pin is masked, the removal    *)
(* meets no new interrupt.                                                 *)
NoUseAfterFree == handler.at # "fault" /\ softirq.cur # "fault"

(* A device that asserts its line is served again and again, as long as    *)
(* the mapping is there, the guest keeps the pin open and does not rewrite *)
(* the redirection table entry for ever.                                   *)
DeviceIsServed ==
    []<>(~line \/ vrte.mask \/ entry # "active" \/ ~desc.level \/ vcpu = "remap")

=============================================================================
