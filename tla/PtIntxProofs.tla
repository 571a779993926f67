----------------------------- MODULE PtIntxProofs -----------------------------
(***************************************************************************)
(* Proofs about PtIntx: no softirq is ever left behind, and a mapping that *)
(* is removed from a quiet device is removed without a stray interrupt.    *)
(***************************************************************************)
EXTENDS PtIntx, TLAPS

(* The types of the structured variables.                                  *)
Rte == [mask : BOOLEAN, sent : BOOLEAN]
Vector == [irr : BOOLEAN, isr : BOOLEAN]
Desc == [action : BOOLEAN, level : BOOLEAN, vector : BOOLEAN, num : BOOLEAN]
Handler == [at : {"idle", "bound", "matched", "found", "masked", "exit", "fault"},
            action : BOOLEAN, level : BOOLEAN]
Softirq == [pending : BOOLEAN, at : {"idle", "on", "last", "off"},
            cur : {"none", "dequeue", "taken", "checked", "fault"}]
Vrte == [mask : BOOLEAN, remote_irr : BOOLEAN, pin : BOOLEAN]

Type ==
    /\ line \in BOOLEAN /\ list \in BOOLEAN
    /\ rte \in Rte /\ lapic \in Vector /\ desc \in Desc
    /\ handler \in Handler /\ softirq \in Softirq
    /\ timer \in {"unset", "armed", "expired"}
    /\ entry \in {"none", "inactive", "active"}
    /\ vrte \in Vrte /\ vlapic \in Vector
    /\ vcpu \in {"guest", "remap", "unmask", "ack", "low", "unmask_phys", "clear"}
    /\ hcall \in {"idle", "masked", "inactive", "no_action", "no_vector", "no_num"}

(* The variables start with values of their types (Init).                  *)
LEMMA TypeInit == Init => Type
<1>1. [mask |-> TRUE, sent |-> FALSE] \in Rte
    BY DEF Rte
<1>2. [irr |-> FALSE, isr |-> FALSE] \in Vector
    BY DEF Vector
<1>3. [action |-> FALSE, level |-> FALSE, vector |-> FALSE, num |-> FALSE] \in Desc
    BY DEF Desc
<1>4. [at |-> "idle", action |-> FALSE, level |-> FALSE] \in Handler
    BY DEF Handler
<1>5. [pending |-> FALSE, at |-> "idle", cur |-> "none"] \in Softirq
    BY DEF Softirq
<1>6. [mask |-> TRUE, remote_irr |-> FALSE, pin |-> FALSE] \in Vrte
    BY DEF Vrte
<1> QED BY <1>1, <1>2, <1>3, <1>4, <1>5, <1>6 DEF Init, Type

(* Every step of the pCPU, the vCPU, the hypercall and the device keeps    *)
(* the types.                                                              *)
LEMMA TypeStep == Type /\ [Next]_vars => Type'
<1> SUFFICES ASSUME Type, [Next]_vars PROVE Type'
    OBVIOUS
<1>1. CASE device_asserts
    <2>1. line' \in BOOLEAN
        BY <1>1 DEF device_asserts, Type
    <2> QED BY <1>1, <2>1 DEF device_asserts, Type, hostVars, guestVars
<1>2. CASE ioapic_sends
    <2>1. rte' \in Rte
        BY <1>2 DEF ioapic_sends, Type, Rte
    <2>2. lapic' \in Vector
        BY <1>2 DEF ioapic_sends, Type, Vector
    <2> QED BY <1>2, <2>1, <2>2 DEF ioapic_sends, Type, hostVars, guestVars
<1>3. CASE dispatch_interrupt
    <2>1. rte' \in Rte
        BY <1>3 DEF dispatch_interrupt, Type, Rte
    <2>2. lapic' \in Vector
        <3>1. lapic' = [irr |-> FALSE, isr |-> TRUE] \/ lapic' = [irr |-> FALSE, isr |-> FALSE]
            BY <1>3 DEF dispatch_interrupt
        <3>2. [irr |-> FALSE, isr |-> TRUE] \in Vector
            BY DEF Vector
        <3>3. [irr |-> FALSE, isr |-> FALSE] \in Vector
            BY DEF Vector
        <3> QED BY <3>1, <3>2, <3>3
    <2>3. handler' \in Handler
        BY <1>3 DEF dispatch_interrupt, Type, Handler
    <2> QED BY <1>3, <2>1, <2>2, <2>3 DEF dispatch_interrupt, Type, hostVars, guestVars
<1>4. CASE vector_matches
    <2>1. handler' \in Handler
        BY <1>4 DEF vector_matches, Type, Handler
    <2> QED BY <1>4, <2>1 DEF vector_matches, Type, hostVars, guestVars
<1>5. CASE do_irq
    <2>1. handler' \in Handler
        <3>1. CASE desc.num
            BY <1>5, <3>1 DEF do_irq, Type, Handler, Desc
        <3>2. CASE ~desc.num
            BY <1>5, <3>2 DEF do_irq, Type, Handler
        <3> QED BY <3>1, <3>2
    <2> QED BY <1>5, <2>1 DEF do_irq, Type, hostVars, guestVars
<1>6. CASE pre_irq_arch
    <2>1. rte' \in Rte
        BY <1>6 DEF pre_irq_arch, Type, Rte
    <2>2. lapic' \in Vector
        BY <1>6 DEF pre_irq_arch, Type, Vector
    <2>3. handler' \in Handler
        BY <1>6 DEF pre_irq_arch, Type, Handler
    <2> QED BY <1>6, <2>1, <2>2, <2>3 DEF pre_irq_arch, Type, hostVars, guestVars
<1>7. CASE ptirq_interrupt_handler
    <2>1. handler' \in Handler
        BY <1>7 DEF ptirq_interrupt_handler, Type, Handler
    <2>2. list' \in BOOLEAN
        BY <1>7 DEF ptirq_interrupt_handler, Type, Handler, Desc
    <2>3. softirq' \in Softirq
        BY <1>7 DEF ptirq_interrupt_handler, Type, Softirq, Handler, Desc
    <2> QED BY <1>7, <2>1, <2>2, <2>3 DEF ptirq_interrupt_handler, Type, hostVars, guestVars
<1>8. CASE enter_softirq
    <2>1. handler' \in Handler
        BY <1>8 DEF enter_softirq, Type, Handler
    <2>2. softirq' \in Softirq
        BY <1>8 DEF enter_softirq, Type, Softirq
    <2> QED BY <1>8, <2>1, <2>2 DEF enter_softirq, Type, hostVars, guestVars
<1>9. CASE do_softirq
    <2>1. softirq' \in Softirq
        <3>1. next_part(softirq.at) \in {"last", "off", "idle"}
            BY <1>9 DEF do_softirq, next_part, Type, Softirq
        <3> QED BY <1>9, <3>1 DEF do_softirq, Type, Softirq
    <2> QED BY <1>9, <2>1 DEF do_softirq, Type, hostVars, guestVars
<1>10. CASE ptirq_dequeue_softirq
    <2>1. list' \in BOOLEAN
        BY <1>10 DEF ptirq_dequeue_softirq, Type
    <2>2. softirq' \in Softirq
        BY <1>10 DEF ptirq_dequeue_softirq, Type, Softirq
    <2> QED BY <1>10, <2>1, <2>2 DEF ptirq_dequeue_softirq, Type, hostVars, guestVars
<1>11. CASE skip_inactive
    <2>1. softirq' \in Softirq
        BY <1>11 DEF skip_inactive, Type, Softirq
    <2> QED BY <1>11, <2>1 DEF skip_inactive, Type, hostVars, guestVars
<1>12. CASE ptirq_handle_intx
    <2>1. softirq' \in Softirq
        BY <1>12 DEF ptirq_handle_intx, vioapic_set_pinstate, vioapic_generate_intr, sends, Type, Softirq
    <2>2. vrte' \in Vrte
        BY <1>12 DEF ptirq_handle_intx, vioapic_set_pinstate, vioapic_generate_intr, sends, Type, Vrte
    <2>3. vlapic' \in Vector
        BY <1>12 DEF ptirq_handle_intx, vioapic_set_pinstate, vioapic_generate_intr, sends, Type, Vector
    <2> QED BY <1>12, <2>1, <2>2, <2>3 DEF ptirq_handle_intx, Type, hostVars, guestVars
<1>13. CASE ptirq_intr_delay_callback
    <2>1. list' \in BOOLEAN
        BY <1>13 DEF ptirq_intr_delay_callback, Type
    <2>2. softirq' \in Softirq
        BY <1>13 DEF ptirq_intr_delay_callback, Type, Softirq
    <2> QED BY <1>13, <2>1, <2>2 DEF ptirq_intr_delay_callback, Type, hostVars, guestVars
<1>14. CASE set_irq_trigger_mode
    <2>1. desc' \in Desc
        BY <1>14 DEF set_irq_trigger_mode, Type, Desc
    <2>2. rte' \in Rte
        BY <1>14 DEF set_irq_trigger_mode, Type, Rte
    <2> QED BY <1>14, <2>1, <2>2 DEF set_irq_trigger_mode, Type, hostVars, guestVars
<1>15. CASE activate_ioapic_rte
    <2>1. rte' \in Rte
        BY <1>15 DEF activate_ioapic_rte, regenerate, vioapic_generate_intr, sends, Type, Rte
    <2>2. vrte' \in Vrte
        BY <1>15 DEF activate_ioapic_rte, regenerate, vioapic_generate_intr, sends, Type, Vrte
    <2>3. vlapic' \in Vector
        BY <1>15 DEF activate_ioapic_rte, regenerate, vioapic_generate_intr, sends, Type, Vector
    <2> QED BY <1>15, <2>1, <2>2, <2>3 DEF activate_ioapic_rte, Type, hostVars, guestVars
<1>16. CASE ptirq_intx_ack
    BY <1>16 DEF ptirq_intx_ack, Type, hostVars, guestVars
<1>17. CASE ack_low
    <2>1. vrte' \in Vrte
        BY <1>17 DEF ack_low, vioapic_set_pinstate, vioapic_generate_intr, sends, Type, Vrte
    <2>2. vlapic' \in Vector
        BY <1>17 DEF ack_low, vioapic_set_pinstate, vioapic_generate_intr, sends, Type, Vector
    <2> QED BY <1>17, <2>1, <2>2 DEF ack_low, Type, hostVars, guestVars
<1>18. CASE ioapic_gsi_unmask_irq
    <2>1. rte' \in Rte
        BY <1>18 DEF ioapic_gsi_unmask_irq, Type, Rte
    <2> QED BY <1>18, <2>1 DEF ioapic_gsi_unmask_irq, Type, hostVars, guestVars
<1>19. CASE vioapic_process_eoi
    <2>1. vrte' \in Vrte
        BY <1>19 DEF vioapic_process_eoi, regenerate, vioapic_generate_intr, sends, Type, Vrte
    <2>2. vlapic' \in Vector
        BY <1>19 DEF vioapic_process_eoi, regenerate, vioapic_generate_intr, sends, Type, Vector
    <2> QED BY <1>19, <2>1, <2>2 DEF vioapic_process_eoi, Type, hostVars, guestVars
<1>20. CASE guest_takes
    <2>1. vlapic' \in Vector
        BY <1>20 DEF guest_takes, Type, Vector
    <2> QED BY <1>20, <2>1 DEF guest_takes, Type, hostVars, guestVars
<1>21. CASE guest_services
    <2>1. line' \in BOOLEAN
        BY <1>21 DEF guest_services, Type
    <2> QED BY <1>21, <2>1 DEF guest_services, Type, hostVars, guestVars
<1>22. CASE vlapic_process_eoi
    <2>1. vlapic' \in Vector
        BY <1>22 DEF vlapic_process_eoi, Type, Vector
    <2> QED BY <1>22, <2>1 DEF vlapic_process_eoi, Type, hostVars, guestVars
<1>23. CASE reset_vioapics
    <2>1. vrte' \in Vrte
        BY <1>23 DEF reset_vioapics, Type, Vrte
    <2>2. vlapic' \in Vector
        BY <1>23 DEF reset_vioapics, Type, Vector
    <2> QED BY <1>23, <2>1, <2>2 DEF reset_vioapics, Type, hostVars, guestVars
<1>24. CASE add_intx_remapping
    <2>1. desc' \in Desc
        BY <1>24 DEF add_intx_remapping, Type, Desc
    <2> QED BY <1>24, <2>1 DEF add_intx_remapping, Type, hostVars, guestVars
<1>25. CASE remove_intx_remapping
    <2>1. rte' \in Rte
        BY <1>25 DEF remove_intx_remapping, Type, Rte
    <2> QED BY <1>25, <2>1 DEF remove_intx_remapping, Type, hostVars, guestVars
<1>26. CASE ptirq_deactivate_entry
    BY <1>26 DEF ptirq_deactivate_entry, Type, hostVars, guestVars
<1>27. CASE free_irq
    <2>1. desc' \in Desc
        BY <1>27 DEF free_irq, Type, Desc
    <2> QED BY <1>27, <2>1 DEF free_irq, Type, hostVars, guestVars
<1>28. CASE ptirq_release_entry
    <2>1. list' \in BOOLEAN
        BY <1>28 DEF ptirq_release_entry, Type
    <2> QED BY <1>28, <2>1 DEF ptirq_release_entry, Type, hostVars, guestVars
<1>29. CASE \E masked \in BOOLEAN : vioapic_indirect_write(masked)
    <2> PICK masked \in BOOLEAN : vioapic_indirect_write(masked)
        BY <1>29
    <2> DEFINE v == [vrte EXCEPT !.mask = masked]
    <2>0. v \in Vrte
        BY DEF Type, Vrte
    <2>1. rte' \in Rte
        BY DEF vioapic_indirect_write, Type, Rte
    <2>2. vrte' \in Vrte /\ vlapic' \in Vector
        <3> HIDE DEF v
        <3>1. (vrte' = v /\ vlapic' = vlapic) \/ regenerate(v)
            BY DEF vioapic_indirect_write, v
        <3> QED BY <2>0, <3>1 DEF regenerate, vioapic_generate_intr, sends, Type, Vrte, Vector
    <2> QED BY <2>1, <2>2 DEF vioapic_indirect_write, Type, hostVars, guestVars
<1>30. CASE UNCHANGED vars
    BY <1>30 DEF vars, hostVars, guestVars, Type
<1> QED BY <1>1, <1>2, <1>3, <1>4, <1>5, <1>6, <1>7, <1>8, <1>9, <1>10, <1>11,
           <1>12, <1>13, <1>14, <1>15, <1>16, <1>17, <1>18, <1>19,
           <1>20, <1>21, <1>22, <1>23, <1>24, <1>25, <1>26, <1>27,
           <1>28, <1>29, <1>30
       DEF Next, pcpu, exits, removal

-----------------------------------------------------------------------------
(* The softirq is being worked on, or about to be, whenever it is pending; *)
(* and the entry is queued only while the softirq is pending or its list   *)
(* is being emptied.                                                       *)
SoftirqInv ==
    /\ softirq.pending => softirq.at # "idle" \/ handler.at = "exit"
    /\ list => softirq.pending \/ softirq.cur # "none"
    /\ softirq.cur # "none" => softirq.at # "idle"
    /\ softirq.at = "idle" => softirq.cur = "none"

(* Every step preserves it: the handler raises the softirq before it calls *)
(* do_softirq, and the last pass runs with interrupts disabled.            *)
LEMMA SoftirqStep == Type /\ SoftirqInv /\ [Next]_vars => SoftirqInv'
<1> SUFFICES ASSUME Type, SoftirqInv, [Next]_vars PROVE SoftirqInv'
    OBVIOUS
<1>0. softirq \in Softirq /\ handler \in Handler
    BY DEF Type
<1> USE <1>0 DEF SoftirqInv, Softirq, Handler
<1>1. CASE UNCHANGED <<softirq, list>> /\ (handler.at = "exit" => handler'.at = "exit")
    BY <1>1
<1>2. CASE ptirq_interrupt_handler
    BY <1>2 DEF ptirq_interrupt_handler
<1>3. CASE enter_softirq
    BY <1>3 DEF enter_softirq
<1>4. CASE do_softirq
    BY <1>4 DEF do_softirq, next_part
<1>5. CASE ptirq_dequeue_softirq
    BY <1>5 DEF ptirq_dequeue_softirq
<1>6. CASE skip_inactive
    BY <1>6 DEF skip_inactive
<1>7. CASE ptirq_handle_intx
    BY <1>7 DEF ptirq_handle_intx
<1>8. CASE ptirq_intr_delay_callback
    BY <1>8 DEF ptirq_intr_delay_callback
<1>9. CASE ptirq_release_entry
    BY <1>9 DEF ptirq_release_entry
<1>10. CASE device_asserts \/ ioapic_sends
    BY <1>10, <1>1 DEF device_asserts, ioapic_sends, hostVars, guestVars
<1>11. CASE dispatch_interrupt \/ vector_matches \/ do_irq \/ pre_irq_arch
    BY <1>11, <1>1 DEF dispatch_interrupt, vector_matches, do_irq, pre_irq_arch, hostVars, guestVars
<1>12. CASE set_irq_trigger_mode \/ activate_ioapic_rte \/ ptirq_intx_ack \/
            ack_low \/ ioapic_gsi_unmask_irq \/
            vioapic_process_eoi
    BY <1>12, <1>1 DEF set_irq_trigger_mode, activate_ioapic_rte, ptirq_intx_ack,
             ack_low, ioapic_gsi_unmask_irq,
             vioapic_process_eoi, hostVars, guestVars
<1>13. CASE guest_takes \/ guest_services \/ vlapic_process_eoi \/
            reset_vioapics
    BY <1>13, <1>1 DEF guest_takes, guest_services, vlapic_process_eoi,
             reset_vioapics, hostVars, guestVars
<1>14. CASE add_intx_remapping \/ remove_intx_remapping \/
            ptirq_deactivate_entry \/ free_irq
    BY <1>14, <1>1 DEF add_intx_remapping, remove_intx_remapping,
             ptirq_deactivate_entry, free_irq, hostVars, guestVars
<1>15. CASE \E masked \in BOOLEAN : vioapic_indirect_write(masked)
    BY <1>15, <1>1 DEF vioapic_indirect_write
<1>16. CASE UNCHANGED vars
    BY <1>16, <1>1 DEF vars, hostVars
<1> QED BY <1>2, <1>3, <1>4, <1>5, <1>6, <1>7, <1>8, <1>9, <1>10, <1>11, <1>12,
           <1>13, <1>14, <1>15, <1>16
       DEF Next, pcpu, exits, removal

(* No softirq is left behind (do_softirq), though the interrupts that      *)
(* raise it nest in the softirq itself and removals edit its list.         *)
THEOREM SoftirqDrained == Spec => []NoSoftirqLeft
<1>1. Init => Type /\ SoftirqInv
    BY TypeInit DEF Init, SoftirqInv
<1>2. Type /\ SoftirqInv /\ [Next]_vars => (Type /\ SoftirqInv)'
    BY TypeStep, SoftirqStep
<1>3. Type /\ SoftirqInv => NoSoftirqLeft
    BY DEF SoftirqInv, NoSoftirqLeft
<1> QED BY <1>1, <1>2, <1>3, PTL DEF Spec

-----------------------------------------------------------------------------
(* While a mapping is removed, and as long as there is none, the physical  *)
(* pin is masked and nothing of an interrupt is left on the way to the     *)
(* guest, and no vCPU is on its way to unmask the pin.                     *)
NothingOnTheWay ==
    /\ rte.mask /\ ~lapic.irr /\ ~list /\ timer # "armed"
    /\ handler.at = "idle" /\ softirq.at = "idle"
    /\ vcpu \in {"guest", "ack", "clear"}

RemovalInv ==
    /\ hcall # "idle" \/ entry # "active" => NothingOnTheWay
    /\ hcall # "idle" => ~vrte.remote_irr /\ vcpu \in {"guest", "clear"}
    /\ hcall = "masked" => entry = "active"
    /\ hcall = "idle" => entry # "inactive"
    /\ hcall = "idle" /\ entry = "active" => desc.action /\ desc.vector /\ desc.num
    /\ lapic.isr => handler.at \in {"bound", "matched", "found"}
    /\ NoUseAfterFree

(* Every step preserves it when the device is quiet at the start of a      *)
(* removal: the pin is masked first, and no exit can unmask it.            *)
LEMMA RemovalStep ==
    ASSUME Quiesced PROVE Type /\ SoftirqInv /\ RemovalInv /\ [Next]_vars => RemovalInv'
<1> SUFFICES ASSUME Type, SoftirqInv, RemovalInv, [Next]_vars PROVE RemovalInv'
    OBVIOUS
<1> USE DEF RemovalInv, NothingOnTheWay, NoUseAfterFree, Type
<1>1. CASE device_asserts
    BY <1>1 DEF device_asserts, hostVars, guestVars
<1>2. CASE ioapic_sends
    BY <1>2 DEF ioapic_sends, Rte, Vector, hostVars, guestVars
<1>3. CASE dispatch_interrupt
    BY <1>3 DEF dispatch_interrupt, Desc, Handler, Rte, Vector, hostVars, guestVars
<1>4. CASE vector_matches
    BY <1>4 DEF vector_matches, Desc, Handler, hostVars, guestVars
<1>5. CASE do_irq
    BY <1>5 DEF do_irq, Desc, Handler, hostVars, guestVars
<1>6. CASE pre_irq_arch
    BY <1>6 DEF pre_irq_arch, Handler, Rte, Vector, hostVars, guestVars
<1>7. CASE ptirq_interrupt_handler
    BY <1>7 DEF ptirq_interrupt_handler, Desc, Handler, Softirq, hostVars, guestVars
<1>8. CASE enter_softirq
    BY <1>8 DEF enter_softirq, Handler, Softirq, hostVars, guestVars
<1>9. CASE do_softirq
    BY <1>9 DEF do_softirq, next_part, Softirq, hostVars, guestVars, SoftirqInv
<1>10. CASE ptirq_dequeue_softirq
    BY <1>10 DEF ptirq_dequeue_softirq, Softirq, hostVars, guestVars, SoftirqInv
<1>11. CASE skip_inactive
    BY <1>11 DEF skip_inactive, Softirq, hostVars, guestVars, SoftirqInv
<1>12. CASE ptirq_handle_intx
    BY <1>12 DEF ptirq_handle_intx, vioapic_set_pinstate, vioapic_generate_intr, sends, Softirq, Vrte, hostVars, guestVars, SoftirqInv
<1>13. CASE ptirq_intr_delay_callback
    BY <1>13 DEF ptirq_intr_delay_callback, Softirq, hostVars, guestVars
<1>14. CASE set_irq_trigger_mode
    BY <1>14 DEF set_irq_trigger_mode, Desc, Rte, hostVars, guestVars
<1>15. CASE activate_ioapic_rte
    BY <1>15 DEF activate_ioapic_rte, regenerate, vioapic_generate_intr, sends, Rte, Vrte, hostVars, guestVars
<1>16. CASE ptirq_intx_ack
    BY <1>16 DEF ptirq_intx_ack, hostVars, guestVars
<1>17. CASE ack_low
    BY <1>17 DEF ack_low, vioapic_set_pinstate, vioapic_generate_intr, sends, Vrte, hostVars, guestVars
<1>18. CASE ioapic_gsi_unmask_irq
    BY <1>18 DEF ioapic_gsi_unmask_irq, Rte, hostVars, guestVars
<1>19. CASE vioapic_process_eoi
    BY <1>19 DEF vioapic_process_eoi, regenerate, vioapic_generate_intr, sends, Vrte, hostVars, guestVars
<1>20. CASE guest_takes
    BY <1>20 DEF guest_takes, hostVars, guestVars
<1>21. CASE guest_services
    BY <1>21 DEF guest_services, hostVars, guestVars
<1>22. CASE vlapic_process_eoi
    BY <1>22 DEF vlapic_process_eoi, hostVars, guestVars
<1>23. CASE reset_vioapics
    BY <1>23 DEF reset_vioapics, Vrte, hostVars, guestVars
<1>24. CASE add_intx_remapping
    BY <1>24 DEF add_intx_remapping, Desc, hostVars, guestVars
<1>25. CASE remove_intx_remapping
    BY <1>25 DEF remove_intx_remapping, Rte, hostVars, guestVars, quiet, SoftirqInv
<1>26. CASE ptirq_deactivate_entry
    BY <1>26 DEF ptirq_deactivate_entry, hostVars, guestVars
<1>27. CASE free_irq
    BY <1>27 DEF free_irq, Desc, hostVars, guestVars
<1>28. CASE ptirq_release_entry
    BY <1>28 DEF ptirq_release_entry, hostVars, guestVars
<1>29. CASE \E masked \in BOOLEAN : vioapic_indirect_write(masked)
    BY <1>29 DEF vioapic_indirect_write, regenerate, vioapic_generate_intr, sends, Rte, Vrte
<1>30. CASE UNCHANGED vars
    BY <1>30 DEF vars, hostVars, guestVars
<1> QED BY <1>1, <1>2, <1>3, <1>4, <1>5, <1>6, <1>7, <1>8, <1>9, <1>10, <1>11,
           <1>12, <1>13, <1>14, <1>15, <1>16, <1>17, <1>18, <1>19,
           <1>20, <1>21, <1>22, <1>23, <1>24, <1>25, <1>26, <1>27,
           <1>28, <1>29, <1>30
       DEF Next, pcpu, exits, removal

(* A mapping that is removed from a quiet device (remove_intx_remapping)   *)
(* meets no stray interrupt: no handler runs with the data of a freed irq  *)
(* and no softirq with a released entry, and every interrupt taken gets    *)
(* its EOI.                                                                *)
THEOREM QuietRemoval == ASSUME Quiesced PROVE Spec => [](NoUseAfterFree /\ EoiIsSent)
<1>1. Init => Type /\ SoftirqInv /\ RemovalInv
    BY TypeInit DEF Init, SoftirqInv, RemovalInv, NothingOnTheWay, NoUseAfterFree
<1>2. Type /\ SoftirqInv /\ RemovalInv /\ [Next]_vars => (Type /\ SoftirqInv /\ RemovalInv)'
    BY TypeStep, SoftirqStep, RemovalStep
<1>3. RemovalInv => NoUseAfterFree /\ EoiIsSent
    BY DEF RemovalInv, EoiIsSent
<1> QED BY <1>1, <1>2, <1>3, PTL DEF Spec

(* Every interrupt the pCPU took gets its EOI before dispatch_interrupt    *)
(* returns, also while a quiet device's mapping is taken down: no handler  *)
(* finds the vector or the irq number gone in between.                     *)
THEOREM EoiAlways == ASSUME Quiesced PROVE Spec => []EoiIsSent
BY QuietRemoval, PTL

-----------------------------------------------------------------------------
(* A physical interrupt between the pin and the virtual pin: sent, being   *)
(* handled, queued, held back by the delay timer, or about to be injected. *)
interrupt_under_way ==
    \/ lapic.irr \/ handler.at \in {"bound", "matched", "found", "masked"}
    \/ list \/ softirq.cur \in {"taken", "checked"} \/ timer = "armed"

(* An open virtual pin that is high has sent its interrupt; an interrupt   *)
(* that was sent and not acknowledged is at the guest; and a masked        *)
(* physical pin is owed an unmask by an interrupt under way, by the step   *)
(* of the VM exit the vCPU is in, or by the guest's EOI.                   *)
OwedInv ==
    /\ vrte.pin /\ ~vrte.mask /\ ~vioapic_locked => vrte.remote_irr
    /\ vrte.remote_irr /\ vcpu \in {"guest", "remap", "unmask"} => vlapic.irr \/ vlapic.isr
    /\ handler.at \in {"found", "masked"} => handler.action
    /\ entry = "active" /\ hcall = "idle" /\ desc.level /\ ~vrte.mask /\ rte.mask =>
           \/ interrupt_under_way
           \/ vcpu \in {"remap", "unmask", "ack", "low", "unmask_phys"}
           \/ vcpu = "clear" /\ vrte.pin
           \/ vcpu = "guest" /\ vrte.remote_irr

(* Every step hands the debt on or pays it.                                *)
LEMMA OwedStep == Type /\ RemovalInv /\ OwedInv /\ [Next]_vars => OwedInv'
<1> SUFFICES ASSUME Type, RemovalInv, OwedInv, [Next]_vars PROVE OwedInv'
    OBVIOUS
<1> USE DEF OwedInv, interrupt_under_way, vioapic_locked, RemovalInv, NothingOnTheWay, Type
<1>1. CASE device_asserts
    BY <1>1 DEF device_asserts, hostVars, guestVars
<1>2. CASE ioapic_sends
    BY <1>2 DEF ioapic_sends, Rte, Vector, guestVars
<1>3. CASE dispatch_interrupt
    BY <1>3 DEF dispatch_interrupt, Desc, Handler, Rte, Vector, guestVars
<1>4. CASE vector_matches
    BY <1>4 DEF vector_matches, Desc, Handler, guestVars
<1>5. CASE do_irq
    BY <1>5 DEF do_irq, Desc, Handler, guestVars
<1>6. CASE pre_irq_arch
    BY <1>6 DEF pre_irq_arch, Handler, Rte, Vector, guestVars
<1>7. CASE ptirq_interrupt_handler
    BY <1>7 DEF ptirq_interrupt_handler, Desc, Handler, Softirq, guestVars
<1>8. CASE enter_softirq
    BY <1>8 DEF enter_softirq, Handler, Softirq, guestVars
<1>9. CASE do_softirq
    BY <1>9 DEF do_softirq, next_part, Softirq, guestVars
<1>10. CASE ptirq_dequeue_softirq
    BY <1>10 DEF ptirq_dequeue_softirq, Softirq, guestVars
<1>11. CASE skip_inactive
    BY <1>11 DEF skip_inactive, Softirq, guestVars
<1>12. CASE ptirq_handle_intx
    <2>1. UNCHANGED <<rte, lapic, desc, handler, list, timer, entry, vcpu, hcall>> /\ ~vioapic_locked
        BY <1>12 DEF ptirq_handle_intx
    <2>2. CASE entry = "none"
        <3>1. UNCHANGED <<vrte, vlapic>>
            BY <1>12, <2>2 DEF ptirq_handle_intx
        <3> QED BY <2>1, <2>2, <3>1
    <2>3. CASE entry # "none"
        <3>1. vioapic_set_pinstate(TRUE)
            BY <1>12, <2>3 DEF ptirq_handle_intx
        <3>2. vrte'.mask = vrte.mask /\ vrte'.pin
            BY <3>1 DEF vioapic_set_pinstate, vioapic_generate_intr, Vrte
        <3>3. vrte'.remote_irr = (vrte.remote_irr \/ (~vrte.pin /\ ~vrte.mask))
            BY <3>1 DEF vioapic_set_pinstate, vioapic_generate_intr, sends, Vrte
        <3>4. /\ vlapic'.isr = vlapic.isr
              /\ vlapic'.irr = (vlapic.irr \/ (~vrte.pin /\ ~vrte.mask /\ ~vrte.remote_irr))
            BY <3>1 DEF vioapic_set_pinstate, vioapic_generate_intr, sends, Vrte, Vector
        <3>5. vrte'.mask \/ vrte'.remote_irr
            BY <2>1, <3>2, <3>3 DEF Vrte
        <3> QED BY <2>1, <3>2, <3>3, <3>4, <3>5 DEF Vrte
    <2> QED BY <2>2, <2>3
<1>13. CASE ptirq_intr_delay_callback
    BY <1>13 DEF ptirq_intr_delay_callback, Softirq, guestVars
<1>14. CASE set_irq_trigger_mode
    BY <1>14 DEF set_irq_trigger_mode, Desc, Rte
<1>15. CASE activate_ioapic_rte
    BY <1>15 DEF activate_ioapic_rte, regenerate, vioapic_generate_intr, sends, Rte, Vrte, Vector
<1>16. CASE ptirq_intx_ack
    BY <1>16 DEF ptirq_intx_ack, hostVars
<1>17. CASE ack_low
    BY <1>17 DEF ack_low, vioapic_set_pinstate, vioapic_generate_intr, sends, Vrte, Vector, hostVars
<1>18. CASE ioapic_gsi_unmask_irq
    BY <1>18 DEF ioapic_gsi_unmask_irq, Rte
<1>19. CASE vioapic_process_eoi
    BY <1>19 DEF vioapic_process_eoi, regenerate, vioapic_generate_intr, sends, Vrte, Vector, hostVars
<1>20. CASE guest_takes
    BY <1>20 DEF guest_takes, Vector, hostVars
<1>21. CASE guest_services
    BY <1>21 DEF guest_services, hostVars, guestVars
<1>22. CASE vlapic_process_eoi
    BY <1>22 DEF vlapic_process_eoi, Vector, hostVars
<1>23. CASE reset_vioapics
    BY <1>23 DEF reset_vioapics, Vrte, Vector, hostVars
<1>24. CASE add_intx_remapping
    BY <1>24 DEF add_intx_remapping, Desc, guestVars
<1>25. CASE remove_intx_remapping
    BY <1>25 DEF remove_intx_remapping, Rte, guestVars
<1>26. CASE ptirq_deactivate_entry
    BY <1>26 DEF ptirq_deactivate_entry, guestVars
<1>27. CASE free_irq
    BY <1>27 DEF free_irq, Desc, guestVars
<1>28. CASE ptirq_release_entry
    BY <1>28 DEF ptirq_release_entry, guestVars
<1>29. CASE \E masked \in BOOLEAN : vioapic_indirect_write(masked)
    <2> PICK masked \in BOOLEAN : vioapic_indirect_write(masked)
        BY <1>29
    <2> DEFINE v == [vrte EXCEPT !.mask = masked]
    <2>1. /\ UNCHANGED <<lapic, desc, handler, softirq, list, timer, entry, hcall>>
          /\ vcpu = "guest" /\ hcall = "idle"
        BY DEF vioapic_indirect_write
    <2>2. /\ v.mask = masked /\ v.pin = vrte.pin /\ v.remote_irr = vrte.remote_irr
          /\ v.pin \in BOOLEAN /\ v.remote_irr \in BOOLEAN /\ v \in Vrte
        BY DEF Vrte
    <2>3. CASE entry = "active" /\ ~(masked /\ vrte.mask)
        <3>1. vrte' = v /\ vcpu' = "remap" /\ UNCHANGED vlapic
            BY <2>3 DEF vioapic_indirect_write
        <3> HIDE DEF v
        <3> QED BY <2>1, <2>2, <3>1
    <2>4. CASE ~(entry = "active" /\ ~(masked /\ vrte.mask))
        <3>1. regenerate(v) /\ UNCHANGED <<rte, vcpu>>
            BY <2>4 DEF vioapic_indirect_write
        <3> HIDE DEF v
        <3>2. /\ vrte'.mask = masked /\ vrte'.pin = v.pin
              /\ vrte'.remote_irr = (v.remote_irr \/ (v.pin /\ ~masked))
            BY <2>2, <3>1 DEF regenerate, vioapic_generate_intr, sends, Vrte
        <3>3. /\ vlapic'.isr = vlapic.isr
              /\ vlapic'.irr = (vlapic.irr \/ (v.pin /\ ~masked /\ ~v.remote_irr))
            BY <2>2, <3>1 DEF regenerate, vioapic_generate_intr, sends, Vector
        <3> QED BY <2>1, <2>2, <2>4, <3>1, <3>2, <3>3
    <2> QED BY <2>3, <2>4
<1>30. CASE UNCHANGED vars
    BY <1>30 DEF vars, hostVars, guestVars
<1> QED BY <1>1, <1>2, <1>3, <1>4, <1>5, <1>6, <1>7, <1>8, <1>9, <1>10, <1>11,
           <1>12, <1>13, <1>14, <1>15, <1>16, <1>17, <1>18, <1>19,
           <1>20, <1>21, <1>22, <1>23, <1>24, <1>25, <1>26, <1>27,
           <1>28, <1>29, <1>30
       DEF Next, pcpu, exits, removal

(* A physical pin that the handler masked (pre_irq_arch) is owed an unmask *)
(* by a virtual interrupt the guest has yet to take or to end, when        *)
(* nothing is in flight, the guest's pin is open and mappings are removed  *)
(* from quiet devices only.                                                *)
THEOREM PinIsOwed == ASSUME Quiesced PROVE Spec => []MaskedPinIsOwed
<1>1. Init => Type /\ SoftirqInv /\ RemovalInv /\ OwedInv
    BY TypeInit DEF Init, SoftirqInv, RemovalInv, NothingOnTheWay, NoUseAfterFree,
                    OwedInv, vioapic_locked
<1>2. Type /\ SoftirqInv /\ RemovalInv /\ OwedInv /\ [Next]_vars
          => (Type /\ SoftirqInv /\ RemovalInv /\ OwedInv)'
    BY TypeStep, SoftirqStep, RemovalStep, OwedStep
<1>3. Type /\ SoftirqInv /\ OwedInv => MaskedPinIsOwed
    BY DEF SoftirqInv, OwedInv, interrupt_under_way, MaskedPinIsOwed, in_flight
<1> QED BY <1>1, <1>2, <1>3, PTL DEF Spec

=============================================================================
