------------------------------ MODULE VcpuRun ------------------------------
(***************************************************************************)
(* The life of a vCPU thread: vcpu_thread (common/hv_main.c) with the      *)
(* pending requests it serves (guest/virq.c), the halt handler and its     *)
(* wait_event (guest/vmexit.c, common/event.c), and the contexts on other  *)
(* pCPUs that inject interrupts into it (guest/virq.c, guest/vclint.c) or  *)
(* pause, reset and restart it (guest/vcpu.c).                             *)
(*                                                                         *)
(* The threads are the threads of ThreadSched, and every sleep, wake-up    *)
(* and context switch is an action of ThreadSched.                         *)
(*                                                                         *)
(* On RISC-V bitmap_set_lock and bitmap_test_and_clear_lock load the word, *)
(* change it and store it back with no atomic instruction                  *)
(* (include/arch/riscv/asm/lib/bits.h), so each update of pending_req is   *)
(* two steps here: the load (into `word') and the store.                   *)
(* The macros that should turn interrupts off around the VM entry expand   *)
(* to nothing, so an interrupt may be taken at any step of the thread.     *)
(***************************************************************************)
EXTENDS ThreadSched, Sequences

CONSTANTS
    Caller,     \* contexts on other pCPUs that act on a vCPU
    Kinds,      \* the operations the callers perform, see script
    Faults      \* the vectors that VM exit handlers inject

ASSUME KindsType ==
    Kinds \subseteq {"extint", "nmi", "vclint_set_intr", "msip0", "msip1", "pause"}
ASSUME FaultsType == Faults \subseteq {"UD", "SS", "GP", "PF"}

VARIABLES
    at,         \* where the vCPU thread is in vcpu_thread
    req,        \* the request it is testing, clearing or making
    word,       \* the value it has loaded from pending_req
    pending,    \* vcpu->arch.pending_req
    exc,        \* vcpu->arch.exception_info.exception
    vstate,     \* vcpu->state
    ev_set,     \* set of events[VCPU_EVENT_VIRTUAL_INTERRUPT]
    waiting,    \* whether its waiting_thread is this thread or NULL
    msip,       \* clint_page.msip[vcpu_id] & 1
    vcpu_run,   \* per_cpu(vcpu_run): the last vCPU loaded on the pCPU
    swi,        \* a software interrupt is pending at the pCPU
    call        \* what every caller is doing

flow == <<at, req, word>>
events == <<ev_set, waiting>>
vcpuVars == <<vars, flow, pending, exc, vstate, events, msip, vcpu_run, swi, call>>

Request == {"INIT_VMCS", "TRP_FAULT", "EXCP", "EXTINT", "EVENT", "NMI"}
Vector == {"DE", "UD", "SS", "GP", "PF", "DF", "INVALID"}
VcpuState == {"NONE", "INIT", "RUNNING", "ZOMBIE", "OFFLINE"}
Where == {"top", "test", "clear", "zombie", "reset", "run", "guest", "set",
          "hlt", "hlt_msip", "wait", "wait_sched", "wait_check"}

Op == {"load", "store", "kick", "signal", "msip0", "msip1", "zombie", "sync"}

(* The steps of each operation of a caller, in the order of the code.      *)
(* Fault: vcpu_inject_extint and vcpu_inject_nmi signal before they        *)
(* request; vclint_write_msip interrupts before it writes the register.    *)
script_signals_first(kind) ==
    CASE kind \in {"extint", "nmi"} -> <<"signal", "load", "store", "kick">>
      [] kind = "vclint_set_intr" -> <<"signal", "load", "store", "kick">>
      [] kind \in {"msip0", "msip1"} -> <<"signal", "load", "store", "kick", kind>>
      [] kind = "pause" -> <<"zombie", "sync">>

script(kind) ==
    CASE kind \in {"extint", "nmi"} -> <<"load", "store", "kick", "signal">>
      [] kind = "vclint_set_intr" -> <<"signal", "load", "store", "kick">>
      [] kind \in {"msip0", "msip1"} -> <<kind, "signal", "load", "store", "kick">>
      [] kind = "pause" -> <<"zombie", "sync">>

request_of(kind) ==
    CASE kind = "extint" -> "EXTINT" [] kind = "nmi" -> "NMI" [] OTHER -> "EVENT"

(* A caller that is not in the middle of an operation.                     *)
NoCall == [kind |-> "none", vcpu |-> NULL, todo |-> <<>>, word |-> {}]

VcpuTypeOK ==
    /\ TypeOK
    /\ at \in [Thread -> Where]
    /\ req \in [Thread -> Request]
    /\ word \in [Thread -> SUBSET Request]
    /\ pending \in [Thread -> SUBSET Request]
    /\ exc \in [Thread -> Vector]
    /\ vstate \in [Thread -> VcpuState]
    /\ ev_set \in [Thread -> BOOLEAN]
    /\ waiting \in [Thread -> BOOLEAN]
    /\ msip \in [Thread -> BOOLEAN]
    /\ vcpu_run \in [Pcpu -> Thread \cup {NULL}]
    /\ swi \in [Pcpu -> BOOLEAN]
    /\ call \in [Caller -> [kind : Kinds \cup {"none"}, vcpu : Thread \cup {NULL},
                            todo : Seq(Op), word : SUBSET Request]]

-----------------------------------------------------------------------------
(* Creation, launch, and the pCPU's own steps.                             *)

VcpuInit ==
    /\ init_sched
    /\ at = [t \in Thread |-> "top"]
    /\ req = [t \in Thread |-> "INIT_VMCS"]
    /\ word = [t \in Thread |-> {}]
    /\ pending = [t \in Thread |-> {}]
    /\ exc = [t \in Thread |-> "DE"]
    /\ vstate = [t \in Thread |-> "NONE"]
    /\ ev_set = [t \in Thread |-> FALSE]
    /\ waiting = [t \in Thread |-> FALSE]
    /\ msip = [t \in Thread |-> FALSE]
    /\ vcpu_run = [p \in Pcpu |-> NULL]
    /\ swi = [p \in Pcpu |-> FALSE]
    /\ call = [c \in Caller |-> NoCall]

(* memset leaves exception_info.exception 0, the number of #DE.            *)
create_vcpu(t) ==
    /\ init_thread_data(t)
    /\ vstate' = [vstate EXCEPT ![t] = "INIT"]
    /\ pending' = [pending EXCEPT ![t] = {"INIT_VMCS"}]
    /\ UNCHANGED <<flow, exc, events, msip, vcpu_run, swi, call>>

(* Fault: launch_vcpu without vcpu_set_state.                              *)
launch_vcpu_keeps_state(t) ==
    /\ vstate[t] = "INIT"
    /\ wake_thread(t)
    /\ swi' = [swi EXCEPT ![home[t]] = @ \/ is_blocked(t)]
    /\ UNCHANGED <<vstate, flow, pending, exc, events, msip, vcpu_run, call>>

launch_vcpu(t) ==
    /\ vstate[t] = "INIT"
    /\ vstate' = [vstate EXCEPT ![t] = "RUNNING"]
    /\ wake_thread(t)
    /\ swi' = [swi EXCEPT ![home[t]] = @ \/ is_blocked(t)]
    /\ UNCHANGED <<flow, pending, exc, events, msip, vcpu_run, call>>

start_idle(p) ==
    /\ run_idle_thread(p)
    /\ UNCHANGED <<flow, pending, exc, vstate, events, msip, vcpu_run, swi, call>>

(* schedule() with the switch_in callback of the vCPU it switches to.      *)
schedule_vcpu(p) ==
    /\ schedule(p)
    /\ vcpu_run' = [vcpu_run EXCEPT ![p] =
                        IF curr_obj'[p] \in Thread THEN curr_obj'[p] ELSE @]

default_idle(p) ==
    /\ curr_obj[p] = p
    /\ need_reschedule(p)
    /\ schedule_vcpu(p)
    /\ UNCHANGED <<flow, pending, exc, vstate, events, msip, swi, call>>

(* The scheduler's timer on p asks for a reschedule.                       *)
tick(p) ==
    /\ make_reschedule_request(p)
    /\ UNCHANGED <<flow, pending, exc, vstate, events, msip, vcpu_run, swi, call>>

(* strap_handler clears sip and sswi_handler only logs.  A guest does not  *)
(* take the interrupt itself: it exits (vmexit_irq).                       *)
sswi_handler(p) ==
    /\ swi[p]
    /\ curr_obj[p] # NULL
    /\ curr_obj[p] \in Thread => at[curr_obj[p]] # "guest"
    /\ swi' = [swi EXCEPT ![p] = FALSE]
    /\ UNCHANGED <<vars, flow, pending, exc, vstate, events, msip, vcpu_run, call>>

-----------------------------------------------------------------------------
(* vcpu_thread.  A step of the thread needs the pCPU.                      *)

is_current(t) == curr_obj[home[t]] = t

goto(t, where) == at' = [at EXCEPT ![t] = where]

(* Fault: vcpu_thread without the test of need_reschedule.                 *)
loop_top_never_schedules(t) ==
    /\ is_current(t) /\ at[t] = "top"
    /\ goto(t, "test")
    /\ req' = [req EXCEPT ![t] = "INIT_VMCS"]
    /\ UNCHANGED <<vars, vcpu_run, word, pending, exc, vstate, events, msip, swi, call>>

(* if (need_reschedule()) schedule();                                      *)
loop_top(t) ==
    /\ is_current(t) /\ at[t] = "top"
    /\ IF need_reschedule(home[t])
       THEN schedule_vcpu(home[t])
       ELSE UNCHANGED <<vars, vcpu_run>>
    /\ goto(t, "test")
    /\ req' = [req EXCEPT ![t] = "INIT_VMCS"]
    /\ UNCHANGED <<word, pending, exc, vstate, events, msip, swi, call>>

(* The order in which acrn_handle_pending_request looks at the requests.   *)
next_request(r) ==
    CASE r = "INIT_VMCS" -> "TRP_FAULT"
      [] r = "TRP_FAULT" -> "EXCP"
      [] r = "EXCP" -> "EXTINT"
      [] OTHER -> "EVENT"

(* Proceed with the request r, or with reset_event after the last one.     *)
proceed(t, last, r) ==
    IF last THEN goto(t, "reset") /\ req' = [req EXCEPT ![t] = "INIT_VMCS"]
            ELSE goto(t, "test") /\ req' = [req EXCEPT ![t] = r]

(* The test of bitmap_test_and_clear_lock.  EXTINT is only looked at while *)
(* the guest has interrupts enabled, which it may or may not.              *)
test_request(t) ==
    LET r == req[t] IN
    /\ is_current(t) /\ at[t] = "test"
    /\ \/ /\ r \in pending[t]
          /\ word' = [word EXCEPT ![t] = pending[t]]
          /\ goto(t, "clear")
          /\ UNCHANGED req
       \/ /\ r \notin pending[t] \/ r = "EXTINT"
          /\ proceed(t, r = "EVENT", next_request(r))
          /\ UNCHANGED word
    /\ UNCHANGED <<vars, pending, exc, vstate, events, msip, vcpu_run, swi, call>>

(* The clear, and the handling of the request: init_vmcs, the branch that  *)
(* returns -EFAULT, vcpu_inject_exception.  An injected exception keeps    *)
(* EXTINT for the next pass.                                               *)
clear_request(t) ==
    LET r == req[t] IN
    /\ is_current(t) /\ at[t] = "clear"
    /\ pending' = [pending EXCEPT ![t] = word[t] \ {r}]
    /\ word' = [word EXCEPT ![t] = {}]
    /\ CASE r = "TRP_FAULT" -> goto(t, "zombie") /\ UNCHANGED req
         [] r = "EXCP" -> proceed(t, FALSE, "EVENT")
         [] OTHER -> proceed(t, r = "EVENT", next_request(r))
    /\ exc' = [exc EXCEPT ![t] = IF r = "EXCP" THEN "INVALID" ELSE @]
    /\ vcpu_run' = [vcpu_run EXCEPT ![home[t]] = IF r = "INIT_VMCS" THEN t ELSE @]
    /\ UNCHANGED <<vars, vstate, events, msip, swi, call>>

(* zombie_vcpu(vcpu, VCPU_ZOMBIE): only a launched vCPU is put to sleep.   *)
zombie_vcpu(t) ==
    IF vstate[t] \in {"RUNNING", "INIT"}
    THEN /\ vstate' = [vstate EXCEPT ![t] = "ZOMBIE"]
         /\ IF vstate[t] = "RUNNING" THEN sleep_thread(t) ELSE UNCHANGED vars
    ELSE UNCHANGED <<vars, vstate>>

triple_fault(t) ==
    /\ is_current(t) /\ at[t] = "zombie"
    /\ zombie_vcpu(t)
    /\ goto(t, "top")
    /\ UNCHANGED <<req, word, pending, exc, events, msip, vcpu_run, swi, call>>

reset_event(t) ==
    /\ ev_set' = [ev_set EXCEPT ![t] = FALSE]
    /\ waiting' = [waiting EXCEPT ![t] = FALSE]

reset_interrupt_event(t) ==
    /\ is_current(t) /\ at[t] = "reset"
    /\ reset_event(t)
    /\ goto(t, "run")
    /\ UNCHANGED <<vars, req, word, pending, exc, vstate, msip, vcpu_run, swi, call>>

run_vcpu(t) ==
    /\ is_current(t) /\ at[t] = "run"
    /\ vcpu_run' = [vcpu_run EXCEPT ![home[t]] = t]
    /\ goto(t, "guest")
    /\ UNCHANGED <<vars, req, word, pending, exc, vstate, events, msip, swi, call>>

-----------------------------------------------------------------------------
(* VM exits: an interrupt, an exception that the handler injects (or, for  *)
(* a handler that failed, #GP), and the halting instruction.               *)

vmexit_irq(t) ==
    /\ is_current(t) /\ at[t] = "guest"
    /\ goto(t, "top")
    /\ UNCHANGED <<vars, req, word, pending, exc, vstate, events, msip, vcpu_run, swi, call>>

vmexit_hlt(t) ==
    /\ is_current(t) /\ at[t] = "guest"
    /\ goto(t, "hlt")
    /\ UNCHANGED <<vars, req, word, pending, exc, vstate, events, msip, vcpu_run, swi, call>>

get_excep_class(v) ==
    CASE v \in {"DE", "SS", "GP"} -> "CONT" [] v = "PF" -> "PF" [] OTHER -> "BENIGN"

is_double_fault(prev, v) ==
    \/ get_excep_class(prev) = "CONT" /\ get_excep_class(v) = "CONT"
    \/ get_excep_class(prev) = "PF" /\ get_excep_class(v) # "BENIGN"

(* vcpu_queue_exception up to the load in vcpu_make_request.               *)
vcpu_queue_exception(t, v) ==
    /\ is_current(t) /\ at[t] = "guest"
    /\ IF exc[t] = "DF" /\ get_excep_class(v) # "BENIGN"
       THEN /\ req' = [req EXCEPT ![t] = "TRP_FAULT"]
            /\ UNCHANGED exc
       ELSE /\ req' = [req EXCEPT ![t] = "EXCP"]
            /\ exc' = [exc EXCEPT ![t] = IF is_double_fault(@, v) THEN "DF" ELSE v]
    /\ word' = [word EXCEPT ![t] = pending[t]]
    /\ goto(t, "set")
    /\ UNCHANGED <<vars, pending, vstate, events, msip, vcpu_run, swi, call>>

(* The store in vcpu_make_request; kick_vcpu does nothing on the own pCPU. *)
set_request(t) ==
    /\ is_current(t) /\ at[t] = "set"
    /\ pending' = [pending EXCEPT ![t] = word[t] \cup {req[t]}]
    /\ word' = [word EXCEPT ![t] = {}]
    /\ goto(t, "top")
    /\ UNCHANGED <<vars, req, exc, vstate, events, msip, vcpu_run, swi, call>>

(* hlt_vmexit_handler reads pending_req, then the msip register.           *)
hlt_check(t) ==
    /\ is_current(t) /\ at[t] \in {"hlt", "hlt_msip"}
    /\ IF at[t] = "hlt"
       THEN goto(t, IF pending[t] = {} THEN "hlt_msip" ELSE "top")
       ELSE goto(t, IF msip[t] THEN "top" ELSE "wait")
    /\ UNCHANGED <<vars, req, word, pending, exc, vstate, events, msip, vcpu_run, swi, call>>

(* wait_event under the event's lock: on entry, and again whenever the     *)
(* thread is back from schedule().                                         *)
(* Fault: the loop of wait_event does not look at event->set.              *)
wait_event_ignores_set(t) ==
    /\ is_current(t) /\ at[t] \in {"wait", "wait_check"}
    /\ IF at[t] = "wait" \/ waiting[t]
       THEN /\ waiting' = [waiting EXCEPT ![t] = TRUE]
            /\ sleep_thread(t)
            /\ goto(t, "wait_sched")
            /\ UNCHANGED ev_set
       ELSE /\ reset_event(t)
            /\ goto(t, "top")
            /\ UNCHANGED vars
    /\ UNCHANGED <<req, word, pending, exc, vstate, msip, vcpu_run, swi, call>>

(* Fault: wait_event leaves its waiting_thread behind.                     *)
wait_event_leaves_waiter(t) ==
    /\ is_current(t) /\ at[t] \in {"wait", "wait_check"}
    /\ IF ~ev_set[t] /\ (at[t] = "wait" \/ waiting[t])
       THEN /\ waiting' = [waiting EXCEPT ![t] = TRUE]
            /\ sleep_thread(t)
            /\ goto(t, "wait_sched")
            /\ UNCHANGED ev_set
       ELSE /\ ev_set' = [ev_set EXCEPT ![t] = FALSE]
            /\ goto(t, "top")
            /\ UNCHANGED <<waiting, vars>>
    /\ UNCHANGED <<req, word, pending, exc, vstate, msip, vcpu_run, swi, call>>

(* Fault: wait_event does not set its waiting_thread.                      *)
wait_event_unregistered(t) ==
    /\ is_current(t) /\ at[t] \in {"wait", "wait_check"}
    /\ IF ~ev_set[t] /\ (at[t] = "wait" \/ waiting[t])
       THEN /\ sleep_thread(t)
            /\ goto(t, "wait_sched")
            /\ UNCHANGED events
       ELSE /\ reset_event(t)
            /\ goto(t, "top")
            /\ UNCHANGED vars
    /\ UNCHANGED <<req, word, pending, exc, vstate, msip, vcpu_run, swi, call>>

wait_event(t) ==
    /\ is_current(t) /\ at[t] \in {"wait", "wait_check"}
    /\ IF ~ev_set[t] /\ (at[t] = "wait" \/ waiting[t])
       THEN /\ waiting' = [waiting EXCEPT ![t] = TRUE]
            /\ sleep_thread(t)
            /\ goto(t, "wait_sched")
            /\ UNCHANGED ev_set
       ELSE /\ reset_event(t)
            /\ goto(t, "top")
            /\ UNCHANGED vars
    /\ UNCHANGED <<req, word, pending, exc, vstate, msip, vcpu_run, swi, call>>

wait_schedule(t) ==
    /\ is_current(t) /\ at[t] = "wait_sched"
    /\ schedule_vcpu(home[t])
    /\ goto(t, "wait_check")
    /\ UNCHANGED <<req, word, pending, exc, vstate, events, msip, swi, call>>

-----------------------------------------------------------------------------
(* Callers on other pCPUs.                                                 *)

(* Fault: signal_event sets the event but wakes nobody.                    *)
signal_event_silently(t) ==
    /\ ev_set' = [ev_set EXCEPT ![t] = TRUE]
    /\ UNCHANGED <<vars, swi, waiting>>

(* wake_thread's make_reschedule_request also kicks the remote pCPU.       *)
signal_event(t) ==
    /\ ev_set' = [ev_set EXCEPT ![t] = TRUE]
    /\ IF waiting[t]
       THEN /\ wake_thread(t)
            /\ swi' = [swi EXCEPT ![home[t]] = @ \/ is_blocked(t)]
       ELSE UNCHANGED <<vars, swi>>
    /\ UNCHANGED waiting

(* A caller starts an operation on a vCPU that exists.                     *)
begin_call(c, k, t) ==
    /\ call[c].todo = <<>>
    /\ vstate[t] \notin {"NONE", "OFFLINE"}
    /\ call' = [call EXCEPT ![c] = [kind |-> k, vcpu |-> t, todo |-> script(k), word |-> {}]]
    /\ UNCHANGED <<vars, flow, pending, exc, vstate, events, msip, vcpu_run, swi>>

(* The next step of caller c is op, on t.                                  *)
performs(c, op, t) ==
    /\ call[c].todo # <<>>
    /\ Head(call[c].todo) = op
    /\ call[c].vcpu = t

advance(c) ==
    call' = [call EXCEPT ![c] =
                IF Tail(@.todo) = <<>> THEN NoCall
                ELSE [@ EXCEPT !.todo = Tail(call[c].todo)]]

call_load(c, t) ==
    /\ performs(c, "load", t)
    /\ call' = [call EXCEPT ![c].todo = Tail(@), ![c].word = pending[t]]
    /\ UNCHANGED <<vars, flow, pending, exc, vstate, events, msip, vcpu_run, swi>>

call_store(c, t) ==
    /\ performs(c, "store", t)
    /\ pending' = [pending EXCEPT ![t] = call[c].word \cup {request_of(call[c].kind)}]
    /\ call' = [call EXCEPT ![c].todo = Tail(@), ![c].word = {}]
    /\ UNCHANGED <<vars, flow, exc, vstate, events, msip, vcpu_run, swi>>

kick_vcpu(c, t) ==
    /\ performs(c, "kick", t)
    /\ swi' = [swi EXCEPT ![home[t]] = @ \/ vcpu_run[home[t]] = t]
    /\ advance(c)
    /\ UNCHANGED <<vars, flow, pending, exc, vstate, events, msip, vcpu_run>>

call_signal(c, t) ==
    /\ performs(c, "signal", t)
    /\ signal_event(t)
    /\ advance(c)
    /\ UNCHANGED <<flow, pending, exc, vstate, msip, vcpu_run>>

write_msip(c, t) ==
    /\ \/ performs(c, "msip0", t) /\ msip' = [msip EXCEPT ![t] = FALSE]
       \/ performs(c, "msip1", t) /\ msip' = [msip EXCEPT ![t] = TRUE]
    /\ advance(c)
    /\ UNCHANGED <<vars, flow, pending, exc, vstate, events, vcpu_run, swi>>

(* pause_vm: zombie_vcpu with sleep_thread_sync, which sleeps and then     *)
(* spins until the thread is BLOCKED.  A vCPU that was not launched is not *)
(* waited for.                                                             *)
pause_zombie(c, t) ==
    /\ performs(c, "zombie", t)
    /\ zombie_vcpu(t)
    /\ swi' = [swi EXCEPT ![home[t]] = @ \/ (vstate[t] = "RUNNING" /\ is_running(t))]
    /\ IF vstate[t] = "RUNNING" THEN advance(c) ELSE call' = [call EXCEPT ![c] = NoCall]
    /\ UNCHANGED <<flow, pending, exc, events, msip, vcpu_run>>

pause_sync(c, t) ==
    /\ performs(c, "sync", t)
    /\ is_blocked(t)
    /\ advance(c)
    /\ UNCHANGED <<vars, flow, pending, exc, vstate, events, msip, vcpu_run, swi>>

being_paused(t) == \E c \in Caller : call[c].vcpu = t /\ call[c].kind = "pause"

(* reset_vcpu, with its precondition.  vclint_reset clears the registers   *)
(* and pending_req is left as it is.                                       *)
reset_vcpu(t) ==
    /\ vstate[t] = "ZOMBIE" /\ ~being_paused(t)
    /\ vstate' = [vstate EXCEPT ![t] = "INIT"]
    /\ exc' = [exc EXCEPT ![t] = "INVALID"]
    /\ msip' = [msip EXCEPT ![t] = FALSE]
    /\ reset_event(t)
    /\ UNCHANGED <<vars, flow, pending, vcpu_run, swi, call>>

offline_vcpu(t) ==
    /\ vstate[t] = "ZOMBIE" /\ ~being_paused(t)
    /\ vstate' = [vstate EXCEPT ![t] = "OFFLINE"]
    /\ UNCHANGED <<vars, flow, pending, exc, events, msip, vcpu_run, swi, call>>

-----------------------------------------------------------------------------
vcpu_thread(t) ==
    \/ loop_top(t)
    \/ test_request(t)
    \/ clear_request(t)
    \/ triple_fault(t)
    \/ reset_interrupt_event(t)
    \/ run_vcpu(t)
    \/ vmexit_irq(t)
    \/ set_request(t)
    \/ hlt_check(t)
    \/ wait_event(t)
    \/ wait_schedule(t)

guest(t) ==
    \/ vmexit_hlt(t)
    \/ \E v \in Faults : vcpu_queue_exception(t, v)

calls(c, t) ==
    \/ call_load(c, t)
    \/ call_store(c, t)
    \/ kick_vcpu(c, t)
    \/ call_signal(c, t)
    \/ write_msip(c, t)
    \/ pause_zombie(c, t)
    \/ pause_sync(c, t)

VcpuNext ==
    \/ \E t \in Thread :
        create_vcpu(t) \/ launch_vcpu(t) \/ vcpu_thread(t) \/ guest(t)
    \/ \E t \in Thread : "pause" \in Kinds /\ (reset_vcpu(t) \/ offline_vcpu(t))
    \/ \E p \in Pcpu : start_idle(p) \/ default_idle(p) \/ tick(p) \/ sswi_handler(p)
    \/ \E c \in Caller, t \in Thread :
        calls(c, t) \/ \E k \in Kinds : begin_call(c, k, t)

VcpuSpec == VcpuInit /\ [][VcpuNext]_vcpuVars

(* The pCPUs start and keep executing: the idle thread, the vCPU thread    *)
(* (a guest is left in the end because the tick interrupts it), and the    *)
(* contexts that are inside an operation.                                  *)
VcpuFairSpec ==
    /\ VcpuSpec
    /\ \A p \in Pcpu : WF_vcpuVars(start_idle(p)) /\ WF_vcpuVars(default_idle(p))
    /\ \A t \in Thread : WF_vcpuVars(vcpu_thread(t))
    /\ \A c \in Caller : WF_vcpuVars(\E t \in Thread : calls(c, t))

-----------------------------------------------------------------------------
(* Whether t sleeps, or is about to, inside the halt handler.              *)
halted(t) ==
    /\ at[t] \in {"wait_sched", "wait_check"}
    /\ is_blocked(t) \/ be_blocking[t]

about_to_signal(t) ==
    \E c \in Caller :
        call[c].vcpu = t /\ \E i \in DOMAIN call[c].todo : call[c].todo[i] = "signal"

(* wait_event's assertion "only support exclusive waiting" never fires: at *)
(* its entry nobody waits for the event, whatever signals, pauses and      *)
(* resets happened before.                                                 *)
ExclusiveWait == \A t \in Thread : waiting[t] => at[t] \in {"wait_sched", "wait_check"}

(* signal_event is not lost (event.c): a launched vCPU does not sleep in   *)
(* wait_event once its event is set, whatever the order of the signal, of  *)
(* sleep_thread and of schedule().                                         *)
NoLostSignal ==
    \A t \in Thread :
        vstate[t] = "RUNNING" /\ waiting[t] /\ ev_set[t]
            => ~is_blocked(t) /\ ~be_blocking[t]

(* A halted vCPU misses no interrupt: hlt_vmexit_handler looks at msip     *)
(* after its reads of pending_req, vclint_write_msip writes it before it   *)
(* signals, and vcpu_inject_extint requests before it signals, so the one  *)
(* or the other side notices.  (vclint_set_intr, the source of EVENT,      *)
(* signals first: HaltedSeesEvent.)                                        *)
HaltedSeesInterrupt ==
    \A t \in Thread :
        (/\ vstate[t] = "RUNNING" /\ halted(t)
         /\ msip[t] \/ (pending[t] # {} /\ "EVENT" \notin pending[t]))
            => about_to_signal(t)

(* A paused vCPU stays off its pCPU (zombie_vcpu, sleep_thread_sync): once *)
(* no pause is in progress, a zombie is BLOCKED, or is on its way there    *)
(* after a triple fault.                                                   *)
ZombieSleeps ==
    \A t \in Thread :
        vstate[t] = "ZOMBIE" /\ status[t] # "NONE" /\ ~being_paused(t)
            => is_blocked(t) \/ be_blocking[t]

(* A launched vCPU that sleeps in wait_event is the event's waiter, so a   *)
(* signal reaches it.  One that was reset in its sleep (its event is reset *)
(* with it, and waits for nobody) is not left there when it is launched.   *)
SleeperIsRegistered ==
    \A t \in Thread : vstate[t] = "RUNNING" /\ halted(t) => waiting[t]

(* The inductive invariant of the wait: what the three properties say.     *)
WaitInv == ExclusiveWait /\ NoLostSignal /\ SleeperIsRegistered

(* vcpu_inject_exception's precondition, exception < 0x20: a request EXCP  *)
(* that is about to be served comes with its vector.                       *)
InjectHasVector ==
    \A t \in Thread : at[t] = "clear" /\ req[t] = "EXCP" => exc[t] # "INVALID"

(* "Don't open interrupt window between here and vmentry" (hv_main.c): no  *)
(* guest runs with an interrupt request that the kick of vcpu_make_request *)
(* will not bring it out for.                                              *)
NoRequestBehindEntry ==
    \A t \in Thread :
        at[t] = "guest" /\ "EVENT" \in pending[t]
            => \/ swi[home[t]]
               \/ \E c \in Caller : call[c].vcpu = t /\ call[c].todo # <<>>

(* The notification of vclint_set_intr (the HSM upcall, an expired guest   *)
(* timer) reaches the vCPU: it is not left asleep with the request.        *)
HaltedSeesEvent ==
    \A t \in Thread :
        vstate[t] = "RUNNING" /\ halted(t) /\ "EVENT" \in pending[t]
            => about_to_signal(t)

(* A request stays pending until acrn_handle_pending_request serves it:    *)
(* only the clear of its own bit removes it.                               *)
RequestsAreServed ==
    [][\A t \in Thread : \A r \in pending[t] \ pending'[t] :
            at[t] = "clear" /\ req[t] = r]_vcpuVars

(* A double fault needs a first fault: vcpu_queue_exception turns a vector *)
(* into #DF only while an earlier exception is still to be injected.       *)
DoubleFaultIsSecond ==
    [][\A t \in Thread :
            exc[t] # "DF" /\ exc'[t] = "DF" => "EXCP" \in pending[t]]_vcpuVars

(* A signalled vCPU leaves wait_event in the end, unless it is stopped.    *)
SignalEndsWait ==
    \A t \in Thread :
        (vstate[t] = "RUNNING" /\ waiting[t] /\ ev_set[t])
            ~> (~waiting[t] \/ vstate[t] # "RUNNING")

(* sleep_thread_sync returns: the vCPU exits the guest, gives the pCPU up  *)
(* and the spinning context sees it BLOCKED.                               *)
PauseCompletes == \A c \in Caller : call[c].kind = "pause" ~> call[c].kind = "none"

=============================================================================
