------------------------------- MODULE Timer -------------------------------
(***************************************************************************)
(* Hypervisor timers: the per-pCPU timer lists of arch/riscv/timer.c, the  *)
(* CLINT compare registers that drive them, the machine-mode handlers that *)
(* turn CLINT interrupts into supervisor interrupts (arch/riscv/mtrap.c),  *)
(* and the users of the timers: periodic ones (the scheduler's tick, the   *)
(* console) and the one-shot guest timers of guest/vclint.c.               *)
(*                                                                         *)
(* A list is a sequence of timers, its list_head is named by its pCPU.     *)
(* List operations run with the local interrupts off and are one step;     *)
(* machine-mode interrupts are never masked.  local_irq_save does not keep *)
(* other pCPUs out: `writer' says which pCPUs operate on which timers.     *)
(***************************************************************************)
EXTENDS Lists

CONSTANTS
    Pcpu, Timer, NULL,
    writer,      \* writer[t]: the pCPUs whose code starts, sets and deletes t
    period,      \* period_in_cycle, 0 for a one-shot timer
    MinPeriod,   \* us_to_ticks(MIN_TIMER_PERIOD_US)
    MaxActions,  \* MAX_TIMER_ACTIONS
    Wrap,        \* one more than the largest value of tries, 2^32 in the code
    MaxTime,     \* bound: the last tick of CLINT_MTIME that is modelled
    Disabled     \* the compare register after CLINT_DISABLE_TIMER: not due
                 \* before the low half of CLINT_MTIME wraps, after MaxTime

(* A node of a list is a timer or the head of a pCPU's list.               *)
ASSUME NodesDistinct == Timer \cap Pcpu = {} /\ NULL \notin Timer

(* add_timer raises the period of a periodic timer to the minimal one.     *)
ASSUME PeriodType ==
    period \in [Timer -> Nat] /\ \A t \in Timer : period[t] = 0 \/ period[t] >= MinPeriod
ASSUME WriterType == writer \in [Timer -> SUBSET Pcpu]
ASSUME BoundsType ==
    /\ MinPeriod \in Nat \ {0} /\ MaxActions \in Nat \ {0} /\ MaxTime \in Nat
    /\ Wrap \in Nat /\ Wrap > MaxActions
    /\ Disabled \in Nat /\ Disabled > MaxTime + MinPeriod
    /\ \A t \in Timer : Disabled > MaxTime + period[t]

VARIABLES
    mtime,       \* CLINT_MTIME
    mtimecmp,    \* CLINT_MTIMECMP of each pCPU
    stip,        \* mip.STIP: a supervisor timer interrupt is pending
    ssip,        \* mip.SSIP: a supervisor software interrupt is pending
    msip,        \* the CLINT's software interrupt register
    list,        \* cpu_timers.timer_list
    timeout,     \* timer->timeout
    at,          \* the pCPU's thread, or a point of timer_deadline_handler
    tick,        \* its current_tick
    tries,       \* its tries
    pos,         \* its loop cursor
    n,           \* the successor that list_for_each_safe has saved
    adding,      \* the timer that is off the list until add_timer
    erased       \* history: a pending timer interrupt was overwritten

hw == <<mtimecmp, stip, ssip, msip>>
loop == <<at, tick, tries, pos, n>>
vars == <<mtime, hw, list, timeout, loop, adding, erased>>

Node == Timer \cup Pcpu
queued(t) == \E p \in Pcpu : t \in Range(list[p])

TypeOK ==
    /\ mtime \in 0 .. MaxTime
    /\ mtimecmp \in [Pcpu -> 0 .. Disabled]
    /\ stip \in [Pcpu -> BOOLEAN]
    /\ ssip \in [Pcpu -> BOOLEAN]
    /\ msip \in [Pcpu -> BOOLEAN]
    /\ list \in [Pcpu -> Seq(Timer)]
    /\ timeout \in [Timer -> 0 .. Disabled]
    /\ at \in [Pcpu -> {"thread", "scan", "func"}]
    /\ tick \in [Pcpu -> 0 .. MaxTime]
    /\ tries \in [Pcpu -> 0 .. Wrap - 1]
    /\ pos \in [Pcpu -> Node]
    /\ n \in [Pcpu -> Node]
    /\ adding \in [Pcpu -> Timer \cup {NULL}]
    /\ erased \in [Pcpu -> BOOLEAN]

-----------------------------------------------------------------------------
(* timer.c: the list.                                                      *)

(* Where list_for_each goes after x in the lists ls: the next timer, the   *)
(* list's head, or, for a node that list_del_init has unlinked, itself.    *)
ring(l, p) == [i \in 0 .. Len(l) + 1 |-> IF i \in DOMAIN l THEN l[i] ELSE p]

nexts(ls, x) ==
    UNION {{ring(ls[p], p)[i + 1] : i \in {k \in 0 .. Len(ls[p]) : ring(ls[p], p)[k] = x}}
           : p \in Pcpu}

successor(ls, x) == IF nexts(ls, x) = {} THEN x ELSE CHOOSE y \in nexts(ls, x) : TRUE

(* The timers before which local_add_timer adds one that is due at `due':  *)
(* it goes past those that are due earlier.                                *)
(* Fault: the comparison is the wrong way round.                           *)
not_earlier_reversed(due) == {x \in Timer : timeout[x] <= due}

not_earlier(due) == {x \in Timer : timeout[x] >= due}

(* The list of p with t, due at `due', added, and whether t is its head.   *)
local_add_timer(p, t, due) == insert_before(list[p], t, not_earlier(due))
is_head(p, due) == list[p] = <<>> \/ Head(list[p]) \in not_earlier(due)

unlinked(t) == [p \in Pcpu |-> without(list[p], t)]

set_deadline(p, deadline) ==
    mtimecmp' = [mtimecmp EXCEPT ![p] =
                    IF deadline < mtime THEN mtime + MinPeriod ELSE deadline]

(* For the list l that p has now, with the timeouts `due'.                 *)
update_physical_timer(p, l, due) ==
    IF l = <<>> THEN UNCHANGED mtimecmp ELSE set_deadline(p, due[Head(l)])

-----------------------------------------------------------------------------
(* preinit_timer and timer_init.                                           *)
Init ==
    /\ mtime = 0
    /\ mtimecmp = [p \in Pcpu |-> Disabled]
    /\ stip = [p \in Pcpu |-> FALSE]
    /\ ssip = [p \in Pcpu |-> FALSE]
    /\ msip = [p \in Pcpu |-> FALSE]
    /\ list = [p \in Pcpu |-> <<>>]
    /\ timeout = [t \in Timer |-> 0]
    /\ at = [p \in Pcpu |-> "thread"]
    /\ tick = [p \in Pcpu |-> 0]
    /\ tries = [p \in Pcpu |-> 0]
    /\ pos = [p \in Pcpu |-> p]
    /\ n = [p \in Pcpu |-> p]
    /\ adding = [p \in Pcpu |-> NULL]
    /\ erased = [p \in Pcpu |-> FALSE]

(* The hardware and the machine-mode handlers.                             *)

time_passes ==
    /\ mtime < MaxTime
    /\ mtime' = mtime + 1
    /\ UNCHANGED <<hw, list, timeout, loop, adding, erased>>

(* Fault: mtimer_handler disables the compare register but does not raise  *)
(* the supervisor interrupt.                                               *)
mtimer_handler_silently(p) ==
    /\ mtime >= mtimecmp[p]
    /\ mtimecmp' = [mtimecmp EXCEPT ![p] = Disabled]
    /\ UNCHANGED <<mtime, stip, ssip, msip, list, timeout, loop, adding, erased>>

mtimer_handler(p) ==
    /\ mtime >= mtimecmp[p]
    /\ stip' = [stip EXCEPT ![p] = TRUE]
    /\ mtimecmp' = [mtimecmp EXCEPT ![p] = Disabled]
    /\ UNCHANGED <<mtime, ssip, msip, list, timeout, loop, adding, erased>>

(* csrw mip writes the whole register: it sets SSIP and clears STIP, for   *)
(* which mtimer_handler has already disabled the compare register.         *)
mswi_handler(p) ==
    /\ msip[p]
    /\ msip' = [msip EXCEPT ![p] = FALSE]
    /\ ssip' = [ssip EXCEPT ![p] = TRUE]
    /\ stip' = [stip EXCEPT ![p] = FALSE]
    /\ erased' = [erased EXCEPT ![p] = @ \/ stip[p]]
    /\ UNCHANGED <<mtime, mtimecmp, list, timeout, loop, adding>>

send_single_swi(p) ==
    /\ msip' = [msip EXCEPT ![p] = TRUE]
    /\ UNCHANGED <<mtime, mtimecmp, stip, ssip, list, timeout, loop, adding, erased>>

(* strap_handler clears SSIP at every trap; sswi_handler only logs.        *)
sswi_handler(p) ==
    /\ ssip[p] /\ at[p] = "thread"
    /\ ssip' = [ssip EXCEPT ![p] = FALSE]
    /\ UNCHANGED <<mtime, mtimecmp, stip, msip, list, timeout, loop, adding, erased>>

-----------------------------------------------------------------------------
(* stimer_handler: reset_stimer, and timer_deadline_handler.               *)

stimer_handler(p) ==
    /\ stip[p] /\ at[p] = "thread"
    /\ ssip' = [ssip EXCEPT ![p] = FALSE]
    /\ stip' = [stip EXCEPT ![p] = FALSE]
    /\ at' = [at EXCEPT ![p] = "scan"]
    /\ tick' = [tick EXCEPT ![p] = mtime]
    /\ tries' = [tries EXCEPT ![p] = MaxActions]
    /\ pos' = [pos EXCEPT ![p] = successor(list, p)]
    /\ n' = [n EXCEPT ![p] = successor(list, successor(list, p))]
    /\ erased' = [erased EXCEPT ![p] = FALSE]
    /\ UNCHANGED <<mtime, mtimecmp, msip, list, timeout, adding>>

(* The loop goes on to the node it has saved, and saves the one that       *)
(* follows it in the lists as they are now, ls.                            *)
next_timer(p, ls) ==
    /\ at' = [at EXCEPT ![p] = "scan"]
    /\ pos' = [pos EXCEPT ![p] = n[p]]
    /\ n' = [n EXCEPT ![p] = successor(ls, n[p])]

(* One pass of the loop, up to the call of the timer's function.  A timer  *)
(* whose timeout is 0 is unlinked and its function is not called.          *)
expire_or_pass(p) ==
    LET t == pos[p]
        left == (tries[p] - 1) % Wrap IN
    /\ at[p] = "scan" /\ t \in Timer
    /\ tries' = [tries EXCEPT ![p] = left]
    /\ IF timeout[t] <= tick[p] /\ left # 0
       THEN /\ list' = unlinked(t)
            /\ at' = [at EXCEPT ![p] = "func"]
            /\ UNCHANGED <<pos, n>>
       ELSE /\ next_timer(p, list)
            /\ UNCHANGED list
    /\ UNCHANGED <<mtime, hw, timeout, tick, adding, erased>>

(* Fault: a periodic timer is not put back on the list.                    *)
func_returns_drops_periodic(p) ==
    /\ at[p] = "func"
    /\ next_timer(p, list)
    /\ UNCHANGED <<mtime, hw, list, timeout, tick, tries, adding, erased>>

(* The function has returned: a periodic timer is put back.                *)
func_returns(p) ==
    LET t == pos[p]
        due == mtime + period[t] IN
    /\ at[p] = "func"
    /\ IF period[t] > 0
       THEN /\ timeout' = [timeout EXCEPT ![t] = due]
            /\ list' = [list EXCEPT ![p] = local_add_timer(p, t, due)]
       ELSE UNCHANGED <<timeout, list>>
    /\ next_timer(p, list')
    /\ UNCHANGED <<mtime, hw, tick, tries, adding, erased>>

(* The loop is back at its head: "update nearest timer", and sret.         *)
(* Fault: the handler returns without update_physical_timer.               *)
handler_returns_unarmed(p) ==
    /\ at[p] = "scan" /\ pos[p] = p
    /\ at' = [at EXCEPT ![p] = "thread"]
    /\ tick' = [tick EXCEPT ![p] = 0]
    /\ tries' = [tries EXCEPT ![p] = 0]
    /\ n' = [n EXCEPT ![p] = p]
    /\ UNCHANGED <<mtime, hw, list, timeout, pos, adding, erased>>

handler_returns(p) ==
    /\ at[p] = "scan" /\ pos[p] = p
    /\ update_physical_timer(p, list[p], timeout)
    /\ at' = [at EXCEPT ![p] = "thread"]
    /\ tick' = [tick EXCEPT ![p] = 0]
    /\ tries' = [tries EXCEPT ![p] = 0]
    /\ n' = [n EXCEPT ![p] = p]
    /\ UNCHANGED <<mtime, stip, ssip, msip, list, timeout, pos, adding, erased>>

-----------------------------------------------------------------------------
(* The users of the timers, in thread context on pCPU c.                   *)

thread(c) == at[c] = "thread" /\ adding[c] = NULL

(* vclint_write_tmr up to add_timer, and for a periodic timer its          *)
(* initialize_timer: console_setup_timer, sched_iorr_init.                 *)
set_timeout(c, t, due) ==
    /\ thread(c) /\ c \in writer[t]
    /\ list' = unlinked(t)
    /\ timeout' = [timeout EXCEPT ![t] = due]
    /\ adding' = [adding EXCEPT ![c] = t]
    /\ UNCHANGED <<mtime, hw, loop, erased>>

vclint_write_tmr(c, t, data) == period[t] = 0 /\ set_timeout(c, t, data)

setup_periodic(c, t) ==
    /\ period[t] > 0 /\ ~queued(t)
    /\ mtime + period[t] <= MaxTime
    /\ set_timeout(c, t, mtime + period[t])

add_timer(c) ==
    LET t == adding[c] IN
    /\ at[c] = "thread" /\ t # NULL
    /\ IF timeout[t] # 0
       THEN /\ list' = [list EXCEPT ![c] = local_add_timer(c, t, timeout[t])]
            /\ IF is_head(c, timeout[t])
               THEN update_physical_timer(c, list'[c], timeout)
               ELSE UNCHANGED mtimecmp
       ELSE UNCHANGED <<list, mtimecmp>>
    /\ adding' = [adding EXCEPT ![c] = NULL]
    /\ UNCHANGED <<mtime, stip, ssip, msip, timeout, loop, erased>>

(* suspend_console; the write of a guest's mtime, vclint_reset_timer and   *)
(* vclint_free, timer by timer.                                            *)
del_timer(c, t) ==
    /\ thread(c) /\ c \in writer[t]
    /\ queued(t)
    /\ list' = unlinked(t)
    /\ UNCHANGED <<mtime, hw, timeout, loop, adding, erased>>

-----------------------------------------------------------------------------
timer_deadline_handler(p) ==
    stimer_handler(p) \/ expire_or_pass(p) \/ func_returns(p) \/ handler_returns(p)

users(c) ==
    \E t \in Timer :
        \/ \E data \in 0 .. MaxTime : vclint_write_tmr(c, t, data)
        \/ setup_periodic(c, t)
        \/ del_timer(c, t)

Next ==
    \/ time_passes
    \/ \E p \in Pcpu :
        \/ mtimer_handler(p) \/ mswi_handler(p) \/ send_single_swi(p)
        \/ sswi_handler(p) \/ timer_deadline_handler(p)
        \/ users(p) \/ add_timer(p)

Spec == Init /\ [][Next]_vars

(* The counter counts, timer interrupts are taken, the handler returns.    *)
FairSpec ==
    /\ Spec
    /\ WF_vars(time_passes)
    /\ \A p \in Pcpu : WF_vars(mtimer_handler(p)) /\ WF_vars(timer_deadline_handler(p))

-----------------------------------------------------------------------------
(* Each timer is operated on by one pCPU, which does not migrate.          *)
LocalWriters == \A t \in Timer : \A p, q \in writer[t] : p = q

(* A list is ordered by timeout, so that update_physical_timer's look at   *)
(* its head is enough; a timer is on one list at most, and once.           *)
ListsSorted ==
    /\ \A p \in Pcpu : \A i, j \in DOMAIN list[p] :
        i < j => /\ timeout[list[p][i]] <= timeout[list[p][j]]
                 /\ list[p][i] # list[p][j]
    /\ \A p, q \in Pcpu : p # q => Range(list[p]) \cap Range(list[q]) = {}

(* A pCPU with a timer on its list will run timer_deadline_handler in      *)
(* time: it is doing so, the interrupt is pending, or the compare register *)
(* is set to the first timeout or at most a minimal period from now.  The  *)
(* one exception is an interrupt that mswi_handler has erased.             *)
TimerArmed ==
    \A p \in Pcpu :
        list[p] # <<>> /\ ~erased[p] =>
            \/ at[p] # "thread"
            \/ stip[p]
            \/ mtimecmp[p] <= timeout[Head(list[p])]
            \/ mtimecmp[p] <= mtime + MinPeriod

active(t) == queued(t) \/ \E p \in Pcpu : at[p] = "func" /\ pos[p] = t

(* A periodic timer keeps going: timer_deadline_handler, whichever timers  *)
(* it unlinks, runs and puts back, never drops it; only its users stop it. *)
PeriodicStays ==
    [][\A t \in Timer : period[t] > 0 /\ active(t) /\ ~active(t)' => UNCHANGED loop]_vars

(* timer_deadline_handler walks its own pCPU's list and nothing else: "A   *)
(* timer can only be added on the logical CPU ... migrating is not         *)
(* supported" (hv-timer.rst).                                              *)
HandlerStaysOnList ==
    \A p \in Pcpu : at[p] = "scan" => pos[p] \in Range(list[p]) \cup {p}

(* "force to exit irq handler after we serviced >31 timers": once tries    *)
(* has run out, no more timers are served.                                 *)
ServiceBounded == \A p \in Pcpu : at[p] = "func" => tries[p] < MaxActions

(* "it is okay to program a expired time" (update_physical_timer): while   *)
(* the first timer of a list is overdue and the interrupt for it is still  *)
(* to come, adding another timer does not put that interrupt off.          *)
OverdueNotPostponed ==
    [][\A p \in Pcpu :
        (/\ list[p] # <<>> /\ timeout[Head(list[p])] < mtime
         /\ mtime < mtimecmp[p] /\ mtimecmp[p] < Disabled)
            => mtimecmp'[p] <= mtimecmp[p] \/ at[p] # "thread"]_vars

(* A queued timer that is due in modelled time is run or deleted, unless   *)
(* an interrupt was erased.  At the end of modelled time the interrupt may *)
(* be left over, when set_deadline has put it past that end.               *)
ExpiresUnlessErased ==
    \A t \in Timer :
        (queued(t) /\ timeout[t] <= MaxTime)
            ~> \/ ~queued(t) \/ timeout[t] > MaxTime
               \/ \E p \in Pcpu : \/ mtimecmp[p] \in MaxTime + 1 .. MaxTime + MinPeriod
                                  \/ erased[p]

(* struct hv_timer's func is a "callback if time reached": the same        *)
(* without that exception.                                                 *)
QueuedExpires ==
    \A t \in Timer :
        (queued(t) /\ timeout[t] <= MaxTime)
            ~> \/ ~queued(t) \/ timeout[t] > MaxTime
               \/ \E p \in Pcpu : mtimecmp[p] \in MaxTime + 1 .. MaxTime + MinPeriod

=============================================================================
