# Verification of the ACRN hypervisor's concurrent core

TLA+ specifications of the parts of the repository in which several actors meet: the
RISC-V hypervisor (`riscv.mk`), its x86 counterparts where the RISC-V build has none,
and the disks of the device model. TLC checks them on small instances; TLAPS proves
the safety properties that matter most for every size.

`PROJECT.json` is the index: components, runs, the map from definitions to source
lines, findings, hazards and theorems.

## 1. The system

The hypervisor runs on a few physical CPUs (pCPUs). Each has an idle thread and the
threads of the vCPUs that are pinned to it. A Service VM runs the HSM driver and the
device model, which emulate devices for the other VMs. What is hard is how the parts
meet:

| Part | State | Operations | Meets |
| --- | --- | --- | --- |
| Scheduler framework, `common/schedule.c` | `thread_object.status`, `be_blocking`; per pCPU `curr_obj`, `NEED_RESCHEDULE` | `sleep_thread`, `wake_thread`, `schedule`, `make_reschedule_request` | called from every pCPU for threads of any pCPU, under the target's `scheduler_lock` |
| Policies, `common/sched_{iorr,bvt,prio,noop}.c` | run queue, slices, virtual times, priorities | insert, remove, pick, wake, tick | the framework calls them; the tick is a timer |
| Idle loop, `common/hv_main.c`, `arch/x86/cpu.c` | - | test, `wfi` or `sti; hlt` | kicks and ticks end the halt |
| vCPU thread, `common/hv_main.c`, `guest/virq.c`, `guest/vmexit.c` | `pending_req`, `exception_info`, `vcpu->state` | request handling, entry, exit, halt | other pCPUs make requests, kick, signal, pause |
| Events, `common/event.c` | `set`, `waiting_thread` | `wait_event`, `signal_event`, `reset_event` | scheduler; the vCPU lifecycle resets them |
| Timers, `arch/riscv/timer.c`, `mtrap.c`, `trap.c` | per-pCPU sorted list, `mtimecmp`, `mip` | add, delete, expire | machine-mode handlers share `mip`; guest timers are added from whichever pCPU runs the vCPU |
| I/O requests, `dm/io_req.c` | slots of a shared page, `vcpu->req` | insert, wait or poll, post-work, reset | the HSM driver is the other side |
| Asynchronous I/O, `dm/io_req.c`, `common/sbuf.c` | descriptors, ring buffer | add, remove, look up, put | hypercalls, vCPUs and the HSM |
| MMIO table, `dm/io_req.c` | entries, highest index | register, unregister, dispatch | handlers run with or without the table's lock |
| Pass-through interrupts, `common/{irq,softirq,ptdev}.c`, `arch/x86/{irq,ioapic}.c`, `guest/assign.c`, `dm/vioapic.c` | irq descriptor, softirq list, remapping entry, physical and virtual pin | interrupt, softirq, guest masking and EOI, removal | interrupted pCPU, vCPU, hypercall, device |
| Page tables, `arch/x86/pagetable.c`, `page.c`, `guest/ept.c`, `guest/trusty.c`, `arch/riscv/pgtable.c`, `pager.c` | table pages, pool, two roots | add, delete, modify, split, free, secure world | regions overlap, cross entries, share tables |
| Disks, `devicemodel/hw/block_if.c`, `pci/virtio/virtio_block.c`, `virtio.c`, `pci/ahci.c` | request queue, worker threads, ring, command slots | request, complete, cancel, stop, reset, close | workers, the thread of the guest's accesses, the guest |

Two facts of the RISC-V port shape the models:

* `bitmap_set_lock` and `bitmap_test_and_clear_lock` are plain loads and stores
  (`include/arch/riscv/asm/lib/bits.h`), so an update of `pending_req` is two
  steps. (`ctl->flags` uses the same functions, but only under the scheduler
  lock or on its own pCPU, with one bit in use, so one step is faithful.)
* `CPU_IRQ_DISABLE_ON_CONFIG` expands to nothing, so interrupts are enabled on
  the way to a VM entry.

## 2. Modules

`ThreadSched` - the framework with an abstract policy: the run queue is a set,
`pick_next` returns any member. One action per operation, because each runs its
whole body under the scheduler lock with interrupts off. A pCPU's idle thread is
named by the pCPU.

`Lists` - what the models need of `lib/list.h`: taking an entry out of a list, and the
walks that look for the first entry of a kind and insert before it.

`SchedCore`, `SchedIorr`, `SchedBvt`, `SchedPrio`, `SchedPolicies` - the framework
again with the policies' real queues: `SchedCore` has what the policies share (the
queue as a sequence, the idle loop whose test and halt are separate steps, kicks and
ticks), each policy module its own pick, wake and tick, and `SchedPolicies` composes
them; `scheduler` says which policy a behaviour runs. `RefinesThreadSched` reads the
queue as a set and shows that each implements `ThreadSched`.

`VcpuRun` - extends `ThreadSched`; every sleep, wake-up and context switch is an
action of it. `at` is the thread's position in `vcpu_thread`, from the loop's top
through each request's test and clear to the guest and back through the exit
handlers. Contexts on other pCPUs (`Caller`) perform scripts of small steps: load
and store of `pending_req`, kick, signal, write of msip, pause.

`Timer` - the lists, the CLINT registers, the machine-mode handlers and
`timer_deadline_handler` with its cursor and saved next node as state. `writer` says which
pCPUs operate on which timer: one pCPU for each timer (`LocalWriters`) in the passing run
and in the proofs, while in the code a guest timer belongs to every pCPU its VM's vCPUs run
on (`HandlerStaysOnList` below). `erased` is a history variable: a software interrupt has
overwritten a pending timer interrupt, after which no promise about expiry is made until the
next one.

`IoReq` - the request slots. The hypervisor's side is `dm/io_req.c`; the HSM's side is
external and follows the state table above `struct acrn_io_request` in
`include/public/acrn_common.h`. An address stands for its device and for the value a
read of it returns. Whether the VM polls for completion (`polling`) is chosen at the
start.

`AsyncIo`, `Fifo` - descriptors and ring buffer; `Fifo` is what the buffer promises and
`ImplementsFifo` the refinement, with the ring's contents between `head` and `tail` as
the abstract sequence, without the element that the HSM has read but not yet released.
`DmBase` has the constants that it and `IoReq`, the two models of `dm/io_req.c` with the HSM
on the other side, share.

`MmioTable` - the handler table; `age` is a history variable that only the property
about the order of registration reads.

`PtIntx` - a level-triggered line of a passed-through device on x86, from the physical
pin through vector, irq, handler, softirq and delay timer to the virtual pin, and back
with the guest's EOI. The steps between reading the vector's irq, its descriptor and
its entry are separate, because a removal on another pCPU falls between them. The
four actors are the interrupted pCPU, the vCPU, the hypercall and the device.

`BlockIf` - the queue of the block backend, its worker threads, adjacent requests that
wait for each other, cancellation and close. `bc->mtx` is held within one step, except
where `blockif_cancel` waits with it. `BlockNext` lets the most general client use it.
`VirtioBlk` and `Ahci` are the two real clients with the guest's side of ring and
registers, and `BlockDev` composes a disk of either kind. Requests are their offsets and
ends; data is left out.

`PageTable`, `MemMap` - the tables of a VM with their contents, the pool of table
pages and the secure world's root. The three functions that the code has for three
levels are one operator with the level. `Arch` selects the x86 or the RISC-V version.
`MemMap` is the abstract translation from guest pages, and `ImplementsMap` the
refinement: an operation changes the translation of its region and of nothing else.

Operators introduced by a comment `Fault:` are faulty variants of the operator that
follows them. They are used by no specification; each shows that some property notices
that fault.

## 3. What is checked

Passing runs. Deadlock is checked in all but `block`, which ends when the backend is
closed, and `page_table`, which ends at its bound on operations.

| Run | Question | Properties |
| --- | --- | --- |
| `vcpu_signal` | can a halted vCPU miss an interrupt | `NoLostSignal`, `HaltedSeesInterrupt`, `ExclusiveWait`, `SignalEndsWait`, `QueueMatchesStatus`, `NoLostWakeup` |
| `vcpu_pause` | pause, reset, relaunch of two vCPUs at any point | `ZombieSleeps`, `SleeperIsRegistered`, `SchedInv`, `PauseCompletes` |
| `sched_policies` | does each policy honour the contract, end turns and forget nobody | `RefinesThreadSched`, `SliceEnforced`, `TurnIsBounded`, `HighestRuns`, `QueuedRuns`, `SleepSettles` |
| `timer` | lists, compare register, expiry | `ListsSorted`, `TimerArmed`, `PeriodicStays`, `ExpiresUnlessErased` |
| `ioreq` | the slot protocol, waiting and polling, around VM resets | `AnswerIsForRequest`, `GuestRunsWithFreeSlot`, `SlotOwnership`, `RequestEnds` |
| `asyncio` | descriptors and buffer | `EventIsAnnounced`, `ImplementsFifo`, `RoomIsFound` |
| `mmio_table` | dispatch with gaps, overlaps and concurrent accesses | `DispatchIsComplete`, `RunningIsRegistered` |
| `ptintx` | can a line be left masked, a softirq forgotten, a freed irq used | `MaskedPinIsOwed`, `NoSoftirqLeft`, `EoiIsSent`, `NoUseAfterFree`, `DeviceIsServed` |
| `block` | can a request be forgotten, answered too early, or never | `PendingIsServed`, `NoIoBehindGuest`, `DeviceAnswers` |
| `page_table` | do overlapping operations keep the translation and the table pages right | `TablesAreOwned`, `NoLargeExec`, `ImplementsMap` |

Runs that end in a counterexample state what a comment or document says and the
code does not do. Each has an entry under `findings` with the quotation.

| Run | What the counterexample shows |
| --- | --- |
| `vcpu_vector` | a served exception request is written back and injected with an invalid vector |
| `timer_kick` | a software interrupt erases a pending timer interrupt for good |

### Further disagreements

These properties are stated in the modules next to the others, and TLC finds each violated
with the configuration named, or with that of a passing run, the property put in place of
the run's own and the constants changed as given. They are no runs of the project; each
waits for a decision on whether the code or the sentence is meant. Where a property also
holds in a passing run, that run makes the assumption which the configuration here drops.

| Property | Configuration | Sentence | What the code does |
| --- | --- | --- | --- |
| `RequestsAreServed` | `MCVcpuLostRequest.cfg` | `acrn_handle_pending_request` "handles each request" (hv-cpu-virt.rst) | a remote request is overwritten by the vCPU's clear of another one |
| `HaltedSeesEvent` | `MCVcpuUpcall.cfg` | the hypervisor "notifies Service VM via upcall" (hv-io-emulation.rst) | `vclint_set_intr` signals before it requests, and the vCPU may sleep on |
| `ZombieSleeps` | `MCVcpuZombie.cfg` | a zombie's "vCPU thread is not running" (hv-cpu-virt.rst) | an interrupt that is signalled to a paused vCPU wakes it |
| `DoubleFaultIsSecond` | `MCVcpuDoubleFault.cfg` | "conditions for generating a double fault" (virq.c) | the first exception of a new vCPU counts as its second: `exception` is 0, which is #DE |
| `HandlerStaysOnList` | `MCTimerRemote.cfg` | "timer migrating is not supported" (hv-timer.rst) | a guest timer moves to the list of another pCPU under the handler's cursor |
| `ServiceBounded` | `MCTimerBound.cfg` | "force to exit irq handler after we serviced >31 timers" (timer.c) | `tries` wraps and the loop goes on |
| `OverdueNotPostponed` | `MCTimer.cfg`, `MinPeriod = 2` | "it is okay to program a expired time" (timer.c) | an overdue timer is put off by later additions |
| `EventIsAssigned` | `MCAsyncIo.cfg` | "Spin-lock used to protect asyncio add/remove for a VM" (vm.h) | the event of a removed or reused descriptor is put |
| `RunningIsRegistered` | `MCMmioTable.cfg`, `BarMoves = TRUE` | "This mmio_handler will never modify once register" (io_req.c) | a BAR that moves unregisters a running handler |
| `LaterWins` | `MCMmioTable.cfg` | "the one registered later wins" (hv-io-emulation.rst) | the lower index wins |
| `NoRequestBehindEntry` | `MCVcpuWindow.cfg` | "Don't open interrupt window between here and vmentry" (hv_main.c) | interrupts stay enabled, and the kick is consumed between the look at the requests and the entry |
| `ReadReachesRegister` | `MCIoReq.cfg` | "Emulate instruction and update vcpu register set" | the value of an MMIO read never reaches the register |
| `WakesNearSvt` | `MCSchedPoliciesWake.cfg` | the SVT "indicates the minimum AVT of any runnable threads" (sched_bvt.c) | the SVT dates from the last pick, so a woken thread can be further behind the running one than the allowance |
| `NoUseAfterFree` | `MCPtIntx.cfg`, `Quiesced = FALSE` | - | a mapping is removed while its device interrupts: the handler runs with a released entry |
| `EoiIsSent` | `MCPtIntx.cfg`, `Quiesced = FALSE` | "Send EOI to LAPIC/IOAPIC IRR" (arch/x86/irq.c) | the vector still leads to the irq but the irq no longer to the vector: `dispatch_interrupt` returns without an EOI |
| `NoIoBehindGuest` | `MCBlockDev.cfg`, `QuietReset = FALSE` | "If we are no longer processing the command list and nothing is in-flight, clear the running bit" (ahci.c) | a reset of the controller clears the bit with transfers in flight |
| `TablesAreOwned` | `MCPageTable.cfg`, `Quiet = FALSE` | "PD/PT are shared in both Secure world's EPT and Normal World's EPT" (pagetable.c) | an unmapping in the normal world frees a table page the secure world still uses |
| `ImplementsMap` | `MCPageTable.cfg`, `Arch = "riscv"` | "delete [vaddr_base, vaddr_base + size ) memory region page table mapping" (pgtable.c) | a 1 GB page that is split becomes entries that are read as tables; the memory layout of the present board does not get there |

### Bounds

* `vcpu_signal`: one vCPU and one injecting context; `vcpu_pause`: two vCPUs on one
  pCPU and two pausing contexts. The proofs are for any number, and for pauses and
  signals together. NMIs take the path of external interrupts.
* `sched_policies`: one pCPU with two threads under iorr and bvt, three under prio, one
  under noop, and a second pCPU that calls from outside. A slice of 2 cycles, at most 3
  between readings and a debt of at most 3 (`MaxDebt`) make slices end exactly, be
  overrun, and need more than one replenishment. Virtual times differ by at most `MaxVt`;
  one thread's runs twice as fast as the other's. `QueuedRuns` is about two threads under iorr: a
  woken thread is inserted at the head of the queue, so with three, two that keep sleeping
  and waking could keep the third waiting. For bvt it makes no claim.
* `timer`: a periodic and a one-shot timer over five instants; every order of the two
  on the list, expiry of both in one interrupt, and deadlines that have passed occur. The
  same properties hold of three timers over three instants. `MaxActions` is 4
  instead of 32, out of reach of two timers (what happens at the limit is
  `ServiceBounded`), and `Wrap` stands for 2^32. `Disabled` stands for the compare value
  after `CLINT_DISABLE_TIMER`, due only when the low half of mtime wraps, beyond `MaxTime`.
* `ioreq`: two vCPUs are what it takes for one's upcall to cover the other's slot; the
  one with two devices can confuse one answer with another.
* `asyncio`: a buffer of three elements holds two events; order, wrap-around and
  fullness happen within a few steps. Two descriptors make the list reorder and its
  entries be reused.
* `mmio_table`: three entries, three addresses, accesses of one and two bytes: gaps,
  partial overlaps and accesses over a range's end all occur.
* `ptintx`: one line, with the delay of a User VM's interrupts; the state space is
  complete. `Quiesced`: a mapping is removed only when the device's driver has silenced it.
* `block`: two workers and two requests, adjacent, one of them split in parts on AHCI.
  `MaxReq` is the number of requests and workers together, as in the code (64 slots and
  8 threads); with one less, `DeviceAnswers` is violated, so the limit is met. `Patient`
  and `QuietReset`: the guest restarts a port when CR is clear, and resets the
  controller only with the port stopped, as the AHCI specification asks of it.
* `page_table`: two entries per table, so 16 pages, in which regions start, end and
  cross at every level within `MaxOps` = 4 operations. `PoolPages` is large enough never to
  run out, as the code's reservation is. `Quiet`: nothing is mapped or unmapped beside
  a secure world.

### Fairness

* `SchedPolicies`, `VcpuRun`: weak fairness of each pCPU's own progress - the idle loop,
  the running thread, pending interrupts, the tick. pCPUs do not stop, and a guest is
  left in the end because the tick interrupts it. There is no fairness for callers to
  start an operation, only to finish one: they run code without blocking.
* `Timer`: the clock advances, timer interrupts are taken, the handler returns. There is
  no fairness for the users of timers and for kicks.
* `IoReq`, `AsyncIo`: vCPU threads run until they wait; the Service VM takes its
  interrupt and its clients serve what they were given, an assumption about the other side
  of the interface. There is no fairness for accesses and for pausing or restarting the VM.
* `PtIntx`: the pCPU finishes handlers and softirqs, the vCPU its exits, the hypercall
  its removal, and the IOAPIC sends what is asserted (weak). The guest takes, services and
  ends an interrupt that is pending again and again (strong): its own exits for other
  reasons interrupt it in between. No fairness for masking, reset, removal or the device.
* `BlockDev`: the workers, the callbacks and the thread in a register or notification
  handler run on; mutexes are granted in the end (strong fairness); transfers end; a guest that has
  an interrupt handles it. No fairness for new requests, stops, resets and close.

## 4. What is proved

Eight modules, `<Component>Proofs`. Every theorem is for all values of the constants
under the assumptions named in the component's module.

**Scheduler** (`ThreadSchedProofs`), from `ThreadsDistinct` and `HomeType`.
`SchedCorrect`: `Spec => [](TypeOK /\ SchedInv)`. None of the properties is inductive
alone. That a thread is queued exactly when it may run (`QueueMatchesStatus`) survives
`schedule` only because the picked thread, being queued, is neither blocked nor marked,
which needs that queues are local to their pCPU (`QueueIsLocal`), that the thread
switched out is the one RUNNING there (`RunningIsCurrent`, `CurrentIsLocal`), and that
`be_blocking` is only ever set on a running thread (`BlockingIsRunning`), since the
switch clears it on `prev` alone. `NoLostWakeup` needs all of these.
`QueueCorrect`, `RunningCorrect`, `WakeupNotLost` follow, and `BlockedNeverPicked` is an
action property from it.

**Policies** (`SchedPoliciesProofs`), for any threads, pCPUs, slices and ratios of virtual
time. `PolicyRefines` carries all of the above over to the real queues. `QueueInv`: a
pCPU's queue is ordered by what its policy orders by (`precedes`: virtual time, priority,
or for iorr nothing but being different), which also says that it has no duplicates.
Together with the framework's invariant, read of the queue as a set, it is inductive
(`PolicyCorrect`); the lemmas about `without` and `insert_before` say what the lists'
operations do to an ordered sequence. `SliceIsEnforced` (iorr), `TurnAlwaysBounded` (bvt) and
`HighestAlwaysRuns` (prio, noop) are what each policy promises on top; the bound of bvt
rests on the order of the queue, because `sched_bvt_pick_next` computes the turn from the
first two entries alone. `PolicyTyped` is the type invariant.

**vCPU events** (`VcpuRunProofs`). `VcpuImplementsSched`: the composed specification
implies the scheduler's. On top of its invariants `WaitInv` (`ExclusiveWait`,
`NoLostSignal`, `SleeperIsRegistered`) is inductive: `signal_event` wakes the registered
waiter in the same critical section in which it sets the event (`WakeWakes`),
`wait_event` sleeps only with the event unset, and no context switch puts a thread to
sleep that was not marked (`ScheduleKeepsAwake`). `VcpuTyped` is the type invariant.

Two properties need that callers of the other kind are absent, and say so.
`HaltMissesNothing` (`HaltedSeesInterrupt`) is for callers that inject, any number of them:
a pause resets the event that the injection has set. Its invariant `HaltInv` speaks of a
vCPU that is past `hlt_vmexit_handler`'s look at the requests, or at msip, and not yet back
from its sleep: what has come since is covered by an event that is set or by a caller with
the signal still to send (`CallsNotify`: every script signals after what it notifies of).
`PausedSleeps` (`ZombieSleeps`) is for callers that pause: an injected interrupt wakes a
paused vCPU, which is the disagreement of `MCVcpuZombie.cfg`. Its invariant
(`StoppedSleeps`, `NoSignal`): a vCPU in INIT, ZOMBIE or OFFLINE is asleep or marked to
sleep at its next context switch, and no caller has a signal still to send.

**I/O requests and events** (`HsmProofs`). `SlotInv`, per vCPU, ties together the place of
the vCPU, the state of its slot, what the client does and the event: a free slot is in
nobody's hands, and an event that is set, or about to be, belongs to the request the vCPU
waits for. That no stale event exists while the vCPU runs is what makes it inductive.
`SlotIsFreeInGuest`, `AnswersMatch` and `OwnersWrite` follow for any number of
vCPUs and both completion modes.
`SbufInv`, for any `EleNum`: the publishing vCPU holds the lock and has found room, and an
element that the reader has read is still in the buffer. The refinement `SbufIsFifo` then
rests on arithmetic of positions modulo `EleNum`: publishing appends (`Published`), reading
takes the first (`Taken`), and releasing it changes nothing (`Consumed`).
`EventsAreAnnounced` follows on its own.

**Timers** (`TimerProofs`), for any timers, pCPUs, periods and times, under `LocalWriters`:
each timer is operated on by one pCPU ("timer migrating is not supported"). Without it
`MCTimerRemote.cfg` shows the handler on a foreign list. `TimerCorrect`: lists are ordered
and hold their own pCPU's timers only (`Linked`); a timer between `set_timeout` and
`add_timer` is on no list (`Detached`), and neither is the one whose function runs
(`Running`); the loop's cursor and its saved successor are nodes of its own list, and differ
(`Cursor`). The last is what `list_for_each_safe` relies on: it survives the unlinking of
the cursor because the saved node is another one, the return of a periodic timer because an
insertion removes nothing, and the users of the list because they are on the pCPU that the
handler has interrupted; the last is where `LocalWriters` is needed. `ListsStaySorted` and
`HandlerAlwaysOnList` are conjuncts of it; `TimerStaysArmed` adds that
`update_physical_timer`'s look at the head covers the whole list, and `PeriodicNeverDropped`
that a timer taken off is the one whose function runs.

**MMIO table** (`MmioTableProofs`). `TableInv`: an entry in use has a range that is not
empty and an index the walk reaches. `DispatchCorrect` needs that a non-empty set of
entries has a first one (by well-foundedness) and that the code's overlap test is
having a byte in common. `HandlerStaysRegistered` assumes that no BAR moves.

**Pass-through** (`PtIntxProofs`). `SoftirqDrained`: an entry on the list has the softirq
pending or its loop still to look, for every nesting of interrupts. `QuietRemoval` and
`EoiAlways` assume `Quiesced` and prove `NoUseAfterFree` and `EoiIsSent`: once the pin is
masked and nothing is in flight, no step brings the vector back before the mapping is made
again (`RemovalInv`). `PinIsOwed`, also for quiet removals: the debt of a masked pin passes
from the handler to the softirq list, the softirq, the delay timer, the virtual pin and
the guest's EOI, and at no point does nobody have it (`OwedInv`).

**Disks** (`BlockDevProofs`). `BlockInv`: a blocked request has its blocker
ahead of it, in the queue or in flight; threads leave only once the context is closing; and
a queue that is not empty has an active thread. The last alone is not inductive: a thread
that finds only blocked requests goes to sleep, and only the blocker's thread is then
awake. `DiskImplementsBackend` shows that both controllers stay within what the general
client may do, which needs that nothing is requested after the close except from a
callback (`ClientInv`); `DiskIsServed` is its consequence. `AnsweredIsOver`
(`NoIoBehindGuest`) assumes `QuietReset`. Its invariant `OwnInv` says who has a request: a
request is in the backend once at most (`OnceInBackend`); one that the backend has was posted and is
not used (virtio, `ChainInv`), or is in flight with its bit in PxSACT or PxCI (AHCI,
`SlotInv`); and the mutexes are held by whom the steps in between suppose (`HolderInv`).

Only model-checked:

* all liveness (`QueuedRuns`, `SleepSettles`, `SignalEndsWait`, `PauseCompletes`,
  `ExpiresUnlessErased`, `RequestEnds`, `RoomIsFound`, `DeviceIsServed`, `DeviceAnswers`),
  which is beyond the prover;
* `PageTable` (`TablesAreOwned`, `NoLargeExec`, `ImplementsMap`), whose walks over four
  levels of tables are recursive operators.

## 5. What is not modelled

The map covers about 5,500 of the repository's 180,000 lines, 3 %. The rest is, for
the greater part, code in which one actor works on state of its own, and which a
specification would repeat line by line:

* Emulation of registers, instructions, MSRs, CPUID, configuration space and of the
  many devices of the device model (USB, network, graphics, audio, platform devices).
  Each is large, sequential and about bit patterns. `VirtioBlk` has the handshake of the
  virtqueue that the other virtio devices share.
* Boot, discovery of hardware, parsing of tables and options, loading of guests, and the
  offline configuration tools: they run once, before any guest.
* x86 versions of what is modelled for RISC-V: the vCPU loop, timers, VM lifecycle. Nested
  virtualisation, interrupt remapping hardware and MSI.

Within the modelled parts:

* Guest registers and instruction decoding, except that an access is stepped over;
  contents of memory.
* Spin locks are assumed to exclude, and a critical section whose data no other code
  touches without the lock is one step. Memory ordering weaker than program order is
  not modelled beyond the non-atomic bit operations.
* Port I/O and PCI configuration requests (no such exit on RISC-V) and the
  `OVERWRITE_EN` mode of the shared buffer.
* The HSM driver, other than as the other side of slots and buffer.
* The hypercalls of `common/hypercall.c` are compiled for other architectures only;
  those that `IoReq` and `AsyncIo` need are taken from there as the callers of the code that is.
* The EVENT_IDX mode and the reset of virtio devices, ATAPI, edge-triggered pins,
  allocation of irqs and vectors, translation caches.
* Boot of secondary pCPUs, and `smp_call_function`, which the RISC-V build never calls.

Hazards that no property covers (those that one covers are in `PROJECT.json`, those that
a disagreement shows in the table above):

* `dm/io_req.c:345`: writes step over the instruction before the request and reads after
  it. The order is in `IoReq` (`skipped`); the two cases are one test each.
* `dm/io_req.c:246`: a vCPU in polling mode whose slot a VM reset frees polls for ever. The
  loop has no bound and no document promises one, so `RequestEnds` makes no claim about a
  request that the VM was paused in.
* `common/irq.c:142`: `request_irq` tests a descriptor outside its lock. `PtIntx` has the one
  caller that its irq has.
* `arch/riscv/smpboot.c:151`: a secondary pCPU reports itself online before its trap
  vector, timer and scheduler are set up.
* `arch/x86/notify.c:58`: `smp_call_function` clears its bit without a lock prefix while
  other pCPUs clear theirs.
* `arch/x86/page.c:33`: with the pool of table pages empty, all further tables are one dummy
  page.
* `arch/x86/guest/ept.c:331`: other pCPUs translate with the old tables until they are
  flushed, after `ept_lock` is released.
* `hw/block_if.c:410`: the signal handler walks a list whose elements live on the stacks of
  waiting threads.
* `virtio_block.c:191`: the guest resets the device while the backend has its requests.

## 6. Running

    tlc -config MCIoReq.cfg MCIoReq
    tlapm HsmProofs.tla
