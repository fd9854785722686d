# A TLA+ model of tpce2drv

`tpce2drv` (under `src/linux`) is the Linux kernel driver of the TPCE Gen2 PCIe DAQ card. It maps user buffers for
DMA, runs one-shot and streaming transfers on three DMA channels, forwards hardware events to user space and
survives hot removal of the card. It is a small program whose difficulty is concurrency: ioctl calls, a hard
interrupt handler, a tasklet, a work item per channel, VMA callbacks, device removal and the DMA engine itself all
touch the same per-device state, under two mutexes, two spinlocks, two reference counts and a few lock-free words.

## Inventory

Line numbers refer to `src/linux`. One `tpce_dev` exists per board; most of its state is guarded by `tpce->mutex`
(taken around every ioctl but `DMA_STATUS` and `EVENT`, by `mmap`, `release`, the VMA callbacks and the removal). Each
channel has a `dma_info->mutex`; `tpce->irqsrc_lock` and `hw_events.events_lock` are spinlocks. There are no
automated tests in the repository.

| Component | State | Operations | What makes it correct |
|---|---|---|---|
| DMA mappings (`dma.c` 59-390, `request.c` 90-104 and 705-742, `main.c` 138-163) | `tpce->dma_mappings` (xarray), the list of each file, `active_channel` of each mapping | `LOCK_DMA_BUFFER`, `UNLOCK_DMA_BUFFER`, the sweep in `tpce_release`, the sweep in `tpce_dma_free` | memory is unmapped only when no engine works on it; no mapping is freed that another call has in hand |
| Transfer execution (`request.c` 106-373 and 745-784, `dma.c` 621-850) | `tpce_dma_info`: `state`, `params`, `map_info`; `fast_irq_mask` | `DMA_EXECUTE`, `DMA_CANCEL`, `DMA_STATUS`, the legacy read calls; `tpce_dma_start`, `tpce_dma_stream_start`, `tpce_dma_abort`, `tpce_dma_completion`, `reset_dma_info` | engine, channel and mapping agree at every point where the mutex is free; a one-shot returns, and only when it is over |
| Interrupt path (`main.c` 383-584) | `irqsrc`, the tasklet, one work item per channel, `fast_irq_mask`, the enable and status registers | `tpce_isr`, `tpce_tasklet`, `tpce_dma_work` | no completion and no wake-up is lost; interrupts are always enabled again, until the removal disables them for good |
| Address translation table (`altera_pcie.h`, `dma.c` 480-548 and 602-683) | 16 slots of page, owning channel and used bit; the device's registers | allocate, find, free by channel, translate descriptor addresses, program the registers | a descriptor address leads to its own page; a failed start gives back its slots; a full table is reported and harmless |
| Device and file lifecycle (`main.c` 93-380 and 586-905) | `tpce_devices.devs`, `going_away`, `refs`, what each `tpce_dev` owns, `file_ctx` | probe with its `goto` chain, open, ioctl entry, `mmap`, VMA open and close, release, removal | nothing is used after it is freed, nothing leaks, removal and close end |
| Stream state and ring (`main.c` 455-521, `request.c` 50-88 and 163-278, `tpce_public.h`) | the page shared with user space (`produced`), `state_refs`, sequence numbers | the stream part of the ISR, `tpce_init_stream_info`, `tpce_free_stream_info` | `produced` counts each descriptor once; the page lives while anybody may touch it |
| Hardware events and poll (`main.c` 165-303 and 397-453) | `hw_events`: `status`, `pending`, wait queue; INTSTAT of the device | `EVENT`, `poll`, the tasklet's event part | an event is delivered to somebody, once; whoever sleeps is woken |
| Descriptor generation and validation (`dma_descriptors.c`, `.h`) | none | validate, plan, fill addresses and flags, link | descriptors cover the requested bytes of the buffer and nothing else |
| Descriptor memory (`dma.c` 396-478) | the coherent buffer of each channel | allocate, reuse, grow, free | never smaller than the chain written to it |
| Locking between calls (all files) | `tpce->mutex`, `dma_info->mutex`, the kernel's `mmap_lock` | every call | nobody waits in a circle; every call ends |
| Legacy reads, BAR and configuration space access (`request.c`) | none of their own | bounds checks, register I/O, copies | bounds |
| Module load and unload (`main.c` 931-977), register headers (`altera_msgdma.h`) | class, device numbers | once, sequentially | - |

**How they interact.** An ioctl locks `tpce->mutex`, finds mappings, and for a transfer takes `dma_info->mutex` to
initialise, start, check and clean up; it drops that lock (never `tpce->mutex`) while it waits. The device raises an
interrupt; `tpce_isr` handles streams itself (those in `fast_irq_mask`), leaves the rest in `irqsrc`, disables
interrupts and schedules the tasklet; the tasklet acknowledges channels, queues a work item for each and enables
interrupts; the work item takes `dma_info->mutex`, marks the transfer complete and wakes the sleeper. Close and
removal stop channels through `active_channel` of each mapping. The removal runs against everything else, with
`going_away`, the mutex, `tasklet_kill` and `cancel_work_sync` as its means.

**What is hard**: the interrupt path outliving the transfer it reports; `dma_info->mutex` dropped between start and
wait; several actors writing `state`, `active_channel` and `fast_irq_mask`; failure in the middle of a start; hot
removal at any point; reads without a lock in the ISR; a fixed-size table shared by channels; modular ring arithmetic.
`PROJECT.json` lists each hazard at its line, with the property that covers it or the reason why none does yet.

## Modules

| Module | Models |
|---|---|
| `DmaTransfer` | mappings, channels, the calls that start, await, cancel and tear down transfers, ISR, tasklet and work items, and the DMA engines |
| `TransferContract` | what that core promises, without mutexes and interrupts: map, lend, launch, finish, release, unmap |
| `PageTable` | the translation table and the part of `dma_start` that fills it |
| `Lifecycle` | probe, open, calls, mmap, close and removal, with references, memory and the end of the interrupt path |
| `StreamRing` | the ring of a stream: device, hard interrupt handler, start, cancel and `mmap`, with `produced` and the sequence numbers |
| `HwEvents` | application interrupts: INTSTAT, tasklet, `EVENT` and `poll` with its wait queue |
| `DmaDescriptors` | from a request to the chain of descriptors the device fetches, and the memory it is made in |
| `LockOrder` | the calls as sequences of locks |
| `MC...` | the instances TLC checks, one for each of the above but `TransferContract` |
| `DmaTransferProofs`, `DmaDedicatedProofs` | the theorems about `DmaTransfer`, the refinement of `TransferContract` among the latter |
| `PageTableProofs`, `LifecycleProofs`, `StreamRingProofs`, `HwEventsProofs`, `DmaDescriptorsProofs`, `LockOrderProofs` | the theorems about these modules |

`DmaTransfer` implements `TransferContract`. The other modules look at one part each, more closely than
`DmaTransfer`, and take from the others what the comment at their head says: `PageTable` starts and stops
transfers at any time; `StreamRing` takes rings that `DmaDescriptors` shows to have interrupts at equal
distances; `LockOrder` keeps only the locks of the calls the others model.

### DmaTransfer

`tpce->mutex` is held for the whole of a call, so at most one call is in progress: `caller` holds the lock, `pc`,
`ch` and `unmap` say where it is. What the lock does not keep out (ISR, tasklet, work items, engines) may step between
any two actions. A call is cut where `dma_info->mutex` is taken or dropped and where the device is touched:

- `Execute` is `dma_execute` up to the point where the channel is INITIALIZED (validation, `init_dma_info`,
  `active_channel`); `StartDma` and `FailStart` are the two outcomes of the start with the lock held; `CheckCompleted`
  and `WaitExpired` are the wait; `Cleanup` is its end, by way of `BeginAbort` and `Halt` if the transfer is still
  RUNNING.
- `Cancel`, `UnlockBuffer`, `Close`, `CloseNext` and `FreeMapping` are the ways to stop and to unmap.
- `IsrEnter` (status register, `irqsrc`), `IsrLoadMask`, `IsrStream`, `IsrExit`; `TaskletStart`, `TaskletChannel`,
  `TaskletDone`; `WorkStart`, `WorkComplete`, `WorkWake`: the interrupt path at the granularity at which
  other actors can see it.
- `EngineFinishes` and `EngineAdvances` are the device: they raise an interrupt at any time.

Three constants say how clients and the environment behave: `ShareMaps` (a client may start a second channel on a busy
mapping), `StreamStartFails`, `WaitExpires`; `ModesOf` says which modes a channel is used for; `ResetKeepsIrq` leaves
open whether a reset takes back an interrupt that is up. The properties differ in which of these they survive, and that
is the content of the runs. Data, descriptors and the user's copies are left out; so are the failures of pinning
and mapping, which have no effect on the state.

### PageTable

A workload is the sequence of large pages a transfer touches, the page of its descriptors first. `TranslateLink`,
then `KeepSlot`, `FindSlot`, `AllocSlot` or `DataNoSpace` for each descriptor, follow `translate_descriptor_link_addr`
and `translate_descriptor_rw_addr` with their locals `currPage` and `slot`; `Program` writes the registers;
`AbandonStart` and `Release` are the two ways slots come back. `before` is the word in front of the table, which an
allocation from a full table overwrites. Page address 0 is not among `Pages` (with it `slot` would be read
uninitialised). `NeverReturns` says which workloads are translated rightly: those that do not come back to the page
that was first needed last (`currPage`) after another one that was merely looked up.

### Lifecycle

A `tpce_dev` is a member of `Devs`; `life` is the progress of its probe and its removal, `held` the resources it owns.
`Undo` is the `goto` chain of `tpce_device_init`. An ioctl is one step (`Call`: lock, check of `going_away`, body,
unlock); open, close, `DMA_STATUS` and the error path of `mmap` are cut where the code holds no lock.
`MmapReturnsEarly` is the return with the mutex locked; the mutex then belongs to `Lost`. Transfers here are
streams, which outlive the call that starts them.

The code leaves four overlaps open that break the properties below. Each is a guard with a name in `Races`; the guard
is dropped when the name is in the set:

| Name | Assumed away | Line |
|---|---|---|
| `open` | the removal frees a device that an open call has looked up but not yet counted | `main.c:127` |
| `status` | `DMA_STATUS` uses `io_buffer`, which the removal has freed | `main.c:195` |
| `tasklet` | the tasklet enables interrupts after a stale check of `going_away` | `main.c:444` |
| `remap` | the error path of `mmap` drops the stream state without the mutex | `main.c:372` |

So the passing run shows that these four are the only ways, within its bounds, in which its properties fail; each
property named in the hazards list fails when its overlap is allowed. The theorems say the same without bounds, and
property by property: each excludes only the overlaps its property cannot bear, and with any one of those in `Races`
TLC finds it violated. `NothingLeaks` and `OnlyCloseMeetsRemoval` bear all four.

A fifth overlap is not assumed away: `tpce_dma_free` walks the mappings without the mutex (`main.c:880`) while
`tpce_release`, which holds it, walks the same ones. Each may then free what the other has freed (`MappingsFreedOnce` is
violated). `OnlyCloseMeetsRemoval` says how far that goes: a mapping in hand goes away only when a close and the removal
of its device meet, never through an ioctl, nor through a close before the removal has reset the hardware.

### StreamRing

One channel. The device completes descriptors one after the other around the ring and puts the number of the one in
progress in `reg`. `dma_stream_irq_handler` is cut at each read or write of what others touch: `IsrAcknowledge`,
`IsrState`, `IsrReadSequence`, `IsrCompute`, one `IsrSync` for each descriptor, `IsrPublish`. Start (`Start`,
`EnableStreamIrq`, `StartController`) and cancel (`Abort`, `ResetController`, `ResetDmaInfo`) are cut where the handler
can see them half done. "fault" is a division by `desc_size = 0`, a NULL `map_info`, or a page that is freed while the
handler holds its address (`dangling`); it is the end of the kernel, and no stream starts after it. `seen`, `lapped` and
`overtaken` are history: what was done when the handler last looked, whether the device went round in between, which
sequence numbers cannot show, and whether a cancel reset the engine while a handler was running.

Nothing in the code waits for a running handler before a cancel takes its data away, so in the model it may run on
through the reset, the release of the page and into the next stream; `HandlerNeverFaults` is violated. What is claimed
instead is that this is the only way: a fault implies `overtaken`, and a handler that comes after the channel was masked
does nothing. `ProducedIsReal`, `SyncedBeforePublished` and `CatchesUp` are about the streams that are not overtaken; no
timing is assumed.

### HwEvents

The event part of the tasklet in five steps (`TaskletStart`, `TaskletRead`, `TaskletClear`, `TaskletWake`,
`TaskletEnable`), with `events_lock` held between read and clear; `PollWait` and `PollCheck` are the two halves of
`tpce_poll`, between which the tasklet may come; `PollAgain` is the kernel's loop; `Event` takes `status`, `EventCopy`
copies it out. The device may raise any bit at any moment. `owed`, `raised` and `delivered` are history.

### DmaDescriptors

Requests come one after the other and inherit the descriptor memory. A mapping is the list of offsets at which its
ranges begin; a byte of the buffer has its offset for an address, so that "the descriptors cover the request" is a
statement about `pos` and `len`. The actions follow `init_dma_info`: `AllocRefused`, `AllocReuse` or `AllocNew`; then
`CopyDescriptors` (a list from user space) or `Refuse` or `PlanDescriptors`, and `FillPage`, `FillDescriptor` (one round
of each loop of `fill_addresses`), `FillControlFlags`, `SetDescSize`; then `StartChain`, whose `Links` are
`build_descriptor_links`, and `Finish`. `Modulus` and `SizeMod` are the widths of lengths and of the size of the memory.
Strides, bursts and device addresses are left out; the checks on them may refuse any request.

Requests take any lengths, also those that validation accepts and the generator cannot handle: lengths or offsets that
`bytes_per_descriptor` does not divide, and `map_offset + bytes_total` beyond 32 bits. They go "astray": `FillPage` comes
to a range that does not exist, `WriteOutside` writes behind the memory, `LinkOutside` closes a ring of no descriptors in
front of it; what follows is undefined and not pursued (`GoneAstray`). `LengthsFit` is the condition under which
`WritesInBounds` and `CoversRequest` promise something. Each of its parts is needed: without it `WritesInBounds` is
violated.

### LockOrder

A call is the sequence of lock operations left to do (`todo`); `Path` gives the sequence for each call. Mutexes,
`mmap_lock` (a writer in the queue keeps readers out) and `cancel_work_sync` are the kernel's. A copy from or to user
space may fault and take `mmap_lock` (`Faulting`). `mmap` takes `tpce->mutex` under `mmap_lock`, a pin or a fault under
the mutex takes them in the other order; `MapsApart` says when that is harmless: no other thread of such a process maps.

## Runs

| Run | Bounds | Shows |
|---|---|---|
| `mixed` | 1 file, 2 channels, a client mapping and the driver's; channel 0 in both modes; starts fail, waits expire, interrupts survive a reset; 2.9 million states | types, `ActiveIsBusy` (the warning at `dma.c:370` never fires), `MapOutlivesTransfer`, `InterruptsComeBack` under everything but shared mappings |
| `dedicated` | 3 channels, one for streams and two for one-shots; 120 thousand states | the device works on mapped memory only, engine and channel agree, completions are real and not lost, wake-ups are not lost, calls return, and the core implements `TransferContract` |
| `translation` | 2 channels, 3 pages, 3 slots, all workloads of 2 to 4 pages that satisfy `NeverReturns`; 518 thousand states up to page symmetry | addresses lead to their pages and no slot is leaked, starts that fail included |
| `lifecycle` | 1 device, 1 minor, 2 files, 2 areas per file, no overlap of `Races`; 222 thousand states | memory outlives its users, nothing leaks, only close and removal can meet over a mapping, the device is quiet when it is unplugged, removal and close end |
| `stream` | rings of 1, 2, 3 and 4 descriptors with intervals of 1, 2 and a whole ring, 4 sequence numbers, 5 descriptors in a stream, 1 area, a count of at most 1 carried into the next stream by a handler; 381 thousand states | the handler faults only if a cancel overtakes it; in the other streams `produced` is exact unless the device laps it; what it announces has been synced; an interrupt is not lost between acknowledgement and read |
| `events` | 2 bits raised twice each, 2 processes; 133 thousand states | events are neither lost nor repeated, no poller sleeps over a pending event, and every event is delivered while a process polls |
| `descriptors` | 6 scatter lists, lengths and offsets to 14 units, all combinations with 5 descriptor sizes, 4 intervals and both modes; 2.4 million states | if the lengths fit, descriptors stay in the memory and cover the request; the chain is closed and holds nothing old, interrupts are where they belong, and a one-shot that validation accepts is not refused later for want of memory |
| `locks` | 5 threads, 3 of them clients in 2 processes that satisfy `MapsApart`; 33 thousand states | no circular wait; every call ends |
| `shared_map` | 2 channels, 1 mapping | violation: two channels on one mapping; the one-shot takes `active_channel` with it when it ends or fails, and an unlock or a close unmaps memory the stream still writes to |
| `stale_completion` | 1 channel, 1 mapping | violation: the work item of an expired transfer completes the next one |
| `revisit` | 1 channel, 3 pages, any workload up to 4 pages | violation: a workload that returns to a page is translated wrongly |
| `mutex_leak` | 1 device, 1 file | violation: after an early return of `mmap` the removal never resets the DMA hardware |

The four violations are disagreements between the code and its own comments; `PROJECT.json` quotes the comment for
each.

**Known deviations without a run.** What is known to break a passing run is excepted by a constant, by a
condition with a name in the property, or stated as a property that no run checks. To see one, change it:

| Where | Change | Violated |
|---|---|---|
| `dma.c:737` | `mixed`: check `FastMaskOnlyWhileStreaming` | a stream that fails to start leaves its bit in `fast_irq_mask` |
| `dma.c:749` | `mixed`: check `StreamKeepsRunning` | cancelling a channel that was never used resets channel 0 |
| `altera_pcie.h:168` | `translation`: check `NoWildWrite` | a full table is written in front of its first entry |
| `main.c:444` and the other `Races` | `lifecycle`: put a name in `Races` | `QuietWhenUnplugged`, `MemoryOutlivesUsers`, `StreamStateCounted` |
| `main.c:880`, `dma.c:84` | `lifecycle`: check `MappingsFreedOnce` | close and removal free a mapping twice |
| `main.c:464` | `stream`: check `HandlerNeverFaults` | a handler that is running when its stream is cancelled |
| `main.c:485` | `stream`: drop `lapped` from `ProducedIsReal` | a full lap between two looks is lost |
| `dma_descriptors.c:196`, `:284` | `descriptors`: drop `LengthsFit(req)`, or a part of it, from `WritesInBounds` | writes behind the memory, ranges that do not exist |
| `tpce_public.h:310`, `dma_descriptors.c:307` | `descriptors`: check `IntervalAsDocumented` | a one-shot ignores `interrupt_interval`, a stream with 0 raises no interrupt |
| `dma_descriptors.h:60` | `descriptors`: drop `req.m.off = 0` from `CoversRequest` | the first descriptor of an unaligned buffer misses its data |
| `dma.c:297` | `locks`: `Faulting = {p1, p2, q}` | `NoWaitCycle`: a thread that maps and one that faults under the mutex in the same process |

**Why the bounds are enough.** Two channels are needed for interference (shared `irqsrc`, shared table, mappings), and
the third in `dedicated` for a tasklet loop with two one-shots beside a stream. One file suffices in `DmaTransfer`
because files never run concurrently under `tpce->mutex` and own disjoint mappings; the driver's own mapping gives a
second owner. In `translation`, three slots for two channels with up to three different pages each make a start fail
at its descriptor page and at any later page, with and without another channel in the table, and leave holes that
later starts fill; four pages are the shortest workload that keeps, finds and allocates. Two files and one device let
each close overlap the removal and another close; two areas make the count of the stream state go up, down, and up
again. The proofs remove the bounds for every safety property a passing run checks. In `stream`, 5
descriptors go round the smallest ring five times and the largest once and a quarter; a ring as large as the range of
sequence numbers is among them, and a ring that is not a power of two takes the division. In `events`, each bit raised
twice gives a raise before, between and after read and clear, and two processes are enough to take the flag or the
events from one another. In `descriptors`, with pages of 2 units and transfers of up to 4 there are ranges shorter
than, as long as and longer than both, and 14 descriptors wrap the size of the memory around. Lengths wrap at 16,
which offset and length exceed together. In `locks`, two
processes give each edge between `mmap_lock` and the mutexes once with one thread and once with two.

**Fairness.** Clients are never fair: nobody has to call. System calls that have begun, the ISR, the softirq and the
work queue are weakly fair, because the kernel runs them to completion. `CallsReturn` also assumes that the device
finishes the one-shots it was given (`EngineFairness`); the code's answer to a device that does not is the timeout,
which `mixed` covers for safety. In `Lifecycle` the lock in `tpce_release` is strongly fair: other callers take and
drop the mutex for ever, and a Linux mutex is handed to a waiter that has waited long. `lifecycle` and `mutex_leak` do
not check deadlock: when the board is gone and every file is closed, or every call waits for a leaked mutex, nothing
more happens. In `StreamRing` an interrupt that is up reaches the handler, and handler and calls run on; the device is
not fair. In `HwEvents` the handler and the tasklet run on, and a process is an event loop that polls when it has
nothing to do and reads when it is told; the spinlock is strongly fair, since it is held for two register accesses.
`events` does not check deadlock: when no more events come and every process sleeps, nothing happens. In `LockOrder`
nobody has to call, a call goes on, and the locks are strongly fair: mutex and rwsem of the kernel hand over to those
who have waited.

## Proofs

TLAPS proves the following for every value of the constants that satisfies the named assumption of the module
(`TransferAssumption`, `PageAssumption`, and so on).

| Module | Theorem | Further assumptions |
|---|---|---|
| `DmaTransferProofs` | `TypeCorrect`, `UnmapNeverWarns` (`ActiveIsBusy`) | none |
| | `MapsOutliveTransfers` | `~ShareMaps` |
| `DmaDedicatedProofs` | `InterruptsAlwaysComeBack` | none |
| | `EnginesAreOwned`, `EnginesOnLiveMappings`, `CompletionsAreReal`, `FastMaskIsForStreams`, `CompletionsAreNotLost`, `WakeupsAreNotLost`, `ImplementsContract` | `DedicatedUse`: `~ShareMaps`, `~StreamStartFails`, `~WaitExpires`, and no channel used for both modes |
| `PageTableProofs` | `TableTypesCorrect`, `SlotsAreReturned` (`NoSlotLeaks`) | none |
| | `AddressesAreRight` (`TranslationRight`) | every workload satisfies `NeverReturns` |
| `LifecycleProofs` | `LifetimeTypesCorrect`, `NothingIsLeft` (`NothingLeaks`), `OnlyCloseMeets` (`OnlyCloseMeetsRemoval`) | none, whatever overlaps |
| | `MemoryIsThere` (`MemoryOutlivesUsers`) | no overlap `open`, `status`, `tasklet` |
| | `UnpluggedIsQuiet` (`QuietWhenUnplugged`) | no overlap `tasklet` |
| | `StreamStateStays` (`StreamStateCounted`) | no overlap `remap` |
| `StreamRingProofs` | `RingTypesCorrect`, `HandlerStaysSafe`, `ProducedStaysReal`, `SyncComesFirst` (`SyncedBeforePublished`) | none |
| `HwEventsProofs` | `EventTypesCorrect`, `NoEventIsLost`, `NoEventIsRepeated`, `NoPollerIsForgotten` (`EventsAnnounced`) | none |
| `DmaDescriptorsProofs` | `DescriptorTypesCorrect`, `ChainsAreClosed`, `InterruptsAreComplete`, `ReasonableRequestsPass` (`ReasonableIsAccepted`), `GeneratorInBounds` (`WritesInBounds`), `RequestsAreCovered` (`CoversRequest`) | none |
| `LockOrderProofs` | `NobodyWaitsInACircle` (`NoWaitCycle`) | `MapsApart` |

Each further assumption is one that a run or the table of known deviations shows to be needed. Where there is none, the
condition is in the property, where it can be read: `overtaken` in `StreamRing`, `LengthsFit` in `DmaDescriptors`.

The first three assumptions of `DedicatedUse` are not for convenience: `shared_map` and `stale_completion` are
counterexamples without the first and the third, and a failed stream start leaves its bit in the fast mask.
`ResetKeepsIrq` may have either value in every theorem.

**DmaTransfer.** The argument is layered. `TypeInv` adds to the types what `pc` says of `ch` and `unmap`, and that a
channel is idle exactly when it holds no mapping. `BusyInv` adds `ActiveIsBusy` and, for it to be inductive,
`UnmapOK`: between the two steps of an unmap that found its mapping busy, the mapping names the channel being halted.
`LentInv` adds the other direction, `MapOutlivesTransfer`, which is lost when a second channel overwrites
`active_channel`. `IrqInv` ties the enable register, ISR and tasklet together: the handler and the tasklet never
overlap. `DedicatedInv` joins these with four parts: `UseInv` (only a stream outlives the call that started it; any
other busy channel belongs to the call in progress), `FastInv` (the fast mask and its copy in the ISR hold stream
channels only), `EngineIsOwned`, and `NoticeInv` (a completion notice of a one-shot channel is the only one in the
interrupt path, and its transfer has in fact ended). `EngineIsOwned` is the heart: it gives `EngineOnLiveMapping` and
`CompletionIsReal` at once, and is not inductive alone, because a work item with an old notice would complete a
transfer that runs: `NoticeInv` excludes that. `CompletionNotLost` and `WakeupNotLost` are then inductive relative to
`DedicatedInv`.

`ImplementsContract` maps the existing mappings (`Mapped`), the mapping of each channel (`Lent`, where the engine has
the last word) and its phase (`PhaseOf`) to the abstract variables. By `EngineIsOwned`, `Lent` is `mapInfo`; every step of
the interrupt path is a stutter; the steps that start, finish and reset a transfer are `Launch`, `DeviceFinishes`
and `Release`; and `FreeMapping` is an `Unmap` because a mapping that names no channel is lent to none (`ActiveIsBusy`
and `MapOutlivesTransfer` together), and because it is a file's, never the driver's (`PinInv`).

**PageTable.** `NoSlotLeaks` is inductive with the types and `StartOK`, what a start in progress knows of its channel:
slots are freed by the channel they are marked with, so it is enough that every marked channel has a workload.
`TranslationRight` needs two invariants of the start (`StartRight`). `Translated`: every address given so far is a slot
of the channel that holds the page of its descriptor, and the channel has no other slots, so `PageFind` finds
nothing wrong. `Remembered`: `currPage` is the page first needed last and `slot` that of the last address;
`NeverReturns` turns this into "`KeepSlot` keeps the slot of `currPage`". `RunRight` then copies `Translated` to the
registers, which no other channel's start touches.

**Lifecycle.** One invariant serves all theorems; a conjunct that an overlap would break begins with that overlap's
name (`OpenOK`, `StatusOK`, parts of `QuietOK` and `CountOK`), so it is inductive whatever `Races` is. Its
heart are two counts. `RefsOK`: `refs` is the number of files that own a reference (`Holders`) plus the device's own,
so the structure of a device that is gone is there as long as somebody holds it. `StreamOK`: `streamRefs` is the
number of areas and mmaps in progress (`Clients`, pairs of a file and a number) plus the engine's, and at most one
call at a time is about to free the page. `HeldOK` reads what a device owns off the progress of its probe or removal,
and `QuietOK` gives the order in which the removal takes away interrupts, tasklet, work items and engine.

**StreamRing.** `Distance` of two positions is what the count advances by, short of whole laps (`DistanceIsAdvance`),
and `NextPosition` is the successor modulo the ring whether a mask or a division computes it (`NextIsSuccessor`, with
`MaskOK`). `RingOK` ties the positions `writeSeq` and `newSeq` to the counts `produced` and `seen`; `SyncOK` says what
the handler has walked over: all that is announced is synced unless the device has come round to it. `IsrOK` gives
`HandlerIsSafe`: a handler that is not overtaken finds the stream, its ring and its page, and with `CallOK`, which says
when the channel is masked, none enters between the mask and the end of a cancel. These parts, but for `CallOK`, are
about streams that are not overtaken.

**HwEvents.** `EventsNotLost` and `EventsAnnounced` are inductive with the types. `EventsNotRepeated` is not: between read
and clear an event is in INTSTAT and in `status` at once. `RaisesCounted` counts it once, by `Fresh`.

**DmaDescriptors.** `Inv` says what a request is known for, and that memory, plan, flags and links fit one another; it
gives the chain its shape, and `FetchedInOrder` the walk of the device in closed form. `FillInv` ties the progress of
the generator to the request and the plan: `Reached` is how far it has come in the buffer, `Covered` what is left to
do, if the lengths fit; without a fixed length `descIdx` is the sum planned for the ranges before (`Planned`), so the two loops end
together (`PlanExact`). With a fixed length the bounds of all ranges are multiples of it: `GcdDivisors` shows that
Euclid's algorithm gives the greatest common divisor, `GcdOfPages` what its repeated use over the ranges gives, and
`LengthFits` that a descriptor never takes more than is left of its range. `CoverOK` is about the descriptors made so
far. That the estimate is enough (`PlanIsSmall`) is a count of the pages a transfer touches, of which only the first
and the last are not used in full; it needs that ranges consist of pages but for the ends of the buffer, which
`DescriptorsAssumption` says. Recursive functions and sums are handled by induction over sets of numbers (`UpTo`), and
are shown to exist at all by `Iteration`.

**LockOrder.** What is left of a call is a program; `Leads(t, todo[t], Held(t), {})` says that it takes locks in one
order (`May`) from those the tables say the thread holds, and ends with none. This is proved of each call by
composition (`NoSteps`, `OneStep`, `Then`, `WithLeads`), and every step keeps it. A thread's next lock gives it a
`Place` in the order; whoever it waits for is further on (`WaitedForIsFurther`), so nobody waits in a circle, of any
length.

**Only model-checked.** The liveness properties (`CallsReturn`, `TeardownEnds`, `CatchesUp`, `EventsDelivered`,
`CallsEnd`), which are out of the prover's reach: they need fairness and `ENABLED`. Every safety property of a
passing run is a theorem.

## Not modelled

- The legacy reads' copying and scaling, register reads and writes other than the interrupt enable, module load and
  unload: data or pure I/O. `tpce_dma_stream_stop` has no caller.
- A reset that times out (`dma.c:764`): the model's reset stops the engine; otherwise `EngineOnLiveMapping` fails at once.
- The kernel's own reference to the embedded `cdev` (`main.c:154`): neither its taking nor its dropping is in this code.
- The memory of the file contexts, which `tpce_release` never frees (`main.c:157`), and a failing `device_create`, which
  the probe does not notice (`main.c:799`).
- The interrupt that arrives before `tpce_device_init` has initialised what the handler uses (`main.c:656`): the enable
  register is off at that time.
- The removal while a process sleeps in `poll` (`main.c:860`): nobody wakes it, and `HwEvents` is about devices that stay.
- The arguments in the shared `io_buffer`, which a concurrent `DMA_STATUS` may overwrite (`main.c:195`).
- The device addresses, strides and burst counts of descriptors, and the layout of chained scatter lists
  (`dma_descriptors.h:61`).

## Plan

The safety properties of the passing runs are proved. Left to do: an abstract specification of `HwEvents` (a multiset of
events that are raised and taken) with its refinement; the refinement of a lossless counter by `StreamRing`; and the
part of the removal that wakes nobody (`main.c:860`), as a run of its own if one is given up for it.
