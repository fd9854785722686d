------------------------------ MODULE Lifecycle ------------------------------
(***************************************************************************)
(* The lifetimes of the driver's objects (main.c, dma.c, request.c): a     *)
(* tpce_dev comes with tpce_device_init and goes with tpce_device_remove   *)
(* or with the last file that refers to it; files are opened through the   *)
(* table of minors, map buffers, start streams, map the stream state into  *)
(* user space and are closed at any time, before, during or after the      *)
(* removal; the tasklet and the work items outlive the interrupt they come *)
(* from.                                                                   *)
(*                                                                         *)
(* An ioctl holds tpce->mutex from the check of going_away to its end, so  *)
(* it is one step; open, release, the mmap error path and the removal are  *)
(* cut where they hold no mutex.  Transfers that do not outlive their call *)
(* are DmaTransfer's subject: the transfers here are streams.              *)
(*                                                                         *)
(* The code leaves some overlaps open.  Races names those that may happen; *)
(* each is a guard marked with its name:                                   *)
(*   open     an open call has found the device, which is then freed       *)
(*   status   TPCE_IOC_DMA_STATUS on a device without its io_buffer        *)
(*   tasklet  interrupts are enabled after a stale check of going_away     *)
(*   remap    the error path of mmap drops the stream state without mutex  *)
(* That tpce_release and tpce_dma_free walk the same mappings at once is   *)
(* not excluded.                                                           *)
(***************************************************************************)
EXTENDS Naturals

CONSTANTS Devs,      \* tpce_dev structures, one for each time a board appears
          Minors,    \* 0 .. TPCE_MAX_BOARDS-1
          Files,     \* struct file of the device node
          MaxVmas,   \* bound: areas a file has mapped, forked copies included
          Races,
          NoDev, NoFile, NoMinor, Driver,
          Lost       \* holder of a mutex whose call has returned

AllRaces == {"open", "status", "tasklet", "remap"}

ASSUME LifecycleAssumption ==
  /\ Minors \subseteq Nat /\ MaxVmas \in Nat /\ Races \subseteq AllRaces
  /\ NoDev \notin Devs /\ NoMinor \notin Minors
  /\ {NoFile, Driver, Lost} \cap Files = {}
  /\ Driver # NoFile /\ Lost # NoFile

VARIABLES
  devs,        \* tpce_devices.devs[]
  \* per device
  life,        \* progress of tpce_device_init and tpce_device_remove
  held,        \* what the device owns (Resources)
  minor, refs, goingAway,
  mutex,       \* file whose call holds tpce->mutex across steps, NoFile, or Lost
  cursor,      \* file whose mapping tpce_dma_free is about to free
  engine,      \* buffer a stream runs on: that of a file, Driver's, or NoFile
  streamRefs,  \* stream_info.state_refs
  irqOn, scheduled, tasklet, queued, \* interrupt enable, tl_descr, work items
  \* per file
  fd, ctx,     \* the call in progress; file_ctx->tpce
  mapped,      \* the file has a DMA mapping in xarray and sublist
  vmas         \* areas of the stream state it has mapped

irqVars == <<irqOn, scheduled, tasklet, queued>>
fileVars == <<fd, ctx, mapped, vmas>>
dmaVars == <<engine, streamRefs>>
vars == <<devs, life, held, minor, refs, goingAway, mutex, cursor, dmaVars,
          irqVars, fileVars>>

\* "struct": the tpce_dev; "pci": BARs and interrupt; "dma": the driver buffer
\* and the xarray; "stream": the page of the stream state.
Resources == {"struct", "io_buffer", "minor", "pci", "dma", "cdev", "stream"}

Init ==
  /\ devs = [m \in Minors |-> NoDev]
  /\ life = [d \in Devs |-> "absent"] /\ held = [d \in Devs |-> {}]
  /\ minor = [d \in Devs |-> NoMinor] /\ refs = [d \in Devs |-> 0]
  /\ goingAway = [d \in Devs |-> FALSE] /\ mutex = [d \in Devs |-> NoFile]
  /\ cursor = [d \in Devs |-> NoFile]
  /\ engine = [d \in Devs |-> NoFile] /\ streamRefs = [d \in Devs |-> 0]
  /\ irqOn = [d \in Devs |-> FALSE] /\ scheduled = [d \in Devs |-> FALSE]
  /\ tasklet = [d \in Devs |-> "off"] /\ queued = [d \in Devs |-> FALSE]
  /\ fd = [f \in Files |-> "closed"] /\ ctx = [f \in Files |-> NoDev]
  /\ mapped = [f \in Files |-> FALSE] /\ vmas = [f \in Files |-> 0]

Users(d, at) == {f \in Files : ctx[f] = d /\ fd[f] \in at}
-----------------------------------------------------------------------------
(* tpce_device_init.  Each step may fail; the goto chain then undoes the   *)
(* steps before it.                                                        *)

ErrorAlloc2   == {"struct"}
ErrorIda      == ErrorAlloc2 \cup {"io_buffer"}
ErrorPciInit  == ErrorIda \cup {"minor"}
ErrorDmaInit  == ErrorPciInit \cup {"pci"}
ErrorCdevAdd  == ErrorDmaInit \cup {"dma"}

Undo == [absent |-> {}, struct |-> ErrorAlloc2, io_buffer |-> ErrorIda,
         minor |-> ErrorPciInit, pci |-> ErrorDmaInit, dma |-> ErrorCdevAdd]

Acquire(d, at, what) ==
  /\ life[d] = at
  /\ life' = [life EXCEPT ![d] = what]
  /\ held' = [held EXCEPT ![d] = @ \cup {what}]

probeRest == <<devs, minor, refs, goingAway, mutex, cursor, dmaVars, irqVars,
               fileVars>>

ProbeAlloc(d) ==
  /\ Acquire(d, "absent", "struct") \/ Acquire(d, "struct", "io_buffer")
  /\ UNCHANGED probeRest

\* tpce_pci_init, from pci_enable_device to request_irq
ProbePci(d) == Acquire(d, "minor", "pci") /\ UNCHANGED probeRest

\* tpce_dma_init: the xarray and the driver buffer, or nothing
ProbeDma(d) == Acquire(d, "pci", "dma") /\ UNCHANGED probeRest

ProbeCdev(d) == Acquire(d, "dma", "cdev") /\ UNCHANGED probeRest

FreeMinors == {m \in Minors : \A d \in Devs : minor[d] # m}

\* The lowest free minor; the device enters the table with one reference.
ProbeMinor(d) ==
  /\ Acquire(d, "io_buffer", "minor")
  /\ \E m \in FreeMinors : /\ \A n \in FreeMinors : m <= n
                           /\ minor' = [minor EXCEPT ![d] = m]
                           /\ devs' = [devs EXCEPT ![m] = d]
  /\ refs' = [refs EXCEPT ![d] = 1]
  /\ UNCHANGED <<goingAway, mutex, cursor, dmaVars, irqVars, fileVars>>

Unlist(d) ==
  /\ devs' = [m \in Minors |-> IF m = minor[d] THEN NoDev ELSE devs[m]]
  /\ minor' = [minor EXCEPT ![d] = NoMinor]

ProbeFails(d) ==
  /\ life[d] \in DOMAIN Undo
  /\ held' = [held EXCEPT ![d] = @ \ Undo[life[d]]]
  /\ life' = [life EXCEPT ![d] = "gone"]
  /\ Unlist(d)
  /\ UNCHANGED <<refs, goingAway, mutex, cursor, dmaVars, irqVars, fileVars>>
-----------------------------------------------------------------------------
(* tpce_open                                                               *)

\* The driver looks up the table for a character device the kernel has found,
\* maybe before the removal deleted it.
OpenLookup(f, m) ==
  /\ fd[f] = "closed"
  /\ devs[m] # NoDev /\ life[devs[m]] \notin DOMAIN Undo
  /\ fd' = [fd EXCEPT ![f] = "check"]
  /\ ctx' = [ctx EXCEPT ![f] = devs[m]]
  /\ UNCHANGED <<devs, life, held, minor, refs, goingAway, mutex, cursor,
                 dmaVars, irqVars, mapped, vmas>>

OpenCheck(f) ==
  /\ fd[f] = "check"
  /\ \/ /\ goingAway[ctx[f]]
        /\ fd' = [fd EXCEPT ![f] = "closed"]
        /\ ctx' = [ctx EXCEPT ![f] = NoDev]
     \/ /\ ~goingAway[ctx[f]]
        /\ fd' = [fd EXCEPT ![f] = "ref"]
        /\ UNCHANGED ctx
  /\ UNCHANGED <<devs, life, held, minor, refs, goingAway, mutex, cursor,
                 dmaVars, irqVars, mapped, vmas>>

\* Mutant: no reference is taken.
OpenWithoutRef(f) ==
  /\ fd[f] = "ref"
  /\ fd' = [fd EXCEPT ![f] = "open"]
  /\ UNCHANGED <<devs, life, held, minor, refs, goingAway, mutex, cursor,
                 dmaVars, irqVars, ctx, mapped, vmas>>

OpenRef(f) ==
  /\ fd[f] = "ref"
  /\ refs' = [refs EXCEPT ![ctx[f]] = @ + 1]
  /\ fd' = [fd EXCEPT ![f] = "open"]
  /\ UNCHANGED <<devs, life, held, minor, goingAway, mutex, cursor, dmaVars,
                 irqVars, ctx, mapped, vmas>>
-----------------------------------------------------------------------------
(* stream_info.state: held' and streamRefs' of device d                    *)

\* Mutant: a state that exists already is not counted again.
InitStreamInfoOnce(d) ==
  /\ held' = [held EXCEPT ![d] = @ \cup {"stream"}]
  /\ streamRefs' = [streamRefs EXCEPT ![d] = IF @ = 0 THEN 1 ELSE @]

\* tpce_init_stream_info, and its inlined copy in tpce_mmap.
InitStreamInfo(d) == /\ held' = [held EXCEPT ![d] = @ \cup {"stream"}]
                     /\ streamRefs' = [streamRefs EXCEPT ![d] = @ + 1]

FreeStreamInfo(d) ==
  /\ streamRefs' = [streamRefs EXCEPT ![d] = @ - 1]
  /\ held' = [held EXCEPT ![d] = IF streamRefs[d] = 1 THEN @ \ {"stream"} ELSE @]

\* remap: a state whose last reference is gone is freed before anybody looks.
NoRemapRace(d) == "remap" \in Races \/ Users(d, {"remap_free"}) = {}

\* tpce_dma_abort and reset_dma_info of a running stream.
StopStream(d) ==
  \/ /\ engine[d] = NoFile
     /\ UNCHANGED <<held, dmaVars>>
  \/ /\ engine[d] # NoFile
     /\ NoRemapRace(d)
     /\ engine' = [engine EXCEPT ![d] = NoFile]
     /\ FreeStreamInfo(d)
-----------------------------------------------------------------------------
(* ioctl calls on an open file: tpce->mutex, then going_away.              *)

\* Mutant: going_away is not looked at.
CallWhenGone(f) == fd[f] = "open" /\ mutex[ctx[f]] = NoFile

Call(f) == /\ fd[f] = "open"
           /\ mutex[ctx[f]] = NoFile
           /\ ~goingAway[ctx[f]]

LockBuffer(f) ==
  /\ Call(f)
  /\ ~mapped[f]
  /\ mapped' = [mapped EXCEPT ![f] = TRUE]
  /\ UNCHANGED <<devs, life, held, minor, refs, goingAway, mutex, cursor,
                 dmaVars, irqVars, fd, ctx, vmas>>

\* tpce_safe_dma_unmap stops the stream on the mapping of f, if there is one.
SafeDmaUnmap(f) ==
  /\ mapped' = [mapped EXCEPT ![f] = FALSE]
  /\ IF engine[ctx[f]] = f THEN StopStream(ctx[f])
                           ELSE UNCHANGED <<held, dmaVars>>

UnlockBuffer(f) ==
  /\ Call(f)
  /\ mapped[f]
  /\ SafeDmaUnmap(f)
  /\ UNCHANGED <<devs, life, minor, refs, goingAway, mutex, cursor, irqVars,
                 fd, ctx, vmas>>

\* A stream on the buffer of the file or on the driver's.
ExecuteStream(f) ==
  /\ Call(f)
  /\ engine[ctx[f]] = NoFile
  /\ \E b \in {f, Driver} : /\ b = f => mapped[f]
                            /\ engine' = [engine EXCEPT ![ctx[f]] = b]
  /\ NoRemapRace(ctx[f])
  /\ InitStreamInfo(ctx[f])
  /\ UNCHANGED <<devs, life, minor, refs, goingAway, mutex, cursor, irqVars,
                 fileVars>>

Cancel(f) ==
  /\ Call(f)
  /\ StopStream(ctx[f])
  /\ UNCHANGED <<devs, life, minor, refs, goingAway, mutex, cursor, irqVars,
                 fileVars>>

\* TPCE_IOC_PCI_BAR_WRITE to the interrupt enable register.
EnableIrq(f) ==
  /\ Call(f)
  /\ irqOn' = [irqOn EXCEPT ![ctx[f]] = TRUE]
  /\ UNCHANGED <<devs, life, held, minor, refs, goingAway, mutex, cursor,
                 dmaVars, scheduled, tasklet, queued, fileVars>>

\* TPCE_IOC_DMA_STATUS takes no mutex and does not look at going_away.
\* status: clients do not ask for the status of a device they know is going.
StatusBegin(f) ==
  /\ fd[f] = "open"
  /\ "status" \in Races \/ ~goingAway[ctx[f]]
  /\ fd' = [fd EXCEPT ![f] = "status"]
  /\ UNCHANGED <<devs, life, held, minor, refs, goingAway, mutex, cursor,
                 dmaVars, irqVars, ctx, mapped, vmas>>

StatusEnd(f) ==
  /\ fd[f] = "status"
  /\ fd' = [fd EXCEPT ![f] = "open"]
  /\ UNCHANGED <<devs, life, held, minor, refs, goingAway, mutex, cursor,
                 dmaVars, irqVars, ctx, mapped, vmas>>
-----------------------------------------------------------------------------
(* tpce_mmap and the area's own callbacks                                  *)

\* The reference is taken under the mutex; the area is remapped without it.
Mmap(f) ==
  /\ Call(f)
  /\ vmas[f] < MaxVmas
  /\ NoRemapRace(ctx[f])
  /\ InitStreamInfo(ctx[f])
  /\ \/ /\ vmas' = [vmas EXCEPT ![f] = @ + 1]
        /\ UNCHANGED fd
     \/ /\ fd' = [fd EXCEPT ![f] = "remap"]
        /\ UNCHANGED vmas
  /\ UNCHANGED <<devs, life, minor, refs, goingAway, mutex, cursor, engine,
                 irqVars, ctx, mapped>>

\* Both early returns, -ENODEV and -ENOMEM, leave the mutex locked.
MmapReturnsEarly(f) ==
  /\ fd[f] = "open" /\ mutex[ctx[f]] = NoFile
  /\ goingAway[ctx[f]] \/ "stream" \notin held[ctx[f]]
  /\ mutex' = [mutex EXCEPT ![ctx[f]] = Lost]
  /\ UNCHANGED <<devs, life, held, minor, refs, goingAway, cursor, dmaVars,
                 irqVars, fileVars>>

\* error_remap: tpce_free_stream_info without the mutex, in two steps.
RemapDrop(f) ==
  /\ fd[f] = "remap"
  /\ streamRefs' = [streamRefs EXCEPT ![ctx[f]] = @ - 1]
  /\ fd' = [fd EXCEPT ![f] = IF streamRefs[ctx[f]] = 1 THEN "remap_free"
                                                       ELSE "open"]
  /\ UNCHANGED <<devs, life, held, minor, refs, goingAway, mutex, cursor,
                 engine, irqVars, ctx, mapped, vmas>>

RemapFree(f) ==
  /\ fd[f] = "remap_free"
  /\ held' = [held EXCEPT ![ctx[f]] = @ \ {"stream"}]
  /\ fd' = [fd EXCEPT ![f] = "open"]
  /\ UNCHANGED <<devs, life, minor, refs, goingAway, mutex, cursor, dmaVars,
                 irqVars, ctx, mapped, vmas>>

\* Mutant: the copy of an area is not counted.
VmaOpenWithoutRef(f) ==
  /\ vmas[f] \in 1 .. MaxVmas - 1
  /\ vmas' = [vmas EXCEPT ![f] = @ + 1]
  /\ UNCHANGED <<devs, life, held, minor, refs, goingAway, mutex, cursor,
                 dmaVars, irqVars, fd, ctx, mapped>>

\* fork or split of an area
VmaOpen(f) ==
  /\ vmas[f] \in 1 .. MaxVmas - 1
  /\ vmas' = [vmas EXCEPT ![f] = @ + 1]
  /\ streamRefs' = [streamRefs EXCEPT ![ctx[f]] = @ + 1]
  /\ UNCHANGED <<devs, life, held, minor, refs, goingAway, mutex, cursor,
                 engine, irqVars, fd, ctx, mapped>>

\* Mutant: the area keeps its reference.
VmaCloseKeepsRef(f) ==
  /\ vmas[f] > 0 /\ mutex[ctx[f]] = NoFile
  /\ vmas' = [vmas EXCEPT ![f] = @ - 1]
  /\ UNCHANGED <<devs, life, held, minor, refs, goingAway, mutex, cursor,
                 dmaVars, irqVars, fd, ctx, mapped>>

VmaClose(f) ==
  /\ vmas[f] > 0
  /\ mutex[ctx[f]] = NoFile
  /\ NoRemapRace(ctx[f])
  /\ vmas' = [vmas EXCEPT ![f] = @ - 1]
  /\ FreeStreamInfo(ctx[f])
  /\ UNCHANGED <<devs, life, minor, refs, goingAway, mutex, cursor, engine,
                 irqVars, fd, ctx, mapped>>
-----------------------------------------------------------------------------
(* tpce_release; the kernel calls it when no area refers to the file       *)

Close(f) ==
  /\ fd[f] = "open" /\ vmas[f] = 0
  /\ fd' = [fd EXCEPT ![f] = "release"]
  /\ UNCHANGED <<devs, life, held, minor, refs, goingAway, mutex, cursor,
                 dmaVars, irqVars, ctx, mapped, vmas>>

\* Mutant: the mappings of the file are forgotten.
ReleaseLockForgetsList(f) ==
  /\ fd[f] = "release" /\ mutex[ctx[f]] = NoFile
  /\ mutex' = [mutex EXCEPT ![ctx[f]] = f]
  /\ fd' = [fd EXCEPT ![f] = "unlock"]
  /\ UNCHANGED <<devs, life, held, minor, refs, goingAway, cursor, dmaVars,
                 irqVars, ctx, mapped, vmas>>

\* tpce_dma_free may have the mapping in hand already.
ReleaseLock(f) ==
  /\ fd[f] = "release"
  /\ mutex[ctx[f]] = NoFile
  /\ mutex' = [mutex EXCEPT ![ctx[f]] = f]
  /\ fd' = [fd EXCEPT ![f] = IF mapped[f] THEN "unmap" ELSE "unlock"]
  /\ UNCHANGED <<devs, life, held, minor, refs, goingAway, cursor, dmaVars,
                 irqVars, ctx, mapped, vmas>>

ReleaseUnmap(f) ==
  /\ fd[f] = "unmap"
  /\ SafeDmaUnmap(f)
  /\ fd' = [fd EXCEPT ![f] = "unlock"]
  /\ UNCHANGED <<devs, life, minor, refs, goingAway, mutex, cursor, irqVars,
                 ctx, vmas>>

\* Mutant: the mutex stays locked.
ReleaseWithoutUnlock(f) ==
  /\ fd[f] = "unlock"
  /\ fd' = [fd EXCEPT ![f] = "drop"]
  /\ UNCHANGED <<devs, life, held, minor, refs, goingAway, mutex, cursor,
                 dmaVars, irqVars, ctx, mapped, vmas>>

ReleaseUnlock(f) ==
  /\ fd[f] = "unlock"
  /\ mutex' = [mutex EXCEPT ![ctx[f]] = NoFile]
  /\ fd' = [fd EXCEPT ![f] = "drop"]
  /\ UNCHANGED <<devs, life, held, minor, refs, goingAway, cursor, dmaVars,
                 irqVars, ctx, mapped, vmas>>

\* The last reference frees the structure, here and in the removal.
DropRef(d) ==
  /\ refs' = [refs EXCEPT ![d] = @ - 1]
  /\ held' = [held EXCEPT ![d] = IF refs[d] = 1 THEN @ \ {"struct"} ELSE @]

ReleaseDrop(f) ==
  /\ fd[f] = "drop"
  /\ DropRef(ctx[f])
  /\ fd' = [fd EXCEPT ![f] = "closed"]
  /\ ctx' = [ctx EXCEPT ![f] = NoDev]
  /\ UNCHANGED <<devs, life, minor, goingAway, mutex, cursor, dmaVars, irqVars,
                 mapped, vmas>>
-----------------------------------------------------------------------------
(* Interrupts                                                              *)

\* tpce_isr, as far as it schedules the tasklet
Interrupt(d) ==
  /\ irqOn[d] /\ "pci" \in held[d]
  /\ irqOn' = [irqOn EXCEPT ![d] = FALSE]
  /\ scheduled' = [scheduled EXCEPT ![d] = TRUE]
  /\ UNCHANGED <<devs, life, held, minor, refs, goingAway, mutex, cursor,
                 dmaVars, tasklet, queued, fileVars>>

\* Its interrupt may be that of a channel, whose work item it queues.
TaskletRun(d) ==
  /\ scheduled[d] /\ tasklet[d] = "off"
  /\ scheduled' = [scheduled EXCEPT ![d] = FALSE]
  /\ tasklet' = [tasklet EXCEPT ![d] = "on"]
  /\ \/ queued' = [queued EXCEPT ![d] = TRUE]
     \/ UNCHANGED queued
  /\ UNCHANGED <<devs, life, held, minor, refs, goingAway, mutex, cursor,
                 dmaVars, irqOn, fileVars>>

\* going_away is read, and the register written in another step.
TaskletCheck(d) ==
  /\ tasklet[d] = "on"
  /\ tasklet' = [tasklet EXCEPT ![d] = IF goingAway[d] THEN "off" ELSE "enable"]
  /\ UNCHANGED <<devs, life, held, minor, refs, goingAway, mutex, cursor,
                 dmaVars, irqOn, scheduled, queued, fileVars>>

TaskletEnable(d) ==
  /\ tasklet[d] = "enable"
  /\ tasklet' = [tasklet EXCEPT ![d] = "off"]
  /\ irqOn' = [irqOn EXCEPT ![d] = TRUE]
  /\ UNCHANGED <<devs, life, held, minor, refs, goingAway, mutex, cursor,
                 dmaVars, scheduled, queued, fileVars>>

WorkRun(d) ==
  /\ queued[d]
  /\ queued' = [queued EXCEPT ![d] = FALSE]
  /\ UNCHANGED <<devs, life, held, minor, refs, goingAway, mutex, cursor,
                 dmaVars, irqOn, scheduled, tasklet, fileVars>>
-----------------------------------------------------------------------------
(* tpce_device_remove                                                      *)

Advance(d, from, to) == life[d] = from /\ life' = [life EXCEPT ![d] = to]

RemoveFlag(d) ==
  /\ Advance(d, "cdev", "flagged")
  /\ mutex[d] = NoFile
  /\ goingAway' = [goingAway EXCEPT ![d] = TRUE]
  /\ UNCHANGED <<devs, held, minor, refs, mutex, cursor, dmaVars, irqVars,
                 fileVars>>

RemoveCdev(d) ==
  /\ Advance(d, "flagged", "delisted")
  /\ held' = [held EXCEPT ![d] = @ \ {"cdev"}]
  /\ UNCHANGED <<devs, minor, refs, goingAway, mutex, cursor, dmaVars, irqVars,
                 fileVars>>

\* tasklet: none is between its check of going_away and the register.
RemoveIrq(d) ==
  /\ Advance(d, "delisted", "irq_off")
  /\ "tasklet" \in Races \/ tasklet[d] # "enable"
  /\ irqOn' = [irqOn EXCEPT ![d] = FALSE]
  /\ UNCHANGED <<devs, held, minor, refs, goingAway, mutex, cursor, dmaVars,
                 scheduled, tasklet, queued, fileVars>>

\* Mutant: tasklet_disable in place of tasklet_kill.
RemoveTaskletUnfinished(d) ==
  /\ Advance(d, "irq_off", "killed")
  /\ tasklet[d] = "off"
  /\ UNCHANGED <<devs, held, minor, refs, goingAway, mutex, cursor, dmaVars,
                 irqVars, fileVars>>

\* tasklet_kill waits for a scheduled tasklet to have run.
RemoveTasklet(d) ==
  /\ Advance(d, "irq_off", "killed")
  /\ ~scheduled[d] /\ tasklet[d] = "off"
  /\ UNCHANGED <<devs, held, minor, refs, goingAway, mutex, cursor, dmaVars,
                 irqVars, fileVars>>

\* cancel_work_sync
RemoveWork(d) ==
  /\ Advance(d, "killed", "cancelled")
  /\ queued' = [queued EXCEPT ![d] = FALSE]
  /\ UNCHANGED <<devs, held, minor, refs, goingAway, mutex, cursor, dmaVars,
                 irqOn, scheduled, tasklet, fileVars>>

RemoveReset(d) ==
  /\ Advance(d, "cancelled", "reset")
  /\ mutex[d] = NoFile
  /\ StopStream(d)
  /\ UNCHANGED <<devs, minor, refs, goingAway, mutex, cursor, irqVars, fileVars>>

\* tpce_dma_free, without the mutex: it finds a mapping, takes it from the
\* list of its file, and frees it, though the file itself may be at that.
RemoveFindMapping(d) ==
  /\ life[d] = "reset" /\ cursor[d] = NoFile
  /\ \E f \in Files : /\ ctx[f] = d /\ mapped[f]
                      /\ cursor' = [cursor EXCEPT ![d] = f]
  /\ UNCHANGED <<devs, life, held, minor, refs, goingAway, mutex, dmaVars,
                 irqVars, fileVars>>

RemoveMapping(d) ==
  /\ cursor[d] # NoFile
  /\ mapped' = [mapped EXCEPT ![cursor[d]] = @ /\ ctx[cursor[d]] # d]
  /\ cursor' = [cursor EXCEPT ![d] = NoFile]
  /\ UNCHANGED <<devs, life, held, minor, refs, goingAway, mutex, dmaVars,
                 irqVars, fd, ctx, vmas>>

RemoveDma(d) ==
  /\ Advance(d, "reset", "unmapped")
  /\ cursor[d] = NoFile
  /\ \A f \in Files : ctx[f] = d => ~mapped[f]
  /\ held' = [held EXCEPT ![d] = @ \ {"dma"}]
  /\ UNCHANGED <<devs, minor, refs, goingAway, mutex, cursor, dmaVars, irqVars,
                 fileVars>>

RemovePci(d) ==
  /\ Advance(d, "unmapped", "unplugged")
  /\ held' = [held EXCEPT ![d] = @ \ {"pci"}]
  /\ UNCHANGED <<devs, minor, refs, goingAway, mutex, cursor, dmaVars, irqVars,
                 fileVars>>

\* status: no DMA_STATUS call is using the I/O buffer.
RemoveTable(d) ==
  /\ Advance(d, "unplugged", "unlisted")
  /\ "status" \in Races \/ Users(d, {"status"}) = {}
  /\ Unlist(d)
  /\ held' = [held EXCEPT ![d] = @ \ {"minor", "io_buffer"}]
  /\ UNCHANGED <<refs, goingAway, mutex, cursor, dmaVars, irqVars, fileVars>>

\* open: no open call has the device in hand without a reference.
RemoveDrop(d) ==
  /\ Advance(d, "unlisted", "gone")
  /\ "open" \in Races \/ Users(d, {"check", "ref"}) = {}
  /\ DropRef(d)
  /\ UNCHANGED <<devs, minor, goingAway, mutex, cursor, dmaVars, irqVars,
                 fileVars>>
-----------------------------------------------------------------------------
Probe(d) == \/ ProbeAlloc(d) \/ ProbeMinor(d) \/ ProbePci(d) \/ ProbeDma(d)
            \/ ProbeCdev(d) \/ ProbeFails(d)

Remove(d) ==
  \/ RemoveCdev(d) \/ RemoveIrq(d) \/ RemoveTasklet(d) \/ RemoveWork(d)
  \/ RemoveReset(d) \/ RemoveFindMapping(d) \/ RemoveMapping(d)
  \/ RemoveDma(d) \/ RemovePci(d) \/ RemoveTable(d) \/ RemoveDrop(d)

BottomHalf(d) == \/ TaskletRun(d) \/ TaskletCheck(d) \/ TaskletEnable(d)
                 \/ WorkRun(d)

\* What a system call that has begun does next.
Continue(f) == \/ OpenCheck(f) \/ OpenRef(f) \/ StatusEnd(f) \/ RemapDrop(f)
               \/ RemapFree(f) \/ ReleaseUnmap(f) \/ ReleaseUnlock(f)
               \/ ReleaseDrop(f)

UserCall(f) ==
  \/ \E m \in Minors : OpenLookup(f, m)
  \/ LockBuffer(f) \/ UnlockBuffer(f) \/ ExecuteStream(f) \/ Cancel(f)
  \/ EnableIrq(f) \/ StatusBegin(f) \/ Mmap(f) \/ MmapReturnsEarly(f)
  \/ VmaOpen(f) \/ VmaClose(f) \/ Close(f)

Next == \/ \E d \in Devs : \/ Probe(d) \/ RemoveFlag(d) \/ Remove(d)
                           \/ Interrupt(d) \/ BottomHalf(d)
        \/ \E f \in Files : UserCall(f) \/ ReleaseLock(f) \/ Continue(f)

Spec == Init /\ [][Next]_vars

\* A removal, a softirq, a work item and a system call go on until they are
\* done, and a mutex is handed to those who wait for it.
Fairness ==
  /\ \A d \in Devs : WF_vars(Remove(d)) /\ WF_vars(BottomHalf(d))
  /\ \A f \in Files : WF_vars(Continue(f)) /\ SF_vars(ReleaseLock(f))

FairSpec == Spec /\ Fairness
-----------------------------------------------------------------------------
(* Properties                                                              *)

ProbeStages == {"absent", "struct", "io_buffer", "minor", "pci", "dma", "cdev"}
RemoveStages == {"flagged", "delisted", "irq_off", "killed", "cancelled",
                 "reset", "unmapped", "unplugged", "unlisted"}
AfterReset == {"reset", "unmapped", "unplugged", "unlisted", "gone"}
OpenStages == {"closed", "check", "ref"}
CloseStages == {"release", "unmap", "unlock", "drop"}

\* Every variable has its type.
TypeOK ==
  /\ devs \in [Minors -> Devs \cup {NoDev}]
  /\ life \in [Devs -> ProbeStages \cup RemoveStages \cup {"gone"}]
  /\ held \in [Devs -> SUBSET Resources]
  /\ minor \in [Devs -> Minors \cup {NoMinor}]
  /\ refs \in [Devs -> Nat] /\ streamRefs \in [Devs -> Nat]
  /\ goingAway \in [Devs -> BOOLEAN]
  /\ mutex \in [Devs -> Files \cup {NoFile, Lost}]
  /\ cursor \in [Devs -> Files \cup {NoFile}]
  /\ engine \in [Devs -> Files \cup {Driver, NoFile}]
  /\ irqOn \in [Devs -> BOOLEAN] /\ scheduled \in [Devs -> BOOLEAN]
  /\ tasklet \in [Devs -> {"off", "on", "enable"}]
  /\ queued \in [Devs -> BOOLEAN]
  /\ fd \in [Files -> OpenStages \cup CloseStages \cup
                      {"open", "status", "remap", "remap_free"}]
  /\ ctx \in [Files -> Devs \cup {NoDev}]
  /\ mapped \in [Files -> BOOLEAN] /\ vmas \in [Files -> 0 .. MaxVmas]

\* Whoever can still reach the tpce_dev finds its memory: a call in progress,
\* an open file, the tasklet, a work item, the removal, the table of minors;
\* and DMA_STATUS copies its arguments into a buffer the driver still owns.
MemoryOutlivesUsers ==
  /\ \A f \in Files : /\ fd[f] # "closed" => "struct" \in held[ctx[f]]
                      /\ fd[f] = "status" => "io_buffer" \in held[ctx[f]]
  /\ \A d \in Devs : \/ scheduled[d] \/ tasklet[d] # "off" \/ queued[d]
                     \/ life[d] \in RemoveStages
                     => "struct" \in held[d]
  /\ \A m \in Minors : devs[m] # NoDev => "struct" \in held[devs[m]]

\* Interrupts are disabled "so bottom half does not get scheduled" (main.c:862):
\* once the removal has killed the tasklet it is not scheduled again, and when the
\* BARs are unmapped nothing is left that would use them.
QuietWhenUnplugged ==
  \A d \in Devs :
    /\ life[d] \in RemoveStages \ {"flagged", "delisted", "irq_off"} =>
         ~scheduled[d] /\ tasklet[d] = "off"
    /\ "pci" \notin held[d] =>
         /\ engine[d] = NoFile /\ ~irqOn[d]
         /\ ~scheduled[d] /\ tasklet[d] = "off" /\ ~queued[d]

\* A mapping that tpce_release or tpce_dma_free has in hand goes away under it
\* through the other of the two only, which share no lock: the removal loses one
\* to a close that has just unmapped it, a close loses one to a removal that has
\* reset the hardware.  No ioctl frees what either of them holds, and a file that
\* is gone has left no mapping.
OnlyCloseMeetsRemoval ==
  /\ \A d \in Devs, f \in Files :
       cursor[d] = f /\ ctx[f] = d /\ fd[f] \notin {"unlock", "drop", "check"}
         => mapped[f]
  /\ \A f \in Files :
       /\ fd[f] = "unmap" /\ ~mapped[f] => life[ctx[f]] \in AfterReset
       /\ mapped[f] => fd[f] \notin OpenStages

\* Not an invariant, as the two do meet: each then frees what the other has freed.
MappingsFreedOnce ==
  /\ \A d \in Devs : cursor[d] # NoFile => mapped[cursor[d]]
  /\ \A f \in Files : fd[f] = "unmap" => mapped[f]

\* The page of the stream state is there exactly while somebody counts on it,
\* so neither user space nor the interrupt handler sees it freed.
StreamStateCounted ==
  /\ \A d \in Devs : /\ streamRefs[d] > 0 => "stream" \in held[d]
                     /\ engine[d] # NoFile => streamRefs[d] > 0
  /\ \A f \in Files : vmas[f] > 0 \/ fd[f] = "remap" => streamRefs[ctx[f]] > 0

\* After a failed probe, and after the removal and the last close, nothing of
\* the device is left: no memory, no minor, no interrupt, no stream state.  (The
\* file contexts, which tpce_release never frees, are not the device's.)
NothingLeaks ==
  \A d \in Devs : life[d] = "gone" /\ (\A f \in Files : ctx[f] # d)
                    => held[d] = {} /\ streamRefs[d] = 0

\* An early return of mmap holds the mutex of the device for ever.
Leaked(d) == mutex[d] = Lost

\* A removal ends, whatever calls are in progress, unless mmap has locked up
\* the device.
RemovalEnds ==
  \A d \in Devs : life[d] = "flagged" ~> life[d] = "gone" \/ Leaked(d)

\* A close ends, unless mmap has locked up the device.
ClosesEnd ==
  \A f \in Files : fd[f] = "release" ~>
                     fd[f] = "closed" \/ \E d \in Devs : Leaked(d)

\* Both ways to take a device down come to an end.
TeardownEnds == RemovalEnds /\ ClosesEnd

\* The removal resets the DMA hardware (main.c:852).
RemovalResetsDma == \A d \in Devs : goingAway[d] ~> engine[d] = NoFile
=============================================================================
