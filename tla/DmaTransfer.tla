----------------------------- MODULE DmaTransfer -----------------------------
(***************************************************************************)
(* The transfer core of the driver: DMA mappings, the three DMA channels,  *)
(* the ioctl and close paths that start, await, cancel and tear down       *)
(* transfers (request.c, dma.c, tpce_release), and the interrupt path that *)
(* reports completions (tpce_isr, tpce_tasklet, tpce_dma_work in main.c),  *)
(* beside the DMA engines that run on their own.                           *)
(*                                                                         *)
(* tpce->mutex serialises the calls and is held for the whole of each, so  *)
(* one call is in progress at most: it is the variables caller, pc, ch,    *)
(* unmap and closing.  dma_info->mutex is held by that call exactly while  *)
(* pc is "start" or "halt" (DmaLocked), and by the work item within one    *)
(* step.                                                                   *)
(***************************************************************************)
EXTENDS Naturals

CONSTANTS
  Files,            \* open file descriptors of the device (tpce_file_ctx)
  Channels,         \* DMA channels, 0 .. TPCE_DMA_NUM_CHANNELS-1
  MapIds,           \* identifiers handed out for DMA mappings
  DriverMaps,       \* the mappings the driver makes for itself at probe
  NoFile, Driver, Free, NoMap, NoChannel,
  ModesOf,          \* ModesOf[c]: the transfer modes clients use channel c for
  ShareMaps,        \* clients may start a second channel on a busy mapping
  StreamStartFails, \* starting a stream may fail (TO_DEVICE, full page table)
  WaitExpires,      \* a one-shot wait may time out or be killed
  ResetKeepsIrq     \* a reset engine may leave its interrupt up

Modes == {"DEFAULT", "STREAM"}

ASSUME TransferAssumption ==
  /\ Channels \subseteq Nat /\ 0 \in Channels /\ NoChannel \notin Channels
  /\ DriverMaps \subseteq MapIds /\ NoMap \notin MapIds
  /\ NoFile \notin Files /\ Driver \notin Files /\ Free \notin Files
  /\ Driver # Free
  /\ ModesOf \in [Channels -> SUBSET Modes]
  /\ ShareMaps \in BOOLEAN /\ StreamStartFails \in BOOLEAN
  /\ WaitExpires \in BOOLEAN /\ ResetKeepsIrq \in BOOLEAN

VARIABLES
  \* the call that holds tpce->mutex
  caller,           \* file descriptor it came through, NoFile if there is none
  pc,               \* where it is
  ch,               \* channel it works on
  unmap,            \* mapping it is about to free
  closing,          \* it is tpce_release
  \* tpce_dma_map_info
  owner,            \* file context, Driver, or Free when the id is unused
  activeChannel,
  \* tpce_dma_info
  state, mode, mapInfo,
  paramsChannel,    \* params.channel, 0 until the channel is first used
  \* interrupt path
  fastIrqMask,      \* tpce->fast_irq_mask, as the set of its channels
  irqEnabled,       \* ALTERA_PCIE_IRQ_ENABLE_REG
  irqStatus,        \* ALTERA_PCIE_IRQ_STATUS_REG: channels with an interrupt up
  isr, isrReg, isrFast, \* tpce_isr: progress, irqreg and irqreg_fm
  irqsrc, scheduled,    \* tpce->irqsrc; tl_descr is scheduled
  tasklet, taskletSrc,  \* tpce_tasklet: progress and its copy of irqsrc
  queued, work,     \* work items: pending ones, and progress of the running ones
  \* hardware
  engine            \* what the mSGDMA of a channel is doing

callVars  == <<caller, pc, ch, unmap, closing>>
mapVars   == <<owner, activeChannel>>
chanVars  == <<state, mode, mapInfo, paramsChannel>>
isrVars   == <<isr, isrReg, isrFast>>
softVars  == <<irqsrc, scheduled, tasklet, taskletSrc>>
workVars  == <<queued, work>>
irqVars   == <<irqEnabled, irqStatus, isrVars, softVars, workVars>>
vars == <<callVars, mapVars, chanVars, fastIrqMask, irqVars, engine>>

Stopped == [to |-> NoMap, mode |-> "off"]
Inactive == NoChannel    \* TPCE_MAP_INACTIVE
Lowest(c, S) == c \in S /\ \A d \in S : c <= d

\* dma_info[c].mutex is held by the call in progress.
DmaLocked(c) == pc \in {"start", "halt"} /\ ch = c

Init ==
  /\ caller = NoFile /\ pc = "idle" /\ ch = NoChannel /\ unmap = NoMap
  /\ closing = FALSE
  /\ owner = [id \in MapIds |-> IF id \in DriverMaps THEN Driver ELSE Free]
  /\ activeChannel = [id \in MapIds |-> Inactive]
  /\ state = [c \in Channels |-> "IDLE"]
  /\ mode = [c \in Channels |-> "DEFAULT"]
  /\ mapInfo = [c \in Channels |-> NoMap]
  /\ paramsChannel = [c \in Channels |-> 0]   \* kzalloc
  /\ fastIrqMask = {}
  /\ irqEnabled = TRUE   \* clients write the enable register once, through a BAR
  /\ irqStatus = {}
  /\ isr = "off" /\ isrReg = {} /\ isrFast = {}
  /\ irqsrc = {} /\ scheduled = FALSE
  /\ tasklet = "off" /\ taskletSrc = {}
  /\ queued = {} /\ work = [c \in Channels |-> "off"]
  /\ engine = [c \in Channels |-> Stopped]
-----------------------------------------------------------------------------
(* Helpers of the calls                                                    *)

CallReturns == /\ caller' = NoFile /\ pc' = "idle" /\ ch' = NoChannel
               /\ unmap' = NoMap /\ closing' = FALSE

EnableStreamIrq(c)  == fastIrqMask' = fastIrqMask \cup {c}
DisableStreamIrq(c) == fastIrqMask' = fastIrqMask \ {c}

\* Mutant: the reset bit of the dispatcher is never written.
ResetWithoutStop(c) == UNCHANGED <<engine, irqStatus>>

\* A reset stops the engine.  The code relies on nothing about an interrupt
\* that is up already: the device may take it back or leave it.
ResetDmaController(c) == /\ engine' = [engine EXCEPT ![c] = Stopped]
                         /\ \/ irqStatus' = irqStatus \ {c}
                            \/ ResetKeepsIrq /\ UNCHANGED irqStatus

\* Mutant: the mapping goes on naming the channel.
ResetKeepsActiveChannel(c) ==
  /\ state' = [state EXCEPT ![c] = "IDLE"]
  /\ mapInfo' = [mapInfo EXCEPT ![c] = NoMap]
  /\ UNCHANGED activeChannel

\* Gives the channel's mapping back, unless the channel is idle already.
ResetDmaInfo(c) ==
  \/ /\ state[c] = "IDLE"
     /\ UNCHANGED <<activeChannel, state, mapInfo>>
  \/ /\ state[c] # "IDLE"
     /\ activeChannel' = [activeChannel EXCEPT ![mapInfo[c]] = Inactive]
     /\ mapInfo' = [mapInfo EXCEPT ![c] = NoMap]
     /\ state' = [state EXCEPT ![c] = "IDLE"]

\* Mutant: the channel stays in fast_irq_mask.
BeginAbortInFastMask(c) == ch' = c /\ pc' = "halt" /\ UNCHANGED fastIrqMask

\* tpce_dma_abort takes two steps, this one and Halt, so that the interrupt
\* path can get in between.
BeginAbort(c) == /\ DisableStreamIrq(c)
                 /\ ch' = c
                 /\ pc' = "halt"
-----------------------------------------------------------------------------
(* DMA mappings: TPCE_IOC_LOCK_DMA_BUFFER and TPCE_IOC_UNLOCK_DMA_BUFFER   *)

LockBuffer(f, id) ==
  /\ pc = "idle"
  /\ owner[id] = Free
  /\ owner' = [owner EXCEPT ![id] = f]
  /\ activeChannel' = [activeChannel EXCEPT ![id] = Inactive]
  /\ UNCHANGED <<callVars, chanVars, fastIrqMask, irqVars, engine>>

\* Mutant: activeChannel is not looked at.
UnmapWithoutAbort(id) ==
  /\ unmap' = id /\ pc' = "free"
  /\ UNCHANGED <<ch, fastIrqMask, mapVars, chanVars, irqVars, engine>>

\* tpce_safe_dma_unmap: a busy mapping stops the channel it names first.
SafeDmaUnmap(id) ==
  /\ unmap' = id
  /\ \/ /\ activeChannel[id] \in Channels
        /\ BeginAbort(activeChannel[id])
     \/ /\ activeChannel[id] = Inactive
        /\ pc' = "free"
        /\ UNCHANGED <<ch, fastIrqMask>>
  /\ UNCHANGED <<mapVars, chanVars, irqVars, engine>>

UnlockBuffer(f, id) ==
  /\ pc = "idle"
  /\ owner[id] = f
  /\ caller' = f
  /\ SafeDmaUnmap(id)
  /\ UNCHANGED closing

\* tpce_dma_unlock_user_buffer, the last step of every unmap.
FreeMapping ==
  /\ pc = "free"
  /\ owner' = [owner EXCEPT ![unmap] = Free]
  /\ \/ /\ closing
        /\ pc' = "closing" /\ unmap' = NoMap /\ ch' = NoChannel
        /\ UNCHANGED <<caller, closing>>
     \/ /\ ~closing
        /\ CallReturns
  /\ UNCHANGED <<activeChannel, chanVars, fastIrqMask, irqVars, engine>>

\* tpce_release unmaps what the file still has mapped, one by one.
Close(f) ==
  /\ pc = "idle"
  /\ caller' = f /\ pc' = "closing" /\ closing' = TRUE
  /\ UNCHANGED <<ch, unmap, mapVars, chanVars, fastIrqMask, irqVars, engine>>

CloseNext ==
  /\ pc = "closing"
  /\ \/ \E id \in MapIds : /\ owner[id] = caller
                           /\ SafeDmaUnmap(id)
                           /\ UNCHANGED <<caller, closing>>
     \/ /\ \A id \in MapIds : owner[id] # caller
        /\ CallReturns
        /\ UNCHANGED <<mapVars, chanVars, fastIrqMask, irqVars, engine>>
-----------------------------------------------------------------------------
(* Transfers: TPCE_IOC_DMA_EXECUTE and TPCE_IOC_DMA_CANCEL                 *)

\* validate_dma_request does not look at activeChannel: that clients do not
\* start a second channel on a busy mapping is an assumption, unless ShareMaps.
ValidRequest(f, c, id) ==
  /\ owner[id] \in {f, Driver}
  /\ state[c] = "IDLE"
  /\ ShareMaps \/ activeChannel[id] = Inactive

\* Mutant: the mapping does not name the channel.
InitWithoutActiveChannel(c, id, m) ==
  /\ mode' = [mode EXCEPT ![c] = m]
  /\ paramsChannel' = [paramsChannel EXCEPT ![c] = c]
  /\ mapInfo' = [mapInfo EXCEPT ![c] = id]
  /\ state' = [state EXCEPT ![c] = "INITIALIZED"]
  /\ UNCHANGED activeChannel

InitDmaInfo(c, id, m) ==
  /\ mode' = [mode EXCEPT ![c] = m]
  /\ paramsChannel' = [paramsChannel EXCEPT ![c] = c]
  /\ mapInfo' = [mapInfo EXCEPT ![c] = id]
  /\ state' = [state EXCEPT ![c] = "INITIALIZED"]
  /\ activeChannel' = [activeChannel EXCEPT ![id] = c]

\* Up to the programming of the engine.  A stream's bit of fast_irq_mask is
\* set before the engine is known to start.
Execute(f, c, id, m) ==
  /\ pc = "idle"
  /\ m \in ModesOf[c]
  /\ ValidRequest(f, c, id)
  /\ InitDmaInfo(c, id, m)
  /\ \/ m = "STREAM" /\ EnableStreamIrq(c)
     \/ m = "DEFAULT" /\ UNCHANGED fastIrqMask
  /\ caller' = f /\ pc' = "start" /\ ch' = c
  /\ UNCHANGED <<unmap, closing, owner, irqVars, engine>>

\* A stream is left running when the call returns; a one-shot is awaited.
StartDma ==
  /\ pc = "start"
  /\ engine' = [engine EXCEPT ![ch] = [to |-> mapInfo[ch], mode |-> mode[ch]]]
  /\ state' = [state EXCEPT ![ch] = "RUNNING"]
  /\ \/ mode[ch] = "STREAM" /\ CallReturns
     \/ /\ mode[ch] = "DEFAULT"
        /\ pc' = "wait"
        /\ UNCHANGED <<caller, ch, unmap, closing>>
  /\ UNCHANGED <<mapVars, mode, mapInfo, paramsChannel, fastIrqMask, irqVars>>

\* Address translation fails: of the descriptor page (the state stays), or of a
\* data page (ERROR).  fast_irq_mask keeps the bit of a stream.
FailStart ==
  /\ pc = "start"
  /\ mode[ch] = "STREAM" => StreamStartFails
  /\ \E s \in {"INITIALIZED", "ERROR"} : state' = [state EXCEPT ![ch] = s]
  /\ pc' = "reset"
  /\ UNCHANGED <<caller, ch, unmap, closing, mapVars, mode, mapInfo,
                 paramsChannel, fastIrqMask, irqVars, engine>>

\* wait_event: the condition is evaluated before the thread goes to sleep and
\* again after each wake-up.
CheckCompleted ==
  /\ pc = "wait"
  /\ pc' = IF state[ch] = "RUNNING" THEN "asleep" ELSE "reset"
  /\ UNCHANGED <<caller, ch, unmap, closing, mapVars, chanVars, fastIrqMask,
                 irqVars, engine>>

\* The two seconds are over, or a fatal signal arrives.
WaitExpired ==
  /\ WaitExpires
  /\ pc = "asleep"
  /\ pc' = "reset"
  /\ UNCHANGED <<caller, ch, unmap, closing, mapVars, chanVars, fastIrqMask,
                 irqVars, engine>>

\* The cleanup of dma_execute: only a channel still RUNNING is aborted.
Cleanup ==
  /\ pc = "reset"
  /\ \/ /\ state[ch] = "RUNNING"
        /\ BeginAbort(ch)
        /\ UNCHANGED <<caller, unmap, closing, activeChannel, state, mapInfo>>
     \/ /\ state[ch] # "RUNNING"
        /\ ResetDmaInfo(ch)
        /\ CallReturns
        /\ UNCHANGED fastIrqMask
  /\ UNCHANGED <<owner, mode, paramsChannel, irqVars, engine>>

\* ioc_dma_cancel: any file, any channel, in any state.
Cancel(f, c) ==
  /\ pc = "idle"
  /\ caller' = f
  /\ BeginAbort(c)
  /\ UNCHANGED <<unmap, closing, mapVars, chanVars, irqVars, engine>>

\* The rest of an abort and the reset_dma_info that follows it everywhere.  The
\* controller that is reset is that of params.channel: channel 0 when the
\* channel has never been used.
Halt ==
  /\ pc = "halt"
  /\ ResetDmaController(paramsChannel[ch])
  /\ ResetDmaInfo(ch)
  /\ \/ /\ unmap # NoMap
        /\ pc' = "free"
        /\ UNCHANGED <<caller, ch, unmap, closing>>
     \/ /\ unmap = NoMap
        /\ CallReturns
  /\ UNCHANGED <<owner, mode, paramsChannel, fastIrqMask, irqEnabled, isrVars,
                 softVars, workVars>>
-----------------------------------------------------------------------------
(* The DMA engines                                                         *)

\* A one-shot reaches its terminating descriptor.
EngineFinishes(c) ==
  /\ engine[c].mode = "DEFAULT"
  /\ engine' = [engine EXCEPT ![c] = Stopped]
  /\ irqStatus' = irqStatus \cup {c}
  /\ UNCHANGED <<callVars, mapVars, chanVars, fastIrqMask, irqEnabled, isrVars,
                 softVars, workVars>>

\* A stream passes a descriptor with the interrupt flag and goes on.
EngineAdvances(c) ==
  /\ engine[c].mode = "STREAM"
  /\ c \notin irqStatus
  /\ irqStatus' = irqStatus \cup {c}
  /\ UNCHANGED <<callVars, mapVars, chanVars, fastIrqMask, irqEnabled, isrVars,
                 softVars, workVars, engine>>
-----------------------------------------------------------------------------
(* tpce_isr                                                                *)

IsrEnter ==
  /\ isr = "off"
  /\ irqEnabled
  /\ irqStatus # {}
  /\ isr' = "status"
  /\ isrReg' = irqStatus
  /\ UNCHANGED <<callVars, mapVars, chanVars, fastIrqMask, irqEnabled,
                 irqStatus, isrFast, softVars, workVars, engine>>

IsrLoadMask ==
  /\ isr = "status"
  /\ isr' = "dispatch"
  /\ isrFast' = isrReg \cap fastIrqMask
  /\ isrReg' = isrReg \ fastIrqMask
  /\ UNCHANGED <<callVars, mapVars, chanVars, fastIrqMask, irqEnabled,
                 irqStatus, softVars, workVars, engine>>

\* dma_stream_irq_handler: here, that it acknowledges the interrupt.
IsrStream ==
  /\ isr = "dispatch"
  /\ \E c \in isrFast : /\ Lowest(c, isrFast)
                        /\ irqStatus' = irqStatus \ {c}
                        /\ isrFast' = isrFast \ {c}
  /\ UNCHANGED <<callVars, mapVars, chanVars, fastIrqMask, irqEnabled, isr,
                 isrReg, softVars, workVars, engine>>

\* What is left goes to the tasklet, with interrupts off until it has run.
IsrExit ==
  /\ isr = "dispatch"
  /\ isrFast = {}
  /\ isr' = "off" /\ isrReg' = {}
  /\ \/ /\ isrReg = {}
        /\ UNCHANGED <<irqEnabled, irqsrc, scheduled>>
     \/ /\ isrReg # {}
        /\ irqEnabled' = FALSE
        /\ irqsrc' = irqsrc \cup isrReg
        /\ scheduled' = TRUE
  /\ UNCHANGED <<callVars, mapVars, chanVars, fastIrqMask, irqStatus, isrFast,
                 tasklet, taskletSrc, workVars, engine>>
-----------------------------------------------------------------------------
(* tpce_tasklet                                                            *)

\* Mutant: irqsrc is read and not cleared.
TaskletStartKeepsIrqsrc ==
  /\ tasklet = "off" /\ scheduled
  /\ scheduled' = FALSE /\ tasklet' = "on" /\ taskletSrc' = irqsrc
  /\ UNCHANGED <<callVars, mapVars, chanVars, fastIrqMask, irqEnabled,
                 irqStatus, isrVars, irqsrc, workVars, engine>>

TaskletStart ==
  /\ tasklet = "off"
  /\ scheduled
  /\ scheduled' = FALSE
  /\ tasklet' = "on"
  /\ taskletSrc' = irqsrc
  /\ irqsrc' = {}
  /\ UNCHANGED <<callVars, mapVars, chanVars, fastIrqMask, irqEnabled,
                 irqStatus, isrVars, workVars, engine>>

\* Mutant: every interrupt is acknowledged, one work item is queued.
TaskletAcknowledgesAll ==
  /\ tasklet = "on"
  /\ \E c \in taskletSrc : /\ Lowest(c, taskletSrc)
                           /\ queued' = queued \cup {c}
                           /\ taskletSrc' = taskletSrc \ {c}
  /\ irqStatus' = {}
  /\ UNCHANGED <<callVars, mapVars, chanVars, fastIrqMask, irqEnabled, isrVars,
                 irqsrc, scheduled, tasklet, work, engine>>

\* Mutant: the work item of the next channel is queued.
TaskletQueuesNext ==
  /\ tasklet = "on"
  /\ \E c \in taskletSrc : /\ Lowest(c, taskletSrc)
                           /\ irqStatus' = irqStatus \ {c}
                           /\ queued' = queued \cup {c + 1}
                           /\ taskletSrc' = taskletSrc \ {c}
  /\ UNCHANGED <<callVars, mapVars, chanVars, fastIrqMask, irqEnabled, isrVars,
                 irqsrc, scheduled, tasklet, work, engine>>

\* Acknowledges one channel's interrupt and queues its work item.
TaskletChannel ==
  /\ tasklet = "on"
  /\ \E c \in taskletSrc : /\ Lowest(c, taskletSrc)
                           /\ irqStatus' = irqStatus \ {c}
                           /\ queued' = queued \cup {c}
                           /\ taskletSrc' = taskletSrc \ {c}
  /\ UNCHANGED <<callVars, mapVars, chanVars, fastIrqMask, irqEnabled, isrVars,
                 irqsrc, scheduled, tasklet, work, engine>>

TaskletDone ==
  /\ tasklet = "on"
  /\ taskletSrc = {}
  /\ tasklet' = "off"
  /\ irqEnabled' = TRUE
  /\ UNCHANGED <<callVars, mapVars, chanVars, fastIrqMask, irqStatus, isrVars,
                 irqsrc, scheduled, taskletSrc, workVars, engine>>
-----------------------------------------------------------------------------
(* tpce_dma_work: the channel's work item runs, is not reentrant, and may  *)
(* be queued again while it runs.                                          *)

WorkStart(c) ==
  /\ c \in queued
  /\ work[c] = "off"
  /\ queued' = queued \ {c}
  /\ work' = [work EXCEPT ![c] = "complete"]
  /\ UNCHANGED <<callVars, mapVars, chanVars, fastIrqMask, irqEnabled,
                 irqStatus, isrVars, softVars, engine>>

\* Mutant: the mode of the transfer is not looked at.
CompletionOfAnyMode(c) ==
  state' = [state EXCEPT ![c] = IF @ = "RUNNING" THEN "COMPLETE" ELSE @]

\* tpce_dma_completion, called with dma_info->mutex held.
DmaCompletion(c) ==
  IF mode[c] # "STREAM" /\ state[c] = "RUNNING"
    THEN state' = [state EXCEPT ![c] = "COMPLETE"]
    ELSE UNCHANGED state

\* Mutant: the work item ends without wake_up.
WorkCompleteWithoutWake(c) ==
  /\ work[c] = "complete"
  /\ ~DmaLocked(c)
  /\ DmaCompletion(c)
  /\ work' = [work EXCEPT ![c] = "off"]
  /\ UNCHANGED <<callVars, mapVars, mode, mapInfo, paramsChannel, fastIrqMask,
                 irqEnabled, irqStatus, isrVars, softVars, queued, engine>>

WorkComplete(c) ==
  /\ work[c] = "complete"
  /\ ~DmaLocked(c)
  /\ DmaCompletion(c)
  /\ work' = [work EXCEPT ![c] = "wake"]
  /\ UNCHANGED <<callVars, mapVars, mode, mapInfo, paramsChannel, fastIrqMask,
                 irqEnabled, irqStatus, isrVars, softVars, queued, engine>>

\* Mutant: wake_up on a queue nobody waits on.
WorkWakesNobody(c) ==
  /\ work[c] = "wake"
  /\ work' = [work EXCEPT ![c] = "off"]
  /\ UNCHANGED <<callVars, mapVars, chanVars, fastIrqMask, irqEnabled,
                 irqStatus, isrVars, softVars, queued, engine>>

\* wake_up(&dma_info->wq)
WorkWake(c) ==
  /\ work[c] = "wake"
  /\ pc' = IF pc = "asleep" /\ ch = c THEN "wait" ELSE pc
  /\ work' = [work EXCEPT ![c] = "off"]
  /\ UNCHANGED <<caller, ch, unmap, closing, mapVars, chanVars, fastIrqMask,
                 irqEnabled, irqStatus, isrVars, softVars, queued, engine>>
-----------------------------------------------------------------------------
ClientCall ==
  \E f \in Files :
    \/ Close(f)
    \/ \E id \in MapIds : LockBuffer(f, id) \/ UnlockBuffer(f, id)
    \/ \E c \in Channels : Cancel(f, c)
    \/ \E c \in Channels, id \in MapIds, m \in Modes : Execute(f, c, id, m)

CallStep == \/ FreeMapping \/ CloseNext \/ StartDma \/ FailStart
            \/ CheckCompleted \/ WaitExpired \/ Cleanup \/ Halt
IsrStep == IsrEnter \/ IsrLoadMask \/ IsrStream \/ IsrExit
TaskletStep == TaskletStart \/ TaskletChannel \/ TaskletDone
WorkStep(c) == WorkStart(c) \/ WorkComplete(c) \/ WorkWake(c)

Next == \/ ClientCall \/ CallStep \/ IsrStep \/ TaskletStep
        \/ \E c \in Channels : \/ EngineFinishes(c) \/ EngineAdvances(c)
                               \/ WorkStep(c)

Spec == Init /\ [][Next]_vars

\* A thread in a system call, the interrupt handler, the softirq and the
\* workqueue are run by the kernel until they are done; clients need not call.
SoftwareFairness == /\ WF_vars(CallStep)
                    /\ WF_vars(IsrStep)
                    /\ WF_vars(TaskletStep)
                    /\ \A c \in Channels : WF_vars(WorkStep(c))

\* The device finishes the one-shot transfers it was given.
EngineFairness == \A c \in Channels : WF_vars(EngineFinishes(c))

FairSpec == Spec /\ SoftwareFairness
LiveSpec == FairSpec /\ EngineFairness
-----------------------------------------------------------------------------
(* Properties                                                              *)

States == {"IDLE", "INITIALIZED", "RUNNING", "COMPLETE", "ERROR"}
Engines == {Stopped} \cup [to : MapIds, mode : Modes]

\* Every variable has its type.
TypeOK ==
  /\ caller \in Files \cup {NoFile}
  /\ pc \in {"idle", "start", "wait", "asleep", "reset", "halt", "free",
             "closing"}
  /\ ch \in Channels \cup {NoChannel}
  /\ unmap \in MapIds \cup {NoMap}
  /\ closing \in BOOLEAN
  /\ owner \in [MapIds -> Files \cup {Driver, Free}]
  /\ activeChannel \in [MapIds -> Channels \cup {Inactive}]
  /\ state \in [Channels -> States]
  /\ mode \in [Channels -> Modes]
  /\ mapInfo \in [Channels -> MapIds \cup {NoMap}]
  /\ paramsChannel \in [Channels -> Channels]
  /\ fastIrqMask \in SUBSET Channels
  /\ irqEnabled \in BOOLEAN
  /\ irqStatus \in SUBSET Channels
  /\ isr \in {"off", "status", "dispatch"}
  /\ isrReg \in SUBSET Channels /\ isrFast \in SUBSET Channels
  /\ irqsrc \in SUBSET Channels /\ scheduled \in BOOLEAN
  /\ tasklet \in {"off", "on"} /\ taskletSrc \in SUBSET Channels
  /\ queued \in SUBSET Channels
  /\ work \in [Channels -> {"off", "complete", "wake"}]
  /\ engine \in [Channels -> Engines]

\* A mapping that names a channel is the mapping that channel works on, and a
\* mapping about to be freed names none: the warning of
\* tpce_dma_unlock_user_buffer (dma.c:370) never fires.
ActiveIsBusy ==
  /\ \A id \in MapIds : activeChannel[id] # Inactive =>
                          mapInfo[activeChannel[id]] = id
  /\ pc = "free" => activeChannel[unmap] = Inactive

\* A channel that is not idle holds a mapping that exists and names that
\* channel, so unmapping it finds and stops the channel.
MapOutlivesTransfer ==
  \A c \in Channels : state[c] # "IDLE" =>
    /\ mapInfo[c] \in MapIds
    /\ owner[mapInfo[c]] # Free
    /\ activeChannel[mapInfo[c]] = c

\* The device works on memory only while it is mapped: tpce_release and the
\* unlock ioctl stop active transfers before they unmap (main.c:149).
EngineOnLiveMapping ==
  \A c \in Channels : engine[c] # Stopped => owner[engine[c].to] # Free

\* An engine at work belongs to a channel that is RUNNING on that mapping in
\* that mode: nothing is reset, reported or handed out under a live engine.
EngineIsOwned ==
  \A c \in Channels : engine[c] # Stopped =>
    /\ state[c] = "RUNNING"
    /\ engine[c] = [to |-> mapInfo[c], mode |-> mode[c]]

\* A channel becomes COMPLETE only when its engine has finished; a spurious
\* completion interrupt is ignored (dma.c:847).
CompletionIsReal ==
  \A c \in Channels : state[c] = "COMPLETE" => engine[c] = Stopped

\* The hard interrupt handler takes the interrupts of a channel only while a
\* stream is on it (dma.c:832).
FastMaskOnlyWhileStreaming ==
  \A c \in fastIrqMask : mode[c] = "STREAM" /\ state[c] # "IDLE"

\* While interrupts are disabled the tasklet that enables them again is
\* scheduled or running, and what the handler left for it is not forgotten.
InterruptsComeBack ==
  /\ ~irqEnabled => scheduled \/ tasklet = "on"
  /\ irqsrc # {} => scheduled

\* A stream is endless (tpce_public.h:296): while its channel is RUNNING, that
\* is, until it is cancelled or its mapping goes, the engine is at work.  No run
\* checks it: the code does not keep it when a channel that was never used is
\* cancelled (dma.c:749).
StreamKeepsRunning ==
  \A c \in Channels : state[c] = "RUNNING" /\ mode[c] = "STREAM" =>
                        engine[c].mode = "STREAM"

\* The completion of channel c is on its way through the interrupt path.
NoticeInFlight(c) == \/ c \in irqStatus \cup isrReg \cup irqsrc \cup taskletSrc
                     \/ c \in queued
                     \/ work[c] = "complete"

\* A one-shot that has ended is never forgotten: from the engine's interrupt
\* to the work item, some stage holds the news.
CompletionNotLost ==
  \A c \in Channels :
    state[c] = "RUNNING" /\ mode[c] = "DEFAULT" /\ engine[c] = Stopped =>
      NoticeInFlight(c)

\* A thread asleep on a channel that is no longer RUNNING is about to be woken.
WakeupNotLost == pc = "asleep" /\ state[ch] # "RUNNING" => work[ch] = "wake"

\* Every call returns, so the device is never locked for ever.
CallsReturn == pc # "idle" ~> pc = "idle"

\* What the abstract specification sees: the mappings that exist, the mapping
\* each channel works on (its engine has the last word), and how far it is.
Mapped == {id \in MapIds : owner[id] # Free}
Lent == [c \in Channels |-> IF engine[c] # Stopped THEN engine[c].to
                                                   ELSE mapInfo[c]]
PhaseOf == [c \in Channels |->
              IF engine[c] # Stopped THEN "device"
              ELSE IF state[c] = "IDLE" THEN "free"
              ELSE IF state[c] \in {"RUNNING", "COMPLETE"} THEN "done"
              ELSE "prepared"]

\* The DMA core keeps the promise of TransferContract.
Contract == INSTANCE TransferContract WITH
              PinnedMaps <- DriverMaps,
              mapped <- Mapped, lent <- Lent, phase <- PhaseOf
ContractSpec == Contract!Spec
=============================================================================
