------------------------- MODULE DmaDedicatedProofs -------------------------
(***************************************************************************)
(* Proofs about DmaTransfer when every channel is used for one mode only,  *)
(* mappings for one channel at a time, streams do not fail to start and    *)
(* waits do not expire: the use in which the driver is right.  The runs    *)
(* shared_map and stale_completion show that two of these are needed.  The *)
(* third is for the fast mask: see the hazard at dma.c:737.                *)
(* In that use it implements TransferContract, as the last part shows.     *)
(***************************************************************************)
EXTENDS DmaTransferProofs

DedicatedUse == /\ ~ShareMaps /\ ~StreamStartFails /\ ~WaitExpires
                /\ \A c \in Channels : ModesOf[c] # Modes

Streams(c) == "STREAM" \in ModesOf[c]
-----------------------------------------------------------------------------
(* The discipline of the interrupt path: interrupts are off from the end   *)
(* of tpce_isr to the end of tpce_tasklet, which therefore do not overlap. *)

IrqInv ==
  /\ irqEnabled => tasklet = "off" /\ ~scheduled
  /\ ~irqEnabled => isr = "off" /\ (scheduled <=> tasklet = "off")
  /\ irqsrc # {} => scheduled
  /\ taskletSrc # {} => tasklet = "on"
  /\ isr = "off" => isrReg = {}
  /\ isr # "dispatch" => isrFast = {}

LEMMA InitIrqInv == Init => IrqInv
BY DEF Init, IrqInv

LEMMA StepIrqInv == (TypeInv /\ IrqInv) /\ [Next]_vars => IrqInv'
<1> SUFFICES ASSUME (TypeInv /\ IrqInv), [Next]_vars PROVE IrqInv'
  OBVIOUS
<1> USE TransferAssumption
<1> USE DEF TypeInv, TypeOK, IrqInv, callVars, mapVars, chanVars, isrVars,
            softVars, workVars, irqVars
<1>1. ASSUME NEW f \in Files, NEW id \in MapIds, LockBuffer(f, id)
      PROVE IrqInv'
  BY <1>1 DEF LockBuffer
<1>2. ASSUME NEW f \in Files, NEW id \in MapIds, UnlockBuffer(f, id)
      PROVE IrqInv'
  BY <1>2 DEF UnlockBuffer, SafeDmaUnmap, BeginAbort
<1>3. CASE FreeMapping
  BY <1>3 DEF FreeMapping, CallReturns
<1>4. ASSUME NEW f \in Files, Close(f) PROVE IrqInv'
  BY <1>4 DEF Close
<1>5. CASE CloseNext
  <2>1. UNCHANGED irqVars
    BY <1>5 DEF CloseNext, SafeDmaUnmap
  <2> QED
    BY <2>1
<1>6. ASSUME NEW f \in Files, NEW c \in Channels, NEW id \in MapIds,
             NEW m \in Modes,
             Execute(f, c, id, m)
      PROVE IrqInv'
  BY <1>6 DEF Execute, ValidRequest, InitDmaInfo
<1>7. CASE StartDma
  BY <1>7 DEF StartDma, CallReturns
<1>8. CASE FailStart
  BY <1>8 DEF FailStart
<1>9. CASE CheckCompleted
  BY <1>9 DEF CheckCompleted
<1>10. CASE WaitExpired
  BY <1>10 DEF WaitExpired
<1>11. CASE Cleanup
  BY <1>11 DEF Cleanup, BeginAbort, ResetDmaInfo, CallReturns
<1>12. ASSUME NEW f \in Files, NEW c \in Channels, Cancel(f, c) PROVE IrqInv'
  BY <1>12 DEF Cancel, BeginAbort
<1>13. CASE Halt
  BY <1>13 DEF Halt, ResetDmaInfo, CallReturns
<1>14. ASSUME NEW c \in Channels, EngineFinishes(c) PROVE IrqInv'
  BY <1>14 DEF EngineFinishes
<1>15. ASSUME NEW c \in Channels, EngineAdvances(c) PROVE IrqInv'
  BY <1>15 DEF EngineAdvances
<1>16. CASE IsrEnter
  BY <1>16 DEF IsrEnter
<1>17. CASE IsrLoadMask
  BY <1>17 DEF IsrLoadMask
<1>18. CASE IsrStream
  BY <1>18 DEF IsrStream
<1>19. CASE IsrExit
  BY <1>19 DEF IsrExit
<1>20. CASE TaskletStart
  BY <1>20 DEF TaskletStart
<1>21. CASE TaskletChannel
  BY <1>21 DEF TaskletChannel
<1>22. CASE TaskletDone
  BY <1>22 DEF TaskletDone
<1>23. ASSUME NEW c \in Channels, WorkStart(c) PROVE IrqInv'
  BY <1>23 DEF WorkStart
<1>24. ASSUME NEW c \in Channels, WorkComplete(c) PROVE IrqInv'
  BY <1>24 DEF WorkComplete, DmaCompletion
<1>25. ASSUME NEW c \in Channels, WorkWake(c) PROVE IrqInv'
  BY <1>25 DEF WorkWake
<1>26. CASE UNCHANGED vars
  BY <1>26 DEF vars
<1> QED
  BY <1>1, <1>2, <1>3, <1>4, <1>5, <1>6, <1>7, <1>8, <1>9, <1>10, <1>11,
     <1>12, <1>13, <1>14, <1>15, <1>16, <1>17, <1>18, <1>19, <1>20, <1>21,
     <1>22, <1>23, <1>24, <1>25, <1>26
  DEF Next, ClientCall, CallStep, IsrStep, TaskletStep, WorkStep

\* Interrupts that the handler turned off are turned on again: the tasklet that
\* does so is scheduled or running, however clients use the driver.
THEOREM InterruptsAlwaysComeBack == Spec => []InterruptsComeBack
<1>1. Init => TypeInv /\ IrqInv
  BY InitTypeInv, InitIrqInv
<1>2. TypeInv /\ IrqInv /\ [Next]_vars => TypeInv' /\ IrqInv'
  BY StepTypeInv, StepIrqInv
<1>3. TypeInv /\ IrqInv => InterruptsComeBack
  BY DEF TypeInv, TypeOK, IrqInv, InterruptsComeBack
<1> QED
  BY <1>1, <1>2, <1>3, PTL DEF Spec
-----------------------------------------------------------------------------
(* The dedicated use.                                                      *)

\* Only a stream outlives the call that started it; every other state but IDLE
\* belongs to the call in progress.
UseInv ==
  /\ \A c \in Channels :
       /\ state[c] # "IDLE" => mode[c] \in ModesOf[c] /\ paramsChannel[c] = c
       /\ state[c] \in {"INITIALIZED", "ERROR"} => ch = c /\ pc \in {"start", "reset"}
       /\ state[c] = "RUNNING" /\ mode[c] = "DEFAULT" =>
            ch = c /\ pc \in {"wait", "asleep"}
       /\ state[c] = "COMPLETE" =>
            mode[c] = "DEFAULT" /\ ch = c /\ pc \in {"wait", "asleep", "reset"}
  /\ pc \in {"wait", "asleep"} => state[ch] \in {"RUNNING", "COMPLETE"}
  /\ pc \in {"wait", "asleep", "reset"} => mode[ch] = "DEFAULT"
  /\ pc = "reset" => state[ch] # "RUNNING"

FastInv ==
  /\ FastMaskOnlyWhileStreaming
  /\ \A c \in isrFast : Streams(c)
  /\ pc = "halt" => ch \notin fastIrqMask

\* The stages before the work item that may hold a completion of c.
Raised(c) == c \in irqStatus \cup isrReg \cup irqsrc \cup taskletSrc

\* A completion notice of a one-shot channel is the only one, and it is true.
NoticeInv ==
  \A c \in Channels : ~Streams(c) =>
    /\ Raised(c) \/ c \in queued \/ work[c] = "complete" =>
         state[c] = "RUNNING" /\ engine[c] = Stopped
    /\ c \in queued => ~Raised(c)
    /\ work[c] = "complete" => ~Raised(c) /\ c \notin queued

DedicatedInv == /\ LentInv /\ IrqInv /\ UseInv /\ FastInv /\ EngineIsOwned
                /\ NoticeInv

LEMMA InitDedicatedInv == Init => DedicatedInv
<1> SUFFICES ASSUME Init PROVE DedicatedInv
  OBVIOUS
<1>1. LentInv /\ IrqInv
  BY InitLentInv, InitIrqInv
<1>2. UseInv /\ FastInv /\ EngineIsOwned /\ NoticeInv
  BY TransferAssumption DEF TransferAssumption, Init, UseInv, FastInv,
     FastMaskOnlyWhileStreaming, EngineIsOwned, NoticeInv, Raised, Stopped
<1> QED
  BY <1>1, <1>2 DEF DedicatedInv

LEMMA StepUseInv ==
  ASSUME DedicatedUse
  PROVE  DedicatedInv /\ [Next]_vars => UseInv'
<1> SUFFICES ASSUME DedicatedInv, [Next]_vars PROVE UseInv'
  OBVIOUS
<1> USE TransferAssumption
<1> USE DEF DedicatedUse, TransferAssumption, DedicatedInv, LentInv, BusyInv,
            TypeInv, TypeOK, CallOK, IdleHoldsNothing, Modes, UseInv,
            callVars, mapVars, chanVars, isrVars, softVars, workVars, irqVars
<1>1. ASSUME NEW f \in Files, NEW id \in MapIds, LockBuffer(f, id)
      PROVE UseInv'
  BY <1>1 DEF LockBuffer
<1>2. ASSUME NEW f \in Files, NEW id \in MapIds, UnlockBuffer(f, id)
      PROVE UseInv'
  BY <1>2 DEF UnlockBuffer, SafeDmaUnmap, BeginAbort
<1>3. CASE FreeMapping
  BY <1>3 DEF FreeMapping, CallReturns
<1>4. ASSUME NEW f \in Files, Close(f) PROVE UseInv'
  BY <1>4 DEF Close
<1>5. CASE CloseNext
  BY <1>5 DEF CloseNext, SafeDmaUnmap, BeginAbort, CallReturns
<1>6. ASSUME NEW f \in Files, NEW c \in Channels, NEW id \in MapIds,
             NEW m \in Modes,
             Execute(f, c, id, m)
      PROVE UseInv'
  BY <1>6 DEF Execute, ValidRequest, InitDmaInfo
<1>7. CASE StartDma
  BY <1>7 DEF StartDma, CallReturns
<1>8. CASE FailStart
  BY <1>8 DEF FailStart
<1>9. CASE CheckCompleted
  BY <1>9 DEF CheckCompleted
<1>10. CASE WaitExpired
  BY <1>10 DEF WaitExpired
<1>11. CASE Cleanup
  BY <1>11 DEF Cleanup, BeginAbort, ResetDmaInfo, CallReturns
<1>12. ASSUME NEW f \in Files, NEW c \in Channels, Cancel(f, c) PROVE UseInv'
  BY <1>12 DEF Cancel, BeginAbort
<1>13. CASE Halt
  BY <1>13 DEF Halt, ResetDmaInfo, CallReturns
<1>14. ASSUME NEW c \in Channels, EngineFinishes(c) PROVE UseInv'
  BY <1>14 DEF EngineFinishes
<1>15. ASSUME NEW c \in Channels, EngineAdvances(c) PROVE UseInv'
  BY <1>15 DEF EngineAdvances
<1>16. CASE IsrEnter
  BY <1>16 DEF IsrEnter
<1>17. CASE IsrLoadMask
  BY <1>17 DEF IsrLoadMask
<1>18. CASE IsrStream
  BY <1>18 DEF IsrStream
<1>19. CASE IsrExit
  BY <1>19 DEF IsrExit
<1>20. CASE TaskletStart
  BY <1>20 DEF TaskletStart
<1>21. CASE TaskletChannel
  BY <1>21 DEF TaskletChannel
<1>22. CASE TaskletDone
  BY <1>22 DEF TaskletDone
<1>23. ASSUME NEW c \in Channels, WorkStart(c) PROVE UseInv'
  BY <1>23 DEF WorkStart
<1>24. ASSUME NEW c \in Channels, WorkComplete(c) PROVE UseInv'
  BY <1>24 DEF WorkComplete, DmaCompletion
<1>25. ASSUME NEW c \in Channels, WorkWake(c) PROVE UseInv'
  BY <1>25 DEF WorkWake
<1>26. CASE UNCHANGED vars
  BY <1>26 DEF vars
<1> QED
  BY <1>1, <1>2, <1>3, <1>4, <1>5, <1>6, <1>7, <1>8, <1>9, <1>10, <1>11,
     <1>12, <1>13, <1>14, <1>15, <1>16, <1>17, <1>18, <1>19, <1>20, <1>21,
     <1>22, <1>23, <1>24, <1>25, <1>26
  DEF Next, ClientCall, CallStep, IsrStep, TaskletStep, WorkStep

LEMMA StepFastInv ==
  ASSUME DedicatedUse
  PROVE  DedicatedInv /\ [Next]_vars => FastInv'
<1> SUFFICES ASSUME DedicatedInv, [Next]_vars PROVE FastInv'
  OBVIOUS
<1> USE TransferAssumption
<1> USE DEF DedicatedUse, TransferAssumption, DedicatedInv, LentInv, BusyInv,
            TypeInv, TypeOK, CallOK, IdleHoldsNothing, Modes, UseInv, FastInv,
            FastMaskOnlyWhileStreaming, Streams, callVars, mapVars, chanVars,
            isrVars, softVars, workVars, irqVars
<1>1. ASSUME NEW f \in Files, NEW id \in MapIds, LockBuffer(f, id)
      PROVE FastInv'
  BY <1>1 DEF LockBuffer
<1>2. ASSUME NEW f \in Files, NEW id \in MapIds, UnlockBuffer(f, id)
      PROVE FastInv'
  BY <1>2 DEF UnlockBuffer, SafeDmaUnmap, BeginAbort, DisableStreamIrq
<1>3. CASE FreeMapping
  BY <1>3 DEF FreeMapping, CallReturns
<1>4. ASSUME NEW f \in Files, Close(f) PROVE FastInv'
  BY <1>4 DEF Close
<1>5. CASE CloseNext
  BY <1>5 DEF CloseNext, SafeDmaUnmap, BeginAbort, CallReturns,
     DisableStreamIrq
<1>6. ASSUME NEW f \in Files, NEW c \in Channels, NEW id \in MapIds,
             NEW m \in Modes,
             Execute(f, c, id, m)
      PROVE FastInv'
  <2>1. /\ fastIrqMask' \subseteq fastIrqMask \cup {c}
        /\ c \in fastIrqMask' => m = "STREAM" \/ c \in fastIrqMask
    BY <1>6 DEF Execute, EnableStreamIrq
  <2>2. c \notin fastIrqMask
    BY <1>6 DEF Execute, ValidRequest
  <2>3. FastMaskOnlyWhileStreaming'
    BY <1>6, <2>1, <2>2 DEF Execute, InitDmaInfo
  <2>4. isrFast' = isrFast /\ pc' = "start"
    BY <1>6 DEF Execute
  <2> QED
    BY <2>3, <2>4
<1>7. CASE StartDma
  BY <1>7 DEF StartDma, CallReturns
<1>8. CASE FailStart
  BY <1>8 DEF FailStart
<1>9. CASE CheckCompleted
  BY <1>9 DEF CheckCompleted
<1>10. CASE WaitExpired
  BY <1>10 DEF WaitExpired
<1>11. CASE Cleanup
  <2>1. state[ch] # "RUNNING" /\ mode[ch] = "DEFAULT" /\ ch \notin fastIrqMask
    BY <1>11 DEF Cleanup
  <2>2. /\ UNCHANGED <<fastIrqMask, mode, isrFast>> /\ pc' = "idle"
        /\ \A c \in Channels : c # ch => state'[c] = state[c]
    BY <1>11, <2>1 DEF Cleanup, ResetDmaInfo, CallReturns
  <2> QED
    BY <2>1, <2>2
<1>12. ASSUME NEW f \in Files, NEW c \in Channels, Cancel(f, c) PROVE FastInv'
  BY <1>12 DEF Cancel, BeginAbort, DisableStreamIrq
<1>13. CASE Halt
  BY <1>13 DEF Halt, ResetDmaInfo, CallReturns
<1>14. ASSUME NEW c \in Channels, EngineFinishes(c) PROVE FastInv'
  BY <1>14 DEF EngineFinishes
<1>15. ASSUME NEW c \in Channels, EngineAdvances(c) PROVE FastInv'
  BY <1>15 DEF EngineAdvances
<1>16. CASE IsrEnter
  BY <1>16 DEF IsrEnter
<1>17. CASE IsrLoadMask
  BY <1>17 DEF IsrLoadMask
<1>18. CASE IsrStream
  BY <1>18 DEF IsrStream
<1>19. CASE IsrExit
  BY <1>19 DEF IsrExit
<1>20. CASE TaskletStart
  BY <1>20 DEF TaskletStart
<1>21. CASE TaskletChannel
  BY <1>21 DEF TaskletChannel
<1>22. CASE TaskletDone
  BY <1>22 DEF TaskletDone
<1>23. ASSUME NEW c \in Channels, WorkStart(c) PROVE FastInv'
  BY <1>23 DEF WorkStart
<1>24. ASSUME NEW c \in Channels, WorkComplete(c) PROVE FastInv'
  BY <1>24 DEF WorkComplete, DmaCompletion
<1>25. ASSUME NEW c \in Channels, WorkWake(c) PROVE FastInv'
  BY <1>25 DEF WorkWake
<1>26. CASE UNCHANGED vars
  BY <1>26 DEF vars
<1> HIDE DEF FastInv, FastMaskOnlyWhileStreaming
<1> QED
  BY <1>1, <1>2, <1>3, <1>4, <1>5, <1>6, <1>7, <1>8, <1>9, <1>10, <1>11,
     <1>12, <1>13, <1>14, <1>15, <1>16, <1>17, <1>18, <1>19, <1>20, <1>21,
     <1>22, <1>23, <1>24, <1>25, <1>26
  DEF Next, ClientCall, CallStep, IsrStep, TaskletStep, WorkStep

LEMMA StepEngineIsOwned ==
  ASSUME DedicatedUse
  PROVE  DedicatedInv /\ [Next]_vars => EngineIsOwned'
<1> SUFFICES ASSUME DedicatedInv, [Next]_vars PROVE EngineIsOwned'
  OBVIOUS
<1> USE TransferAssumption
<1> USE DEF DedicatedUse, TransferAssumption, DedicatedInv, LentInv, BusyInv,
            TypeInv, TypeOK, CallOK, IdleHoldsNothing, Modes, UseInv,
            NoticeInv, Streams, EngineIsOwned, Engines, Stopped, callVars,
            mapVars, chanVars, isrVars, softVars, workVars, irqVars
<1>1. ASSUME NEW f \in Files, NEW id \in MapIds, LockBuffer(f, id)
      PROVE EngineIsOwned'
  BY <1>1 DEF LockBuffer
<1>2. ASSUME NEW f \in Files, NEW id \in MapIds, UnlockBuffer(f, id)
      PROVE EngineIsOwned'
  BY <1>2 DEF UnlockBuffer, SafeDmaUnmap, BeginAbort
<1>3. CASE FreeMapping
  BY <1>3 DEF FreeMapping, CallReturns
<1>4. ASSUME NEW f \in Files, Close(f) PROVE EngineIsOwned'
  BY <1>4 DEF Close
<1>5. CASE CloseNext
  BY <1>5 DEF CloseNext, SafeDmaUnmap, BeginAbort, CallReturns
<1>6. ASSUME NEW f \in Files, NEW c \in Channels, NEW id \in MapIds,
             NEW m \in Modes,
             Execute(f, c, id, m)
      PROVE EngineIsOwned'
  BY <1>6 DEF Execute, ValidRequest, InitDmaInfo
<1>7. CASE StartDma
  BY <1>7 DEF StartDma, CallReturns
<1>8. CASE FailStart
  BY <1>8 DEF FailStart
<1>9. CASE CheckCompleted
  BY <1>9 DEF CheckCompleted
<1>10. CASE WaitExpired
  BY <1>10 DEF WaitExpired
<1>11. CASE Cleanup
  BY <1>11 DEF Cleanup, BeginAbort, ResetDmaInfo, CallReturns
<1>12. ASSUME NEW f \in Files, NEW c \in Channels, Cancel(f, c)
      PROVE EngineIsOwned'
  BY <1>12 DEF Cancel, BeginAbort
<1>13. CASE Halt
  <2>1. /\ ch \in Channels /\ paramsChannel[ch] \in Channels
        /\ engine' = [engine EXCEPT ![paramsChannel[ch]] = Stopped]
        /\ ResetDmaInfo(ch) /\ UNCHANGED mode
    BY <1>13 DEF Halt, ResetDmaController
  <2>2. CASE state[ch] = "IDLE"
    BY <2>1, <2>2 DEF ResetDmaInfo
  <2>3. CASE state[ch] # "IDLE"
    <3>1. paramsChannel[ch] = ch
      BY <2>1, <2>3
    <3> QED
      BY <2>1, <2>3, <3>1 DEF ResetDmaInfo
  <2> QED
    BY <2>2, <2>3
<1>14. ASSUME NEW c \in Channels, EngineFinishes(c) PROVE EngineIsOwned'
  BY <1>14 DEF EngineFinishes
<1>15. ASSUME NEW c \in Channels, EngineAdvances(c) PROVE EngineIsOwned'
  BY <1>15 DEF EngineAdvances
<1>16. CASE IsrEnter
  BY <1>16 DEF IsrEnter
<1>17. CASE IsrLoadMask
  BY <1>17 DEF IsrLoadMask
<1>18. CASE IsrStream
  BY <1>18 DEF IsrStream
<1>19. CASE IsrExit
  BY <1>19 DEF IsrExit
<1>20. CASE TaskletStart
  BY <1>20 DEF TaskletStart
<1>21. CASE TaskletChannel
  BY <1>21 DEF TaskletChannel
<1>22. CASE TaskletDone
  BY <1>22 DEF TaskletDone
<1>23. ASSUME NEW c \in Channels, WorkStart(c) PROVE EngineIsOwned'
  BY <1>23 DEF WorkStart
<1>24. ASSUME NEW c \in Channels, WorkComplete(c) PROVE EngineIsOwned'
  BY <1>24 DEF WorkComplete, DmaCompletion
<1>25. ASSUME NEW c \in Channels, WorkWake(c) PROVE EngineIsOwned'
  BY <1>25 DEF WorkWake
<1>26. CASE UNCHANGED vars
  BY <1>26 DEF vars
<1> HIDE DEF EngineIsOwned
<1> QED
  BY <1>1, <1>2, <1>3, <1>4, <1>5, <1>6, <1>7, <1>8, <1>9, <1>10, <1>11,
     <1>12, <1>13, <1>14, <1>15, <1>16, <1>17, <1>18, <1>19, <1>20, <1>21,
     <1>22, <1>23, <1>24, <1>25, <1>26
  DEF Next, ClientCall, CallStep, IsrStep, TaskletStep, WorkStep

LEMMA StepNoticeInv ==
  ASSUME DedicatedUse
  PROVE  DedicatedInv /\ [Next]_vars => NoticeInv'
<1> SUFFICES ASSUME DedicatedInv, [Next]_vars PROVE NoticeInv'
  OBVIOUS
<1> USE TransferAssumption
<1> USE DEF DedicatedUse, TransferAssumption, DedicatedInv, LentInv, BusyInv,
            TypeInv, TypeOK, CallOK, IdleHoldsNothing, Modes, IrqInv, UseInv,
            FastInv, EngineIsOwned, NoticeInv, Raised, Stopped, Streams,
            callVars, mapVars, chanVars, isrVars, softVars, workVars, irqVars
<1>1. ASSUME NEW f \in Files, NEW id \in MapIds, LockBuffer(f, id)
      PROVE NoticeInv'
  BY <1>1 DEF LockBuffer
<1>2. ASSUME NEW f \in Files, NEW id \in MapIds, UnlockBuffer(f, id)
      PROVE NoticeInv'
  BY <1>2 DEF UnlockBuffer, SafeDmaUnmap, BeginAbort
<1>3. CASE FreeMapping
  BY <1>3 DEF FreeMapping, CallReturns
<1>4. ASSUME NEW f \in Files, Close(f) PROVE NoticeInv'
  BY <1>4 DEF Close
<1>5. CASE CloseNext
  BY <1>5 DEF CloseNext, SafeDmaUnmap, BeginAbort, CallReturns
<1>6. ASSUME NEW f \in Files, NEW c \in Channels, NEW id \in MapIds,
             NEW m \in Modes,
             Execute(f, c, id, m)
      PROVE NoticeInv'
  BY <1>6 DEF Execute, ValidRequest, InitDmaInfo
<1>7. CASE StartDma
  BY <1>7 DEF StartDma, CallReturns
<1>8. CASE FailStart
  BY <1>8 DEF FailStart
<1>9. CASE CheckCompleted
  BY <1>9 DEF CheckCompleted
<1>10. CASE WaitExpired
  BY <1>10 DEF WaitExpired
<1>11. CASE Cleanup
  BY <1>11 DEF Cleanup, BeginAbort, ResetDmaInfo, CallReturns
<1>12. ASSUME NEW f \in Files, NEW c \in Channels, Cancel(f, c)
      PROVE NoticeInv'
  BY <1>12 DEF Cancel, BeginAbort
<1>13. CASE Halt
  BY <1>13 DEF Halt, ResetDmaInfo, CallReturns, ResetDmaController
<1>14. ASSUME NEW c \in Channels, EngineFinishes(c) PROVE NoticeInv'
  BY <1>14 DEF EngineFinishes
<1>15. ASSUME NEW c \in Channels, EngineAdvances(c) PROVE NoticeInv'
  BY <1>15 DEF EngineAdvances
<1>16. CASE IsrEnter
  BY <1>16 DEF IsrEnter
<1>17. CASE IsrLoadMask
  BY <1>17 DEF IsrLoadMask
<1>18. CASE IsrStream
  BY <1>18 DEF IsrStream
<1>19. CASE IsrExit
  BY <1>19 DEF IsrExit
<1>20. CASE TaskletStart
  BY <1>20 DEF TaskletStart
<1>21. CASE TaskletChannel
  BY <1>21 DEF TaskletChannel
<1>22. CASE TaskletDone
  BY <1>22 DEF TaskletDone
<1>23. ASSUME NEW c \in Channels, WorkStart(c) PROVE NoticeInv'
  BY <1>23 DEF WorkStart
<1>24. ASSUME NEW c \in Channels, WorkComplete(c) PROVE NoticeInv'
  BY <1>24 DEF WorkComplete, DmaCompletion
<1>25. ASSUME NEW c \in Channels, WorkWake(c) PROVE NoticeInv'
  BY <1>25 DEF WorkWake
<1>26. CASE UNCHANGED vars
  BY <1>26 DEF vars
<1> HIDE DEF NoticeInv
<1> QED
  BY <1>1, <1>2, <1>3, <1>4, <1>5, <1>6, <1>7, <1>8, <1>9, <1>10, <1>11,
     <1>12, <1>13, <1>14, <1>15, <1>16, <1>17, <1>18, <1>19, <1>20, <1>21,
     <1>22, <1>23, <1>24, <1>25, <1>26
  DEF Next, ClientCall, CallStep, IsrStep, TaskletStep, WorkStep

-----------------------------------------------------------------------------
(* What the dedicated use guarantees.                                      *)

LEMMA AlwaysDedicatedInv ==
  ASSUME DedicatedUse
  PROVE  Spec => []DedicatedInv
<1>1. Init => DedicatedInv
  BY InitDedicatedInv
<1>2. DedicatedInv /\ [Next]_vars => DedicatedInv'
  <2>1. ~ShareMaps
    BY DEF DedicatedUse
  <2> QED
    BY <2>1, StepTypeInv, StepBusyInv, StepMapOutlives, StepIrqInv, StepUseInv,
       StepFastInv, StepEngineIsOwned, StepNoticeInv
    DEF DedicatedInv, LentInv, BusyInv
<1> QED
  BY <1>1, <1>2, PTL DEF Spec

\* An engine at work belongs to a channel that is RUNNING on its mapping.
THEOREM EnginesAreOwned ==
  ASSUME DedicatedUse
  PROVE  Spec => []EngineIsOwned
<1>1. DedicatedInv => EngineIsOwned
  BY DEF DedicatedInv
<1> QED
  BY <1>1, AlwaysDedicatedInv, PTL

\* The device never works on memory that is no longer mapped.
THEOREM EnginesOnLiveMappings ==
  ASSUME DedicatedUse
  PROVE  Spec => []EngineOnLiveMapping
<1>1. DedicatedInv => EngineOnLiveMapping
  <2> SUFFICES ASSUME DedicatedInv, NEW c \in Channels, engine[c] # Stopped
               PROVE  owner[engine[c].to] # Free
    BY DEF EngineOnLiveMapping
  <2>1. state[c] = "RUNNING" /\ engine[c] = [to |-> mapInfo[c], mode |-> mode[c]]
    BY DEF DedicatedInv, EngineIsOwned
  <2>2. owner[mapInfo[c]] # Free
    BY <2>1 DEF DedicatedInv, LentInv, MapOutlivesTransfer
  <2> QED
    BY <2>1, <2>2
<1> QED
  BY <1>1, AlwaysDedicatedInv, PTL

\* No channel is reported COMPLETE while its engine works.
THEOREM CompletionsAreReal ==
  ASSUME DedicatedUse
  PROVE  Spec => []CompletionIsReal
<1>1. DedicatedInv => CompletionIsReal
  BY DEF DedicatedInv, EngineIsOwned, CompletionIsReal
<1> QED
  BY <1>1, AlwaysDedicatedInv, PTL

\* The hard interrupt handler takes the interrupts of streams and no others.
THEOREM FastMaskIsForStreams ==
  ASSUME DedicatedUse
  PROVE  Spec => []FastMaskOnlyWhileStreaming
<1>1. DedicatedInv => FastMaskOnlyWhileStreaming
  BY DEF DedicatedInv, FastInv
<1> QED
  BY <1>1, AlwaysDedicatedInv, PTL

LEMMA StepCompletionNotLost ==
  ASSUME DedicatedUse
  PROVE  (DedicatedInv /\ CompletionNotLost) /\ [Next]_vars => CompletionNotLost'
<1> SUFFICES ASSUME (DedicatedInv /\ CompletionNotLost), [Next]_vars PROVE CompletionNotLost'
  OBVIOUS
<1> USE TransferAssumption
<1> USE DEF DedicatedUse, TransferAssumption, DedicatedInv, LentInv, BusyInv,
            TypeInv, TypeOK, CallOK, IdleHoldsNothing, Modes, IrqInv, UseInv,
            FastInv, FastMaskOnlyWhileStreaming, CompletionNotLost,
            NoticeInFlight, Stopped, Streams, callVars, mapVars, chanVars,
            isrVars, softVars, workVars, irqVars
<1>1. ASSUME NEW f \in Files, NEW id \in MapIds, LockBuffer(f, id)
      PROVE CompletionNotLost'
  BY <1>1 DEF LockBuffer
<1>2. ASSUME NEW f \in Files, NEW id \in MapIds, UnlockBuffer(f, id)
      PROVE CompletionNotLost'
  BY <1>2 DEF UnlockBuffer, SafeDmaUnmap, BeginAbort
<1>3. CASE FreeMapping
  BY <1>3 DEF FreeMapping, CallReturns
<1>4. ASSUME NEW f \in Files, Close(f) PROVE CompletionNotLost'
  BY <1>4 DEF Close
<1>5. CASE CloseNext
  BY <1>5 DEF CloseNext, SafeDmaUnmap, BeginAbort, CallReturns
<1>6. ASSUME NEW f \in Files, NEW c \in Channels, NEW id \in MapIds,
             NEW m \in Modes,
             Execute(f, c, id, m)
      PROVE CompletionNotLost'
  BY <1>6 DEF Execute, ValidRequest, InitDmaInfo
<1>7. CASE StartDma
  BY <1>7 DEF StartDma, CallReturns
<1>8. CASE FailStart
  BY <1>8 DEF FailStart
<1>9. CASE CheckCompleted
  BY <1>9 DEF CheckCompleted
<1>10. CASE WaitExpired
  BY <1>10 DEF WaitExpired
<1>11. CASE Cleanup
  BY <1>11 DEF Cleanup, BeginAbort, ResetDmaInfo, CallReturns
<1>12. ASSUME NEW f \in Files, NEW c \in Channels, Cancel(f, c)
      PROVE CompletionNotLost'
  BY <1>12 DEF Cancel, BeginAbort
<1>13. CASE Halt
  BY <1>13 DEF Halt, ResetDmaInfo, CallReturns, ResetDmaController
<1>14. ASSUME NEW c \in Channels, EngineFinishes(c) PROVE CompletionNotLost'
  BY <1>14 DEF EngineFinishes
<1>15. ASSUME NEW c \in Channels, EngineAdvances(c) PROVE CompletionNotLost'
  BY <1>15 DEF EngineAdvances
<1>16. CASE IsrEnter
  BY <1>16 DEF IsrEnter
<1>17. CASE IsrLoadMask
  BY <1>17 DEF IsrLoadMask
<1>18. CASE IsrStream
  <2>1. PICK d \in isrFast : irqStatus' = irqStatus \ {d}
    BY <1>18 DEF IsrStream
  <2>2. \A c \in Channels : state[c] = "RUNNING" /\ mode[c] = "DEFAULT" => c # d
    OBVIOUS
  <2>3. UNCHANGED <<chanVars, isrReg, softVars, workVars, engine>>
    BY <1>18 DEF IsrStream
  <2> QED
    BY <2>1, <2>2, <2>3
<1>19. CASE IsrExit
  BY <1>19 DEF IsrExit
<1>20. CASE TaskletStart
  BY <1>20 DEF TaskletStart
<1>21. CASE TaskletChannel
  BY <1>21 DEF TaskletChannel
<1>22. CASE TaskletDone
  BY <1>22 DEF TaskletDone
<1>23. ASSUME NEW c \in Channels, WorkStart(c) PROVE CompletionNotLost'
  BY <1>23 DEF WorkStart
<1>24. ASSUME NEW c \in Channels, WorkComplete(c) PROVE CompletionNotLost'
  BY <1>24 DEF WorkComplete, DmaCompletion
<1>25. ASSUME NEW c \in Channels, WorkWake(c) PROVE CompletionNotLost'
  BY <1>25 DEF WorkWake
<1>26. CASE UNCHANGED vars
  BY <1>26 DEF vars
<1> HIDE DEF CompletionNotLost
<1> QED
  BY <1>1, <1>2, <1>3, <1>4, <1>5, <1>6, <1>7, <1>8, <1>9, <1>10, <1>11,
     <1>12, <1>13, <1>14, <1>15, <1>16, <1>17, <1>18, <1>19, <1>20, <1>21,
     <1>22, <1>23, <1>24, <1>25, <1>26
  DEF Next, ClientCall, CallStep, IsrStep, TaskletStep, WorkStep

LEMMA StepWakeupNotLost ==
  ASSUME DedicatedUse
  PROVE  (DedicatedInv /\ WakeupNotLost) /\ [Next]_vars => WakeupNotLost'
<1> SUFFICES ASSUME (DedicatedInv /\ WakeupNotLost), [Next]_vars PROVE WakeupNotLost'
  OBVIOUS
<1> USE TransferAssumption
<1> USE DEF DedicatedUse, TransferAssumption, DedicatedInv, LentInv, BusyInv,
            TypeInv, TypeOK, CallOK, IdleHoldsNothing, Modes, UseInv,
            WakeupNotLost, callVars, mapVars, chanVars, isrVars, softVars,
            workVars, irqVars
<1>1. ASSUME NEW f \in Files, NEW id \in MapIds, LockBuffer(f, id)
      PROVE WakeupNotLost'
  BY <1>1 DEF LockBuffer
<1>2. ASSUME NEW f \in Files, NEW id \in MapIds, UnlockBuffer(f, id)
      PROVE WakeupNotLost'
  BY <1>2 DEF UnlockBuffer, SafeDmaUnmap, BeginAbort
<1>3. CASE FreeMapping
  BY <1>3 DEF FreeMapping, CallReturns
<1>4. ASSUME NEW f \in Files, Close(f) PROVE WakeupNotLost'
  BY <1>4 DEF Close
<1>5. CASE CloseNext
  BY <1>5 DEF CloseNext, SafeDmaUnmap, BeginAbort, CallReturns
<1>6. ASSUME NEW f \in Files, NEW c \in Channels, NEW id \in MapIds,
             NEW m \in Modes,
             Execute(f, c, id, m)
      PROVE WakeupNotLost'
  BY <1>6 DEF Execute, ValidRequest, InitDmaInfo
<1>7. CASE StartDma
  BY <1>7 DEF StartDma, CallReturns
<1>8. CASE FailStart
  BY <1>8 DEF FailStart
<1>9. CASE CheckCompleted
  BY <1>9 DEF CheckCompleted
<1>10. CASE WaitExpired
  BY <1>10 DEF WaitExpired
<1>11. CASE Cleanup
  BY <1>11 DEF Cleanup, BeginAbort, ResetDmaInfo, CallReturns
<1>12. ASSUME NEW f \in Files, NEW c \in Channels, Cancel(f, c)
      PROVE WakeupNotLost'
  BY <1>12 DEF Cancel, BeginAbort
<1>13. CASE Halt
  BY <1>13 DEF Halt, ResetDmaInfo, CallReturns
<1>14. ASSUME NEW c \in Channels, EngineFinishes(c) PROVE WakeupNotLost'
  BY <1>14 DEF EngineFinishes
<1>15. ASSUME NEW c \in Channels, EngineAdvances(c) PROVE WakeupNotLost'
  BY <1>15 DEF EngineAdvances
<1>16. CASE IsrEnter
  BY <1>16 DEF IsrEnter
<1>17. CASE IsrLoadMask
  BY <1>17 DEF IsrLoadMask
<1>18. CASE IsrStream
  BY <1>18 DEF IsrStream
<1>19. CASE IsrExit
  BY <1>19 DEF IsrExit
<1>20. CASE TaskletStart
  BY <1>20 DEF TaskletStart
<1>21. CASE TaskletChannel
  BY <1>21 DEF TaskletChannel
<1>22. CASE TaskletDone
  BY <1>22 DEF TaskletDone
<1>23. ASSUME NEW c \in Channels, WorkStart(c) PROVE WakeupNotLost'
  BY <1>23 DEF WorkStart
<1>24. ASSUME NEW c \in Channels, WorkComplete(c) PROVE WakeupNotLost'
  BY <1>24 DEF WorkComplete, DmaCompletion
<1>25. ASSUME NEW c \in Channels, WorkWake(c) PROVE WakeupNotLost'
  BY <1>25 DEF WorkWake
<1>26. CASE UNCHANGED vars
  BY <1>26 DEF vars
<1> HIDE DEF WakeupNotLost
<1> QED
  BY <1>1, <1>2, <1>3, <1>4, <1>5, <1>6, <1>7, <1>8, <1>9, <1>10, <1>11,
     <1>12, <1>13, <1>14, <1>15, <1>16, <1>17, <1>18, <1>19, <1>20, <1>21,
     <1>22, <1>23, <1>24, <1>25, <1>26
  DEF Next, ClientCall, CallStep, IsrStep, TaskletStep, WorkStep

\* From the interrupt to the work item, some stage holds every completion.
THEOREM CompletionsAreNotLost ==
  ASSUME DedicatedUse
  PROVE  Spec => []CompletionNotLost
<1>1. Init => CompletionNotLost
  BY DEF Init, CompletionNotLost
<1>2. DedicatedInv /\ CompletionNotLost /\ [Next]_vars => CompletionNotLost'
  BY StepCompletionNotLost
<1> QED
  BY <1>1, <1>2, AlwaysDedicatedInv, PTL DEF Spec

\* Nobody sleeps on a transfer that has ended without a wake-up on its way.
THEOREM WakeupsAreNotLost ==
  ASSUME DedicatedUse
  PROVE  Spec => []WakeupNotLost
<1>1. Init => WakeupNotLost
  BY DEF Init, WakeupNotLost
<1>2. DedicatedInv /\ WakeupNotLost /\ [Next]_vars => WakeupNotLost'
  BY StepWakeupNotLost
<1> QED
  BY <1>1, <1>2, AlwaysDedicatedInv, PTL DEF Spec
-----------------------------------------------------------------------------
(* In the dedicated use, DmaTransfer implements TransferContract.          *)

\* The driver's own mappings stay; a mapping about to be freed belongs to the
\* file whose call frees it.
PinInv ==
  /\ \A id \in DriverMaps : owner[id] = Driver
  /\ pc = "closing" => caller \in Files
  /\ unmap # NoMap => owner[unmap] = caller /\ caller \in Files

LEMMA InitPinInv == Init => PinInv
BY TransferAssumption DEF TransferAssumption, Init, PinInv

LEMMA StepPinInv == (TypeInv /\ PinInv) /\ [Next]_vars => PinInv'
<1> SUFFICES ASSUME (TypeInv /\ PinInv), [Next]_vars PROVE PinInv'
  OBVIOUS
<1> USE TransferAssumption
<1> USE DEF TransferAssumption, TypeInv, TypeOK, CallOK, PinInv, callVars,
            mapVars, chanVars, isrVars, softVars, workVars, irqVars
<1>1. ASSUME NEW f \in Files, NEW id \in MapIds, LockBuffer(f, id)
      PROVE PinInv'
  BY <1>1 DEF LockBuffer
<1>2. ASSUME NEW f \in Files, NEW id \in MapIds, UnlockBuffer(f, id)
      PROVE PinInv'
  BY <1>2 DEF UnlockBuffer, SafeDmaUnmap, BeginAbort
<1>3. CASE FreeMapping
  BY <1>3 DEF FreeMapping, CallReturns
<1>4. ASSUME NEW f \in Files, Close(f) PROVE PinInv'
  BY <1>4 DEF Close
<1>5. CASE CloseNext
  BY <1>5 DEF CloseNext, SafeDmaUnmap, BeginAbort, CallReturns
<1>6. ASSUME NEW f \in Files, NEW c \in Channels, NEW id \in MapIds,
             NEW m \in Modes,
             Execute(f, c, id, m)
      PROVE PinInv'
  BY <1>6 DEF Execute, ValidRequest, InitDmaInfo
<1>7. CASE StartDma
  BY <1>7 DEF StartDma, CallReturns
<1>8. CASE FailStart
  BY <1>8 DEF FailStart
<1>9. CASE CheckCompleted
  BY <1>9 DEF CheckCompleted
<1>10. CASE WaitExpired
  BY <1>10 DEF WaitExpired
<1>11. CASE Cleanup
  BY <1>11 DEF Cleanup, BeginAbort, ResetDmaInfo, CallReturns
<1>12. ASSUME NEW f \in Files, NEW c \in Channels, Cancel(f, c) PROVE PinInv'
  BY <1>12 DEF Cancel, BeginAbort
<1>13. CASE Halt
  BY <1>13 DEF Halt, ResetDmaInfo, CallReturns
<1>14. ASSUME NEW c \in Channels, EngineFinishes(c) PROVE PinInv'
  BY <1>14 DEF EngineFinishes
<1>15. ASSUME NEW c \in Channels, EngineAdvances(c) PROVE PinInv'
  BY <1>15 DEF EngineAdvances
<1>16. CASE IsrEnter
  BY <1>16 DEF IsrEnter
<1>17. CASE IsrLoadMask
  BY <1>17 DEF IsrLoadMask
<1>18. CASE IsrStream
  BY <1>18 DEF IsrStream
<1>19. CASE IsrExit
  BY <1>19 DEF IsrExit
<1>20. CASE TaskletStart
  BY <1>20 DEF TaskletStart
<1>21. CASE TaskletChannel
  BY <1>21 DEF TaskletChannel
<1>22. CASE TaskletDone
  BY <1>22 DEF TaskletDone
<1>23. ASSUME NEW c \in Channels, WorkStart(c) PROVE PinInv'
  BY <1>23 DEF WorkStart
<1>24. ASSUME NEW c \in Channels, WorkComplete(c) PROVE PinInv'
  BY <1>24 DEF WorkComplete, DmaCompletion
<1>25. ASSUME NEW c \in Channels, WorkWake(c) PROVE PinInv'
  BY <1>25 DEF WorkWake
<1>26. CASE UNCHANGED vars
  BY <1>26 DEF vars
<1> HIDE DEF PinInv
<1> QED
  BY <1>1, <1>2, <1>3, <1>4, <1>5, <1>6, <1>7, <1>8, <1>9, <1>10, <1>11,
     <1>12, <1>13, <1>14, <1>15, <1>16, <1>17, <1>18, <1>19, <1>20, <1>21,
     <1>22, <1>23, <1>24, <1>25, <1>26
  DEF Next, ClientCall, CallStep, IsrStep, TaskletStep, WorkStep

LEMMA AlwaysPinInv == Spec => [](TypeInv /\ PinInv)
<1>1. Init => TypeInv /\ PinInv
  BY InitTypeInv, InitPinInv
<1>2. TypeInv /\ PinInv /\ [Next]_vars => (TypeInv /\ PinInv)'
  BY StepTypeInv, StepPinInv
<1> QED
  BY <1>1, <1>2, PTL DEF Spec
-----------------------------------------------------------------------------
\* The abstract state is a function of these variables.
LEMMA ContractStutters ==
  UNCHANGED <<owner, state, mapInfo, engine>> => UNCHANGED Contract!vars
BY DEF Contract!vars, Mapped, Lent, PhaseOf

\* An engine at work is on the mapping its channel holds.
LEMMA LentIsHeld == EngineIsOwned => Lent = [c \in Channels |-> mapInfo[c]]
<1> SUFFICES ASSUME EngineIsOwned, NEW c \in Channels, engine[c] # Stopped
             PROVE  engine[c].to = mapInfo[c]
  BY DEF Lent
<1>1. engine[c] = [to |-> mapInfo[c], mode |-> mode[c]]
  BY DEF EngineIsOwned
<1> QED
  BY <1>1

LEMMA LentIsHeldNext ==
  EngineIsOwned' => Lent' = [c \in Channels |-> mapInfo'[c]]
<1> SUFFICES ASSUME EngineIsOwned', NEW c \in Channels, engine'[c] # Stopped
             PROVE  engine'[c].to = mapInfo'[c]
  BY DEF Lent, Stopped
<1>1. engine'[c] = [to |-> mapInfo'[c], mode |-> mode'[c]]
  BY DEF EngineIsOwned, Stopped
<1> QED
  BY <1>1

\* A mapping that names no channel is lent to none.
LEMMA UnnamedIsNotLent ==
  ASSUME DedicatedInv, NEW id \in MapIds, activeChannel[id] = Inactive,
         NEW c \in Channels
  PROVE  Lent[c] # id
<1>1. Lent[c] = mapInfo[c]
  BY LentIsHeld DEF DedicatedInv
<1>2. state[c] # "IDLE" => activeChannel[mapInfo[c]] = c
  BY DEF DedicatedInv, LentInv, MapOutlivesTransfer
<1>3. state[c] = "IDLE" => mapInfo[c] = NoMap
  BY DEF DedicatedInv, LentInv, BusyInv, TypeInv, IdleHoldsNothing
<1> QED
  BY <1>1, <1>2, <1>3, TransferAssumption DEF TransferAssumption, Inactive

LEMMA InitContract == Init => Contract!Init
BY TransferAssumption
   DEF TransferAssumption, Init, Contract!Init, Mapped, Lent, PhaseOf

\* Each step of the driver is one step of the contract, or none.
LEMMA StepContract ==
  ASSUME DedicatedUse
  PROVE  DedicatedInv /\ DedicatedInv' /\ PinInv /\ [Next]_vars
           => [Contract!Next]_Contract!vars
<1> SUFFICES ASSUME DedicatedInv, DedicatedInv', PinInv, [Next]_vars
             PROVE  Contract!Next \/ UNCHANGED Contract!vars
  OBVIOUS
<1>a. /\ owner \in [MapIds -> Files \cup {Driver, Free}]
      /\ state \in [Channels -> States]
      /\ mapInfo \in [Channels -> MapIds \cup {NoMap}]
      /\ engine \in [Channels -> Engines]
      /\ unmap \in MapIds \cup {NoMap}
  BY DEF DedicatedInv, LentInv, BusyInv, TypeInv, TypeOK
<1>b. /\ Lent = [c \in Channels |-> mapInfo[c]]
      /\ Lent' = [c \in Channels |-> mapInfo'[c]]
  BY LentIsHeld, LentIsHeldNext DEF DedicatedInv
<1>c. \A c \in Channels : engine[c] # Stopped => state[c] = "RUNNING"
  BY DEF DedicatedInv, EngineIsOwned
<1> USE DEF callVars, mapVars, chanVars, irqVars
<1>1. ASSUME NEW f \in Files, NEW id \in MapIds, LockBuffer(f, id)
      PROVE  Contract!Map(id)
  <2>1. Mapped' = Mapped \cup {id} /\ id \notin Mapped
    BY <1>1, <1>a, TransferAssumption DEF TransferAssumption, LockBuffer, Mapped
  <2> QED
    BY <1>1, <2>1 DEF LockBuffer, Contract!Map, Lent, PhaseOf
<1>2. CASE FreeMapping
  <2>1. unmap \in MapIds /\ activeChannel[unmap] = Inactive
    BY <1>2, <1>a DEF FreeMapping, DedicatedInv, LentInv, BusyInv, TypeInv,
       CallOK, ActiveIsBusy
  <2>2. owner[unmap] \in Files
    BY <2>1, TransferAssumption DEF TransferAssumption, PinInv
  <2>3. unmap \in Mapped \ DriverMaps /\ Mapped' = Mapped \ {unmap}
    BY <1>2, <1>a, <2>1, <2>2, TransferAssumption
    DEF TransferAssumption, FreeMapping, Mapped, PinInv
  <2>4. \A c \in Channels : Lent[c] # unmap
    BY <2>1, UnnamedIsNotLent
  <2>5. Contract!Unmap(unmap)
    BY <1>2, <2>3, <2>4 DEF FreeMapping, Contract!Unmap, Lent, PhaseOf
  <2> QED
    BY <2>1, <2>5 DEF Contract!Next
<1>3. ASSUME NEW f \in Files, NEW c \in Channels, NEW id \in MapIds,
             NEW m \in Modes, Execute(f, c, id, m)
      PROVE  Contract!Lend(c, id)
  <2>1. id \in Mapped
    BY <1>3, TransferAssumption
    DEF TransferAssumption, Execute, ValidRequest, Mapped
  <2>2. \A d \in Channels : Lent[d] # id
    BY <1>3, UnnamedIsNotLent DEF DedicatedUse, Execute, ValidRequest
  <2>3. /\ state[c] = "IDLE" /\ engine[c] = Stopped /\ engine' = engine
        /\ state' = [state EXCEPT ![c] = "INITIALIZED"]
        /\ mapInfo' = [mapInfo EXCEPT ![c] = id]
        /\ owner' = owner
    BY <1>3, <1>c DEF Execute, ValidRequest, InitDmaInfo
  <2>4. PhaseOf[c] = "free" /\ PhaseOf' = [PhaseOf EXCEPT ![c] = "prepared"]
    BY <1>a, <2>3 DEF PhaseOf
  <2>5. Lent' = [Lent EXCEPT ![c] = id]
    BY <1>a, <1>b, <2>3
  <2> QED
    BY <2>1, <2>2, <2>3, <2>4, <2>5 DEF Contract!Lend, Mapped
<1>4. CASE StartDma
  <2>1. ch \in Channels /\ state[ch] = "INITIALIZED"
    BY <1>4 DEF StartDma, DedicatedInv, LentInv, BusyInv, TypeInv, CallOK
  <2>2. mapInfo[ch] \in MapIds
    BY <1>a, <2>1 DEF DedicatedInv, LentInv, MapOutlivesTransfer
  <2>3. /\ engine' = [engine EXCEPT ![ch] = [to |-> mapInfo[ch], mode |-> mode[ch]]]
        /\ state' = [state EXCEPT ![ch] = "RUNNING"]
        /\ UNCHANGED <<owner, mapInfo>>
    BY <1>4 DEF StartDma
  <2>4. [to |-> mapInfo[ch], mode |-> mode[ch]] # Stopped
    BY <2>2, TransferAssumption DEF TransferAssumption, Stopped
  <2>5. engine[ch] = Stopped
    BY <1>c, <2>1
  <2>6. PhaseOf[ch] = "prepared" /\ PhaseOf' = [PhaseOf EXCEPT ![ch] = "device"]
    BY <1>a, <2>1, <2>3, <2>4, <2>5 DEF PhaseOf
  <2>7. Contract!Launch(ch)
    BY <1>b, <2>3, <2>6 DEF Contract!Launch, Mapped
  <2> QED
    BY <2>1, <2>7 DEF Contract!Next
<1>5. CASE FailStart
  <2>1. ch \in Channels /\ state[ch] = "INITIALIZED"
    BY <1>5 DEF FailStart, DedicatedInv, LentInv, BusyInv, TypeInv, CallOK
  <2>2. PICK s \in {"INITIALIZED", "ERROR"} : state' = [state EXCEPT ![ch] = s]
    BY <1>5 DEF FailStart
  <2>3. UNCHANGED <<owner, mapInfo, engine>>
    BY <1>5 DEF FailStart
  <2>4. PhaseOf' = PhaseOf
    BY <1>a, <2>1, <2>2, <2>3 DEF PhaseOf
  <2> QED
    BY <2>3, <2>4 DEF Contract!vars, Mapped, Lent
<1>6. ASSUME NEW c \in Channels, ResetDmaInfo(c), owner' = owner,
             engine' = [engine EXCEPT ![c] = Stopped]
      PROVE  Contract!Release(c) \/ UNCHANGED Contract!vars
  <2>1. CASE state[c] = "IDLE"
    <3>1. engine' = engine
      BY <1>6, <1>a, <1>c, <2>1
    <3> QED
      BY <1>6, <2>1, <3>1, ContractStutters DEF ResetDmaInfo
  <2>2. CASE state[c] # "IDLE"
    <3>1. /\ state' = [state EXCEPT ![c] = "IDLE"]
          /\ mapInfo' = [mapInfo EXCEPT ![c] = NoMap]
      BY <1>6, <2>2 DEF ResetDmaInfo
    <3>2. PhaseOf[c] # "free" /\ PhaseOf' = [PhaseOf EXCEPT ![c] = "free"]
      BY <1>6, <1>a, <2>2, <3>1 DEF PhaseOf
    <3>3. Lent' = [Lent EXCEPT ![c] = NoMap]
      BY <1>a, <1>b, <3>1
    <3> QED
      BY <1>6, <3>2, <3>3 DEF Contract!Release, Mapped
  <2> QED
    BY <2>1, <2>2
<1>7. CASE Cleanup
  <2>1. ch \in Channels /\ state[ch] # "RUNNING"
    BY <1>7 DEF Cleanup, DedicatedInv, UseInv, LentInv, BusyInv, TypeInv, CallOK
  <2>2. engine' = [engine EXCEPT ![ch] = Stopped]
    BY <1>7, <1>a, <1>c, <2>1 DEF Cleanup
  <2> QED
    BY <1>6, <1>7, <2>1, <2>2 DEF Cleanup, Contract!Next
<1>11. CASE UNCHANGED <<owner, state, mapInfo, engine>>
  BY <1>11, ContractStutters
<1>8. CASE Halt
  <2>1. ch \in Channels
    BY <1>8 DEF Halt, DedicatedInv, LentInv, BusyInv, TypeInv, CallOK
  <2>2. /\ ResetDmaInfo(ch) /\ owner' = owner /\ paramsChannel[ch] \in Channels
        /\ engine' = [engine EXCEPT ![paramsChannel[ch]] = Stopped]
    BY <1>8, <2>1
    DEF Halt, ResetDmaController, DedicatedInv, LentInv, BusyInv, TypeInv, TypeOK
  <2>3. CASE paramsChannel[ch] = ch
    BY <1>6, <2>1, <2>2, <2>3 DEF Contract!Next
  <2>4. CASE paramsChannel[ch] # ch
    <3> DEFINE d == paramsChannel[ch]
    <3>1. UNCHANGED <<owner, state, mapInfo>>
      BY <2>1, <2>2, <2>4 DEF ResetDmaInfo, DedicatedInv, UseInv
    <3>2. CASE engine[d] = Stopped
      BY <1>11, <1>a, <2>2, <3>1, <3>2
    <3>3. CASE engine[d] # Stopped
      <4>1. PhaseOf[d] = "device" /\ PhaseOf' = [PhaseOf EXCEPT ![d] = "done"]
        BY <1>a, <1>c, <2>2, <3>1, <3>3 DEF PhaseOf
      <4>2. Contract!DeviceFinishes(d)
        BY <1>b, <3>1, <4>1 DEF Contract!DeviceFinishes, Mapped
      <4> QED
        BY <2>2, <4>2 DEF Contract!Next
    <3> QED
      BY <3>2, <3>3
  <2> QED
    BY <2>3, <2>4
<1>9. ASSUME NEW c \in Channels, EngineFinishes(c)
      PROVE  Contract!DeviceFinishes(c)
  <2>1. engine[c] # Stopped /\ state[c] = "RUNNING"
    BY <1>9, <1>c DEF EngineFinishes, Stopped
  <2>2. PhaseOf[c] = "device" /\ PhaseOf' = [PhaseOf EXCEPT ![c] = "done"]
    BY <1>9, <1>a, <2>1 DEF EngineFinishes, PhaseOf
  <2> QED
    BY <1>9, <1>b, <2>2 DEF EngineFinishes, Contract!DeviceFinishes, Mapped
<1>10. ASSUME NEW c \in Channels, WorkComplete(c)
       PROVE  UNCHANGED Contract!vars
  <2>1. UNCHANGED <<owner, mapInfo, engine>>
    BY <1>10 DEF WorkComplete
  <2>2. \/ state' = state
        \/ state[c] = "RUNNING" /\ state' = [state EXCEPT ![c] = "COMPLETE"]
    BY <1>10 DEF WorkComplete, DmaCompletion
  <2>3. PhaseOf' = PhaseOf
    BY <1>a, <2>1, <2>2 DEF PhaseOf
  <2> QED
    BY <2>1, <2>3 DEF Contract!vars, Mapped, Lent
<1>12. ASSUME NEW id \in MapIds, SafeDmaUnmap(id)
       PROVE  UNCHANGED <<owner, state, mapInfo, engine>>
  BY <1>12 DEF SafeDmaUnmap
<1> QED
  <2>1. CASE ClientCall
    <3>1. PICK f \in Files :
            \/ Close(f)
            \/ \E id \in MapIds : LockBuffer(f, id) \/ UnlockBuffer(f, id)
            \/ \E c \in Channels : Cancel(f, c)
            \/ \E c \in Channels, id \in MapIds, m \in Modes : Execute(f, c, id, m)
      BY <2>1 DEF ClientCall
    <3>2. CASE Close(f) \/ \E c \in Channels : Cancel(f, c)
      BY <1>11, <3>2 DEF Close, Cancel
    <3>3. CASE \E id \in MapIds : UnlockBuffer(f, id)
      BY <1>11, <1>12, <3>3 DEF UnlockBuffer
    <3> QED
      BY <1>1, <1>3, <3>1, <3>2, <3>3 DEF Contract!Next
  <2>2. CASE CallStep
    <3>1. CASE CloseNext
      BY <1>11, <1>12, <3>1 DEF CloseNext
    <3>2. CASE CheckCompleted \/ WaitExpired
      BY <1>11, <3>2 DEF CheckCompleted, WaitExpired
    <3> QED
      BY <1>2, <1>4, <1>5, <1>7, <1>8, <2>2, <3>1, <3>2 DEF CallStep
  <2>3. CASE IsrStep
    BY <1>11, <2>3 DEF IsrStep, IsrEnter, IsrLoadMask, IsrStream, IsrExit
  <2>4. CASE TaskletStep
    BY <1>11, <2>4 DEF TaskletStep, TaskletStart, TaskletChannel, TaskletDone
  <2>5. ASSUME NEW c \in Channels, EngineAdvances(c) \/ WorkStart(c) \/ WorkWake(c)
        PROVE  UNCHANGED Contract!vars
    <3>1. UNCHANGED <<owner, state, mapInfo, engine>>
      BY <2>5 DEF EngineAdvances, WorkStart, WorkWake
    <3> QED
      BY <3>1, ContractStutters
  <2>6. CASE UNCHANGED vars
    BY <1>11, <2>6 DEF vars
  <2> QED
    BY <1>9, <1>10, <2>1, <2>2, <2>3, <2>4, <2>5, <2>6
    DEF Next, WorkStep, Contract!Next

\* The DMA core implements the contract.
THEOREM ImplementsContract ==
  ASSUME DedicatedUse
  PROVE  Spec => ContractSpec
BY InitContract, StepContract, AlwaysDedicatedInv, AlwaysPinInv, PTL
   DEF Spec, ContractSpec, Contract!Spec
=============================================================================
