--------------------------- MODULE DmaTransferProofs ---------------------------
(***************************************************************************)
(* Proofs about DmaTransfer, for all files, channels, mappings and uses of *)
(* the channels.                                                           *)
(***************************************************************************)
EXTENDS DmaTransfer, TLAPS

\* What the call in progress knows of its channel and its mapping.
CallOK ==
  /\ pc \in {"start", "wait", "asleep", "reset", "halt"} => ch \in Channels
  /\ pc = "start" => state[ch] = "INITIALIZED"
  /\ unmap # NoMap => pc \in {"halt", "free"}
  /\ pc = "free" => unmap # NoMap

\* A channel is idle exactly when it holds no mapping.
IdleHoldsNothing == \A c \in Channels : state[c] = "IDLE" <=> mapInfo[c] = NoMap

TypeInv == TypeOK /\ CallOK /\ IdleHoldsNothing

LEMMA InitTypeInv == Init => TypeInv
<1> SUFFICES ASSUME Init PROVE TypeInv
  OBVIOUS
<1> USE TransferAssumption DEF TransferAssumption, Init
<1>1. owner \in [MapIds -> Files \cup {Driver, Free}]
  OBVIOUS
<1>2. engine \in [Channels -> Engines]
  BY DEF Engines
<1>3. TypeOK
  BY <1>1, <1>2 DEF TypeOK, States, Modes, Inactive
<1>4. CallOK /\ IdleHoldsNothing
  BY DEF CallOK, IdleHoldsNothing
<1> QED
  BY <1>3, <1>4 DEF TypeInv

LEMMA StepTypeInv == TypeInv /\ [Next]_vars => TypeInv'
<1> SUFFICES ASSUME TypeInv, [Next]_vars PROVE TypeInv'
  OBVIOUS
<1> USE TransferAssumption
<1> USE DEF TransferAssumption, TypeInv, TypeOK, CallOK, IdleHoldsNothing, States, Inactive, callVars,
            mapVars, chanVars, isrVars, softVars, workVars, irqVars
<1>1. ASSUME NEW f \in Files, NEW id \in MapIds, LockBuffer(f, id) PROVE TypeInv'
  BY <1>1 DEF LockBuffer
<1>2. ASSUME NEW f \in Files, NEW id \in MapIds, UnlockBuffer(f, id)
      PROVE TypeInv'
  BY <1>2 DEF UnlockBuffer, SafeDmaUnmap, BeginAbort, DisableStreamIrq
<1>3. CASE FreeMapping
  BY <1>3 DEF FreeMapping, CallReturns
<1>4. ASSUME NEW f \in Files, Close(f) PROVE TypeInv'
  BY <1>4 DEF Close
<1>5. CASE CloseNext
  <2>1. ASSUME NEW id \in MapIds, SafeDmaUnmap(id), UNCHANGED <<caller, closing>>
        PROVE TypeInv'
    BY <2>1 DEF SafeDmaUnmap, BeginAbort, DisableStreamIrq
  <2>2. ASSUME CallReturns,
               UNCHANGED <<mapVars, chanVars, fastIrqMask, irqVars, engine>>
        PROVE TypeInv'
    BY <2>2 DEF CallReturns
  <2> QED
    BY <1>5, <2>1, <2>2 DEF CloseNext
<1>6. ASSUME NEW f \in Files, NEW c \in Channels, NEW id \in MapIds,
             NEW m \in Modes, Execute(f, c, id, m)
      PROVE TypeInv'
  BY <1>6 DEF Execute, ValidRequest, InitDmaInfo, EnableStreamIrq
<1>7. CASE StartDma
  BY <1>7 DEF StartDma, CallReturns, Engines
<1>8. CASE FailStart
  BY <1>8 DEF FailStart
<1>9. CASE CheckCompleted
  BY <1>9 DEF CheckCompleted
<1>10. CASE WaitExpired
  BY <1>10 DEF WaitExpired
<1>11. CASE Cleanup
  <2>1. CASE state[ch] = "RUNNING"
    BY <1>11, <2>1 DEF Cleanup, BeginAbort, DisableStreamIrq
  <2>2. CASE state[ch] # "RUNNING"
    BY <1>11, <2>2 DEF Cleanup, ResetDmaInfo, CallReturns
  <2> QED
    BY <2>1, <2>2
<1>12. ASSUME NEW f \in Files, NEW c \in Channels, Cancel(f, c) PROVE TypeInv'
  BY <1>12 DEF Cancel, BeginAbort, DisableStreamIrq
<1>13. CASE Halt
  <2>1. /\ ch \in Channels /\ paramsChannel[ch] \in Channels
        /\ ResetDmaInfo(ch) /\ ResetDmaController(paramsChannel[ch])
    BY <1>13 DEF Halt
  <2>2. /\ engine' \in [Channels -> Engines]
        /\ irqStatus' \in SUBSET Channels
    BY <2>1 DEF ResetDmaController, Engines
  <2>3. /\ activeChannel' \in [MapIds -> Channels \cup {Inactive}]
        /\ state' \in [Channels -> States]
        /\ mapInfo' \in [Channels -> MapIds \cup {NoMap}]
        /\ IdleHoldsNothing'
    BY <2>1 DEF ResetDmaInfo
  <2>4. CASE unmap # NoMap
    BY <1>13, <2>2, <2>3, <2>4 DEF Halt
  <2>5. CASE unmap = NoMap
    BY <1>13, <2>2, <2>3, <2>5 DEF Halt, CallReturns
  <2> QED
    BY <2>4, <2>5
<1>14. ASSUME NEW c \in Channels, EngineFinishes(c) PROVE TypeInv'
  BY <1>14 DEF EngineFinishes, Engines
<1>15. ASSUME NEW c \in Channels, EngineAdvances(c) PROVE TypeInv'
  BY <1>15 DEF EngineAdvances
<1>16. CASE IsrStep
  <2>1. CASE IsrEnter
    BY <2>1 DEF IsrEnter
  <2>2. CASE IsrLoadMask
    BY <2>2 DEF IsrLoadMask
  <2>3. CASE IsrStream
    BY <2>3 DEF IsrStream
  <2>4. CASE IsrExit
    BY <2>4 DEF IsrExit
  <2> QED
    BY <1>16, <2>1, <2>2, <2>3, <2>4 DEF IsrStep
<1>17. CASE TaskletStep
  <2>1. CASE TaskletStart
    BY <2>1 DEF TaskletStart
  <2>2. CASE TaskletChannel
    BY <2>2 DEF TaskletChannel
  <2>3. CASE TaskletDone
    BY <2>3 DEF TaskletDone
  <2> QED
    BY <1>17, <2>1, <2>2, <2>3 DEF TaskletStep
<1>18. ASSUME NEW c \in Channels, WorkStart(c) PROVE TypeInv'
  BY <1>18 DEF WorkStart
<1>19. ASSUME NEW c \in Channels, WorkComplete(c) PROVE TypeInv'
  BY <1>19 DEF WorkComplete, DmaCompletion
<1>20. ASSUME NEW c \in Channels, WorkWake(c) PROVE TypeInv'
  BY <1>20 DEF WorkWake
<1>21. CASE UNCHANGED vars
  BY <1>21 DEF vars
<1> QED
  BY <1>1, <1>2, <1>3, <1>4, <1>5, <1>6, <1>7, <1>8, <1>9, <1>10, <1>11, <1>12,
     <1>13, <1>14, <1>15, <1>16, <1>17, <1>18, <1>19, <1>20, <1>21
  DEF Next, ClientCall, CallStep, WorkStep

LEMMA AlwaysTypeInv == Spec => []TypeInv
BY InitTypeInv, StepTypeInv, PTL DEF Spec

\* Every variable keeps its type, whatever clients do and however waits end.
THEOREM TypeCorrect == Spec => []TypeOK
<1>1. TypeInv => TypeOK
  BY DEF TypeInv
<1> QED
  BY <1>1, AlwaysTypeInv, PTL
-----------------------------------------------------------------------------
\* Between the two steps of an unmap that found its mapping busy, the mapping
\* names the channel being halted.
UnmapOK == pc = "halt" /\ unmap # NoMap => activeChannel[unmap] = ch

BusyInv == TypeInv /\ ActiveIsBusy /\ UnmapOK

LEMMA InitBusyInv == Init => BusyInv
BY InitTypeInv DEF Init, BusyInv, ActiveIsBusy, UnmapOK

\* After reset_dma_info no mapping names the channel any more, and those that
\* name another are still the mappings those channels hold.
LEMMA ResetFreesMapping ==
  ASSUME TypeInv, ActiveIsBusy, NEW c \in Channels, ResetDmaInfo(c)
  PROVE  /\ \A id \in MapIds : activeChannel[id] = c => activeChannel'[id] = Inactive
         /\ \A id \in MapIds : activeChannel'[id] # Inactive =>
              mapInfo'[activeChannel'[id]] = id
<1> USE TransferAssumption
    DEF TransferAssumption, TypeInv, TypeOK, IdleHoldsNothing, ActiveIsBusy, Inactive
<1>1. CASE state[c] = "IDLE"
  <2>1. mapInfo[c] = NoMap
    BY <1>1
  <2>2. \A id \in MapIds : activeChannel[id] # c
    BY <2>1
  <2> QED
    BY <1>1, <2>2 DEF ResetDmaInfo
<1>2. CASE state[c] # "IDLE"
  <2>1. mapInfo[c] \in MapIds
    BY <1>2
  <2>2. \A id \in MapIds : activeChannel[id] = c => id = mapInfo[c]
    OBVIOUS
  <2>3. /\ activeChannel' = [activeChannel EXCEPT ![mapInfo[c]] = Inactive]
        /\ mapInfo' = [mapInfo EXCEPT ![c] = NoMap]
    BY <1>2 DEF ResetDmaInfo
  <2>4. \A id \in MapIds : activeChannel[id] = c => activeChannel'[id] = Inactive
    BY <2>1, <2>2, <2>3
  <2>5. ASSUME NEW id \in MapIds, activeChannel'[id] # Inactive
        PROVE  mapInfo'[activeChannel'[id]] = id
    <3>1. activeChannel'[id] = activeChannel[id] /\ activeChannel[id] # c
      BY <2>1, <2>3, <2>4, <2>5
    <3>2. activeChannel[id] \in Channels /\ mapInfo[activeChannel[id]] = id
      BY <2>5, <3>1
    <3> QED
      BY <2>3, <3>1, <3>2
  <2> QED
    BY <2>4, <2>5
<1> QED
  BY <1>1, <1>2

LEMMA StepBusyInv ==
  BusyInv /\ [Next]_vars => (ActiveIsBusy /\ UnmapOK)'
<1> SUFFICES ASSUME BusyInv, [Next]_vars PROVE (ActiveIsBusy /\ UnmapOK)'
  OBVIOUS
<1> USE TransferAssumption
<1> USE DEF TransferAssumption, BusyInv, TypeInv, TypeOK, CallOK, IdleHoldsNothing,
            ActiveIsBusy, UnmapOK, Inactive, callVars, mapVars,
            chanVars, isrVars, softVars, workVars, irqVars
<1>1. ASSUME NEW f \in Files, NEW id \in MapIds, LockBuffer(f, id)
      PROVE (ActiveIsBusy /\ UnmapOK)'
  BY <1>1 DEF LockBuffer
<1>2. ASSUME NEW f \in Files, NEW id \in MapIds, UnlockBuffer(f, id)
      PROVE (ActiveIsBusy /\ UnmapOK)'
  BY <1>2 DEF UnlockBuffer, SafeDmaUnmap, BeginAbort
<1>3. CASE FreeMapping
  BY <1>3 DEF FreeMapping, CallReturns
<1>4. ASSUME NEW f \in Files, Close(f)
      PROVE (ActiveIsBusy /\ UnmapOK)'
  BY <1>4 DEF Close
<1>5. CASE CloseNext
  BY <1>5 DEF CloseNext, SafeDmaUnmap, BeginAbort, CallReturns
<1>6. ASSUME NEW f \in Files, NEW c \in Channels, NEW id \in MapIds,
             NEW m \in Modes,
             Execute(f, c, id, m)
      PROVE (ActiveIsBusy /\ UnmapOK)'
  BY <1>6 DEF Execute, ValidRequest, InitDmaInfo
<1>7. CASE StartDma
  BY <1>7 DEF StartDma, CallReturns
<1>8. CASE FailStart
  BY <1>8 DEF FailStart
<1>9. CASE CheckCompleted
  BY <1>9 DEF CheckCompleted
<1>10. CASE WaitExpired
  BY <1>10 DEF WaitExpired
<1>11. CASE Cleanup
  <2>1. CASE state[ch] = "RUNNING"
    BY <1>11, <2>1 DEF Cleanup, BeginAbort
  <2>2. CASE state[ch] # "RUNNING"
    <3>1. ResetDmaInfo(ch) /\ CallReturns
      BY <1>11, <2>2 DEF Cleanup
    <3>2. ch \in Channels
      BY <1>11 DEF Cleanup
    <3>3. \A id \in MapIds : activeChannel'[id] # Inactive =>
                                mapInfo'[activeChannel'[id]] = id
      BY <3>1, <3>2, ResetFreesMapping
    <3> QED
      BY <3>1, <3>3 DEF CallReturns
  <2> QED
    BY <2>1, <2>2
<1>12. ASSUME NEW f \in Files, NEW c \in Channels, Cancel(f, c)
      PROVE (ActiveIsBusy /\ UnmapOK)'
  BY <1>12 DEF Cancel, BeginAbort
<1>13. CASE Halt
  <2>1. ResetDmaInfo(ch) /\ ch \in Channels
    BY <1>13 DEF Halt
  <2>2. \A id \in MapIds : activeChannel'[id] # Inactive =>
                              mapInfo'[activeChannel'[id]] = id
    BY <2>1, ResetFreesMapping
  <2>3. CASE unmap # NoMap
    <3>1. activeChannel[unmap] = ch /\ unmap \in MapIds
      BY <1>13, <2>3 DEF Halt
    <3>2. activeChannel'[unmap] = Inactive
      BY <2>1, <3>1, ResetFreesMapping
    <3> QED
      BY <1>13, <2>2, <2>3, <3>2 DEF Halt
  <2>4. CASE unmap = NoMap
    BY <1>13, <2>2, <2>4 DEF Halt, CallReturns
  <2> QED
    BY <2>3, <2>4
<1>14. ASSUME NEW c \in Channels, EngineFinishes(c)
      PROVE (ActiveIsBusy /\ UnmapOK)'
  BY <1>14 DEF EngineFinishes
<1>15. ASSUME NEW c \in Channels, EngineAdvances(c)
      PROVE (ActiveIsBusy /\ UnmapOK)'
  BY <1>15 DEF EngineAdvances
<1>16. CASE IsrStep
  BY <1>16 DEF IsrStep, IsrEnter, IsrLoadMask, IsrStream, IsrExit
<1>17. CASE TaskletStep
  BY <1>17 DEF TaskletStep, TaskletStart, TaskletChannel, TaskletDone
<1>18. ASSUME NEW c \in Channels, WorkStart(c)
      PROVE (ActiveIsBusy /\ UnmapOK)'
  BY <1>18 DEF WorkStart
<1>19. ASSUME NEW c \in Channels, WorkComplete(c)
      PROVE (ActiveIsBusy /\ UnmapOK)'
  BY <1>19 DEF WorkComplete, DmaCompletion
<1>20. ASSUME NEW c \in Channels, WorkWake(c)
      PROVE (ActiveIsBusy /\ UnmapOK)'
  BY <1>20 DEF WorkWake
<1>21. CASE UNCHANGED vars
  BY <1>21 DEF vars
<1> QED
  BY <1>1, <1>2, <1>3, <1>4, <1>5, <1>6, <1>7, <1>8, <1>9, <1>10, <1>11,
     <1>12, <1>13, <1>14, <1>15, <1>16, <1>17, <1>18, <1>19, <1>20, <1>21
  DEF Next, ClientCall, CallStep, WorkStep

\* The warning of tpce_dma_unlock_user_buffer never fires, even when clients
\* run two channels on one mapping.
THEOREM UnmapNeverWarns == Spec => []ActiveIsBusy
<1>1. Init => BusyInv
  BY InitBusyInv
<1>2. BusyInv /\ [Next]_vars => BusyInv'
  BY StepTypeInv, StepBusyInv DEF BusyInv
<1>3. BusyInv => ActiveIsBusy
  BY DEF BusyInv
<1> QED
  BY <1>1, <1>2, <1>3, PTL DEF Spec
-----------------------------------------------------------------------------
\* With exclusive mappings, a mapping in use names its user.
LentInv == BusyInv /\ MapOutlivesTransfer

LEMMA InitLentInv == Init => LentInv
BY InitBusyInv DEF Init, LentInv, MapOutlivesTransfer

LEMMA StepMapOutlives ==
  ASSUME ~ShareMaps
  PROVE  LentInv /\ [Next]_vars => MapOutlivesTransfer'
<1> SUFFICES ASSUME LentInv, [Next]_vars PROVE MapOutlivesTransfer'
  OBVIOUS
<1> USE TransferAssumption, ~ShareMaps
<1> USE DEF TransferAssumption, LentInv, BusyInv, TypeInv, TypeOK, CallOK,
            IdleHoldsNothing, ActiveIsBusy, MapOutlivesTransfer, Inactive,
            callVars, mapVars, chanVars, isrVars, softVars, workVars, irqVars
<1>1. ASSUME NEW f \in Files, NEW id \in MapIds, LockBuffer(f, id)
      PROVE MapOutlivesTransfer'
  BY <1>1 DEF LockBuffer
<1>2. ASSUME NEW f \in Files, NEW id \in MapIds, UnlockBuffer(f, id)
      PROVE MapOutlivesTransfer'
  BY <1>2 DEF UnlockBuffer, SafeDmaUnmap, BeginAbort
<1>3. CASE FreeMapping
  BY <1>3 DEF FreeMapping, CallReturns
<1>4. ASSUME NEW f \in Files, Close(f) PROVE MapOutlivesTransfer'
  BY <1>4 DEF Close
<1>5. CASE CloseNext
  BY <1>5 DEF CloseNext, SafeDmaUnmap, BeginAbort, CallReturns
<1>6. ASSUME NEW f \in Files, NEW c \in Channels, NEW id \in MapIds,
             NEW m \in Modes,
             Execute(f, c, id, m)
      PROVE MapOutlivesTransfer'
  BY <1>6 DEF Execute, ValidRequest, InitDmaInfo
<1>7. CASE StartDma
  BY <1>7 DEF StartDma, CallReturns
<1>8. CASE FailStart
  BY <1>8 DEF FailStart
<1>9. CASE CheckCompleted
  BY <1>9 DEF CheckCompleted
<1>10. CASE WaitExpired
  BY <1>10 DEF WaitExpired
<1>11. CASE Cleanup
  BY <1>11 DEF Cleanup, BeginAbort, ResetDmaInfo, CallReturns
<1>12. ASSUME NEW f \in Files, NEW c \in Channels, Cancel(f, c)
      PROVE MapOutlivesTransfer'
  BY <1>12 DEF Cancel, BeginAbort
<1>13. CASE Halt
  BY <1>13 DEF Halt, ResetDmaInfo, CallReturns
<1>14. ASSUME NEW c \in Channels, EngineFinishes(c) PROVE MapOutlivesTransfer'
  BY <1>14 DEF EngineFinishes
<1>15. ASSUME NEW c \in Channels, EngineAdvances(c) PROVE MapOutlivesTransfer'
  BY <1>15 DEF EngineAdvances
<1>16. CASE IsrStep
  BY <1>16 DEF IsrStep, IsrEnter, IsrLoadMask, IsrStream, IsrExit
<1>17. CASE TaskletStep
  BY <1>17 DEF TaskletStep, TaskletStart, TaskletChannel, TaskletDone
<1>18. ASSUME NEW c \in Channels, WorkStart(c) PROVE MapOutlivesTransfer'
  BY <1>18 DEF WorkStart
<1>19. ASSUME NEW c \in Channels, WorkComplete(c) PROVE MapOutlivesTransfer'
  BY <1>19 DEF WorkComplete, DmaCompletion
<1>20. ASSUME NEW c \in Channels, WorkWake(c) PROVE MapOutlivesTransfer'
  BY <1>20 DEF WorkWake
<1>21. CASE UNCHANGED vars
  BY <1>21 DEF vars
<1> QED
  BY <1>1, <1>2, <1>3, <1>4, <1>5, <1>6, <1>7, <1>8, <1>9, <1>10, <1>11,
     <1>12, <1>13, <1>14, <1>15, <1>16, <1>17, <1>18, <1>19, <1>20, <1>21
  DEF Next, ClientCall, CallStep, WorkStep

\* If clients use a mapping for one channel at a time, no mapping goes away
\* while a channel holds it, and unmapping it finds that channel.
THEOREM MapsOutliveTransfers ==
  ASSUME ~ShareMaps
  PROVE  Spec => []MapOutlivesTransfer
<1>1. Init => LentInv
  BY InitLentInv
<1>2. LentInv /\ [Next]_vars => LentInv'
  BY StepTypeInv, StepBusyInv, StepMapOutlives, ~ShareMaps DEF LentInv, BusyInv
<1>3. LentInv => MapOutlivesTransfer
  BY DEF LentInv
<1> QED
  BY <1>1, <1>2, <1>3, PTL DEF Spec
=============================================================================
