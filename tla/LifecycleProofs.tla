--------------------------- MODULE LifecycleProofs ---------------------------
(***************************************************************************)
(* Proofs about Lifecycle, for any boards, minors and files.  The          *)
(* inductive invariant holds whatever overlaps; a conjunct that an overlap *)
(* would break says so, and a theorem excludes the overlaps its property   *)
(* cannot bear, no others.                                                 *)
(***************************************************************************)
EXTENDS Lifecycle, FiniteSetTheorems, TLAPS

Used == {"open", "status", "remap", "remap_free"}

\* Every file of a call in progress has a device, registered or on its way out.
FileOK(f) ==
  /\ fd[f] = "closed" <=> ctx[f] = NoDev
  /\ fd[f] # "closed" => \/ life[ctx[f]] \in {"cdev"} \cup RemoveStages
                         \/ life[ctx[f]] = "gone" /\ goingAway[ctx[f]]

FilesOK == \A f \in Files : FileOK(f)

FlagOK ==
  \A d \in Devs : /\ life[d] \in RemoveStages => goingAway[d]
                  /\ goingAway[d] => life[d] \in RemoveStages \cup {"gone"}

\* A device is found under its minor only, from its registration to its removal.
TableOK ==
  /\ \A m \in Minors : devs[m] # NoDev => minor[devs[m]] = m
  /\ \A d \in Devs : minor[d] # NoMinor =>
       life[d] \in {"minor", "pci", "dma", "cdev"} \cup (RemoveStages \ {"unlisted"})

\* What the device owns follows from its progress, the structure and the stream
\* state apart.
HeldOK ==
  \A d \in Devs :
    /\ life[d] \notin {"absent", "gone"} => "struct" \in held[d]
    /\ life[d] = "absent" => "struct" \notin held[d]
    /\ "io_buffer" \in held[d] <=>
         life[d] \in {"io_buffer", "minor", "pci", "dma", "cdev"}
                       \cup (RemoveStages \ {"unlisted"})
    /\ "minor" \in held[d] <=>
         life[d] \in {"minor", "pci", "dma", "cdev"} \cup (RemoveStages \ {"unlisted"})
    /\ "pci" \in held[d] <=>
         life[d] \in {"pci", "dma", "cdev"} \cup (RemoveStages \ {"unplugged", "unlisted"})
    /\ "dma" \in held[d] <=>
         life[d] \in {"dma", "cdev"} \cup (RemoveStages \ {"unmapped", "unplugged", "unlisted"})
    /\ "cdev" \in held[d] <=> life[d] \in {"cdev", "flagged"}

\* Files that own a reference to the device, and the device's own.
Holders(d) == {f \in Files : ctx[f] = d /\ fd[f] \in Used \cup CloseStages}

OwnRef(d) == IF life[d] \in {"minor", "pci", "dma", "cdev"} \cup RemoveStages THEN 1 ELSE 0

\* The references are those of the holders, but for a probe that failed; the
\* structure of a device that is gone waits for the last of them.
RefOK(d) ==
  /\ IsFiniteSet(Holders(d))
  /\ life[d] # "gone" \/ goingAway[d] => refs[d] = OwnRef(d) + Cardinality(Holders(d))
  /\ life[d] = "gone" /\ "struct" \in held[d] => Holders(d) # {}

RefsOK == \A d \in Devs : RefOK(d)

\* open: no call has a device in hand that may be freed before it takes its reference.
OpenOK ==
  "open" \notin Races =>
    /\ \A f \in Files : fd[f] \in {"check", "ref"} => life[ctx[f]] # "gone"
    /\ \A d \in Devs : life[d] = "gone" /\ Holders(d) # {} => "struct" \in held[d]

\* status: the I/O buffer waits for DMA_STATUS.
StatusOK ==
  "status" \notin Races =>
    \A f \in Files : fd[f] = "status" => life[ctx[f]] \notin {"unlisted", "gone"}

\* The removal takes away what could use the device in this order: interrupts, the
\* tasklet, work items, the engine.
WithIrq == {"cdev", "flagged", "delisted"}

QuietOK ==
  \A d \in Devs :
    /\ engine[d] # NoFile => life[d] \in WithIrq \cup {"irq_off", "killed", "cancelled"}
    /\ "tasklet" \notin Races =>
         /\ irqOn[d] \/ tasklet[d] = "enable" => life[d] \in WithIrq
         /\ scheduled[d] \/ tasklet[d] = "on" => life[d] \in WithIrq \cup {"irq_off"}
         /\ queued[d] => life[d] \in WithIrq \cup {"irq_off", "killed"}

MappedOK == \A f \in Files : mapped[f] => fd[f] \in Used \cup {"release", "unmap"}

\* Of tpce_release and tpce_dma_free, each loses a mapping to the other only.
MapOK ==
  /\ \A d \in Devs : cursor[d] # NoFile => life[d] = "reset"
  /\ \A d \in Devs, f \in Files :
       cursor[d] = f /\ ctx[f] = d /\ fd[f] \notin {"unlock", "drop", "check"} => mapped[f]
  /\ \A f \in Files : fd[f] = "unmap" /\ ~mapped[f] => life[ctx[f]] \in AfterReset

\* References to the stream state: every area, and 0 for an mmap that fails.
Clients(d) ==
  {u \in Files \X (0 .. MaxVmas) :
     /\ ctx[u[1]] = d
     /\ IF u[2] = 0 THEN fd[u[1]] = "remap" ELSE u[2] <= vmas[u[1]]}

StreamRef(d) == IF engine[d] = NoFile THEN 0 ELSE 1

\* remap: the page is there while it is counted, and one call at most frees it.
CountOK(d) ==
  /\ IsFiniteSet(Clients(d))
  /\ streamRefs[d] = StreamRef(d) + Cardinality(Clients(d))
  /\ "stream" \in held[d] => streamRefs[d] > 0 \/ Users(d, {"remap_free"}) # {}
  /\ "remap" \notin Races =>
       /\ streamRefs[d] > 0 => "stream" \in held[d] /\ Users(d, {"remap_free"}) = {}
       /\ \A f, g \in Users(d, {"remap_free"}) : f = g

StreamOK == /\ \A f \in Files : vmas[f] > 0 => fd[f] \in Used
            /\ \A d \in Devs : CountOK(d)

Inv == /\ TypeOK /\ FilesOK /\ FlagOK /\ TableOK /\ HeldOK /\ RefsOK
       /\ OpenOK /\ StatusOK /\ QuietOK /\ MappedOK /\ MapOK /\ StreamOK
-----------------------------------------------------------------------------
(* What the counts say                                                     *)

LEMMA HolderCounts ==
  ASSUME Inv, NEW f \in Files, fd[f] \in Used \cup CloseStages
  PROVE  /\ ctx[f] \in Devs /\ f \in Holders(ctx[f])
         /\ Cardinality(Holders(ctx[f])) \in Nat \ {0}
         /\ refs[ctx[f]] = OwnRef(ctx[f]) + Cardinality(Holders(ctx[f]))
         /\ life[ctx[f]] # "gone" => "struct" \in held[ctx[f]]
<1> USE DEF Inv
<1>1. /\ ctx[f] \in Devs /\ f \in Holders(ctx[f])
      /\ life[ctx[f]] # "gone" \/ goingAway[ctx[f]]
  BY DEF TypeOK, FilesOK, FileOK, Holders, Used, CloseStages, RemoveStages
<1>2. life[ctx[f]] # "gone" => "struct" \in held[ctx[f]]
  BY <1>1 DEF FilesOK, FileOK, HeldOK, RemoveStages, Used, CloseStages
<1>3. Cardinality(Holders(ctx[f])) \in Nat \ {0}
  BY <1>1, FS_EmptySet, FS_CardinalityType DEF RefsOK, RefOK
<1> QED
  BY <1>1, <1>2, <1>3 DEF RefsOK, RefOK

LEMMA StreamCounts ==
  ASSUME Inv, NEW d \in Devs
  PROVE  /\ Cardinality(Clients(d)) \in Nat
         /\ engine[d] # NoFile => streamRefs[d] > 0
         /\ \A f \in Files : ctx[f] = d /\ (vmas[f] > 0 \/ fd[f] = "remap")
                              => streamRefs[d] > 0
<1> USE DEF Inv
<1>1. Cardinality(Clients(d)) \in Nat
  BY FS_CardinalityType DEF StreamOK, CountOK
<1>2. engine[d] # NoFile => streamRefs[d] > 0
  BY <1>1 DEF StreamOK, CountOK, StreamRef
<1>3. ASSUME NEW f \in Files, ctx[f] = d, vmas[f] > 0 \/ fd[f] = "remap"
      PROVE  streamRefs[d] > 0
  <2>1. Clients(d) # {}
    <3>1. CASE fd[f] = "remap"
      <4>1. <<f, 0>> \in Clients(d)
        BY <1>3, <3>1, LifecycleAssumption DEF Clients, LifecycleAssumption
      <4> QED
        BY <4>1
    <3>2. CASE vmas[f] > 0
      <4>1. <<f, 1>> \in Clients(d)
        BY <1>3, <3>2, LifecycleAssumption DEF Clients, TypeOK, LifecycleAssumption
      <4> QED
        BY <4>1
    <3> QED
      BY <1>3, <3>1, <3>2
  <2>2. Cardinality(Clients(d)) # 0
    BY <2>1, FS_EmptySet DEF StreamOK, CountOK
  <2> QED
    BY <1>1, <2>2 DEF StreamOK, CountOK, StreamRef
<1> QED
  BY <1>1, <1>2, <1>3

LEMMA InitInv == Init => Inv
<1> SUFFICES ASSUME Init PROVE Inv
  OBVIOUS
<1> USE LifecycleAssumption DEF LifecycleAssumption, Init
<1>1. TypeOK
  BY DEF TypeOK, ProbeStages, OpenStages
<1>2. FilesOK /\ FlagOK /\ TableOK /\ HeldOK
  BY DEF FilesOK, FileOK, FlagOK, TableOK, HeldOK, RemoveStages
<1>3. RefsOK
  <2>1. \A d \in Devs : Holders(d) = {}
    BY DEF Holders, Used, CloseStages
  <2> QED
    <3>1. \A d \in Devs : /\ IsFiniteSet(Holders(d)) /\ Cardinality(Holders(d)) = 0
                          /\ OwnRef(d) = 0 /\ refs[d] = 0 /\ life[d] # "gone"
      BY <2>1, FS_EmptySet DEF OwnRef, RemoveStages
    <3>2. ASSUME NEW d \in Devs PROVE refs[d] = OwnRef(d) + Cardinality(Holders(d))
      <4>1. OwnRef(d) = 0 /\ Cardinality(Holders(d)) = 0 /\ refs[d] = 0
        BY <3>1
      <4> HIDE DEF Init
      <4> QED
        BY <4>1
    <3> QED
      BY <3>1, <3>2 DEF RefsOK, RefOK
<1>4. QuietOK /\ MappedOK /\ MapOK /\ OpenOK /\ StatusOK
  BY DEF QuietOK, MappedOK, MapOK, OpenOK, StatusOK
<1>5. StreamOK
  <2>1. \A d \in Devs : Clients(d) = {} /\ Users(d, {"remap_free"}) = {}
    BY DEF Clients, Users
  <2>2. \A d \in Devs : IsFiniteSet(Clients(d)) /\ Cardinality(Clients(d)) = 0
    BY <2>1, FS_EmptySet
  <2>3. \A d \in Devs : \A f, g \in Users(d, {"remap_free"}) : f = g
    BY <2>1
  <2>4. /\ \A d \in Devs : engine[d] = NoFile /\ streamRefs[d] = 0 /\ held[d] = {}
        /\ \A f \in Files : ~(vmas[f] > 0)
    OBVIOUS
  <2> QED
    BY <2>1, <2>2, <2>3, <2>4 DEF StreamOK, CountOK, StreamRef
<1> QED
  BY <1>1, <1>2, <1>3, <1>4, <1>5 DEF Inv
-----------------------------------------------------------------------------
(* Types                                                                   *)

LEMMA StreamTyped ==
  ASSUME Inv, NEW d \in Devs,
         \/ InitStreamInfo(d) /\ engine' \in [Devs -> Files \cup {Driver, NoFile}]
         \/ engine[d] # NoFile /\ FreeStreamInfo(d) /\ UNCHANGED engine
         \/ StopStream(d)
         \/ UNCHANGED <<held, dmaVars>>
  PROVE  /\ held' \in [Devs -> SUBSET Resources]
         /\ streamRefs' \in [Devs -> Nat]
         /\ engine' \in [Devs -> Files \cup {Driver, NoFile}]
<1>1. TypeOK /\ streamRefs[d] \in Nat
  BY DEF Inv, TypeOK
<1>2. engine[d] # NoFile => streamRefs[d] - 1 \in Nat
  BY <1>1, StreamCounts
<1> QED
  BY <1>1, <1>2 DEF TypeOK, InitStreamInfo, FreeStreamInfo, StopStream, dmaVars, Resources

LEMMA StepTypeOK == Inv /\ [Next]_vars => TypeOK'
<1> SUFFICES ASSUME Inv, [Next]_vars PROVE TypeOK'
  OBVIOUS
<1>0. TypeOK /\ LifecycleAssumption
  BY LifecycleAssumption DEF Inv
<1> USE <1>0 DEF TypeOK, probeRest, dmaVars, irqVars, fileVars
<1>1. ASSUME NEW d \in Devs, ProbeAlloc(d) \/ ProbePci(d) \/ ProbeDma(d) \/ ProbeCdev(d)
      PROVE  TypeOK'
  BY <1>1 DEF ProbeAlloc, ProbePci, ProbeDma, ProbeCdev, Acquire, Resources, ProbeStages
<1>2. ASSUME NEW d \in Devs, ProbeMinor(d) PROVE TypeOK'
  BY <1>2 DEF ProbeMinor, Acquire, Resources, ProbeStages, FreeMinors
<1>3. ASSUME NEW d \in Devs, ProbeFails(d) PROVE TypeOK'
  BY <1>3 DEF ProbeFails, Unlist
<1>4. ASSUME NEW f \in Files, NEW m \in Minors, OpenLookup(f, m) PROVE TypeOK'
  BY <1>4 DEF OpenLookup, OpenStages
<1>5. ASSUME NEW f \in Files, OpenCheck(f) PROVE TypeOK'
  BY <1>5 DEF OpenCheck, OpenStages
<1>6. ASSUME NEW f \in Files, OpenRef(f) PROVE TypeOK'
  <2>1. ctx[f] \in Devs
    BY <1>6 DEF OpenRef, Inv, FilesOK, FileOK
  <2> QED
    BY <1>6, <2>1 DEF OpenRef
<1>7. ASSUME NEW f \in Files, LockBuffer(f) \/ EnableIrq(f) PROVE TypeOK'
  BY <1>7 DEF LockBuffer, EnableIrq
<1>8. ASSUME NEW f \in Files, UnlockBuffer(f) \/ ReleaseUnmap(f) PROVE TypeOK'
  <2>1. ctx[f] \in Devs
    BY <1>8, HolderCounts DEF UnlockBuffer, ReleaseUnmap, Call, Used, CloseStages
  <2>2. SafeDmaUnmap(f)
    BY <1>8 DEF UnlockBuffer, ReleaseUnmap
  <2>3. /\ held' \in [Devs -> SUBSET Resources]
        /\ streamRefs' \in [Devs -> Nat]
        /\ engine' \in [Devs -> Files \cup {Driver, NoFile}]
    BY <2>1, <2>2, StreamTyped DEF SafeDmaUnmap
  <2>4. mapped' \in [Files -> BOOLEAN]
    BY <2>2 DEF SafeDmaUnmap
  <2> QED
    BY <1>8, <2>3, <2>4 DEF UnlockBuffer, ReleaseUnmap, CloseStages
<1>9. ASSUME NEW f \in Files, ExecuteStream(f) PROVE TypeOK'
  <2>1. ctx[f] \in Devs /\ InitStreamInfo(ctx[f])
    BY <1>9, HolderCounts DEF ExecuteStream, Call, Used, CloseStages
  <2>2. engine' \in [Devs -> Files \cup {Driver, NoFile}]
    <3>1. PICK b \in {f, Driver} : engine' = [engine EXCEPT ![ctx[f]] = b]
      BY <1>9 DEF ExecuteStream
    <3> QED
      BY <3>1
  <2>3. /\ held' \in [Devs -> SUBSET Resources]
        /\ streamRefs' \in [Devs -> Nat]
    BY <2>1, <2>2, StreamTyped
  <2> QED
    BY <1>9, <2>2, <2>3 DEF ExecuteStream
<1>10. ASSUME NEW f \in Files, Cancel(f) PROVE TypeOK'
  <2>1. ctx[f] \in Devs /\ StopStream(ctx[f])
    BY <1>10, HolderCounts DEF Cancel, Call, Used, CloseStages
  <2>2. /\ held' \in [Devs -> SUBSET Resources]
        /\ streamRefs' \in [Devs -> Nat]
        /\ engine' \in [Devs -> Files \cup {Driver, NoFile}]
    BY <2>1, StreamTyped
  <2> QED
    BY <1>10, <2>2 DEF Cancel
<1>11. ASSUME NEW f \in Files, StatusBegin(f) \/ StatusEnd(f) \/ Close(f) PROVE TypeOK'
  BY <1>11 DEF StatusBegin, StatusEnd, Close, CloseStages
<1>12. ASSUME NEW f \in Files, Mmap(f) PROVE TypeOK'
  <2>1. ctx[f] \in Devs /\ InitStreamInfo(ctx[f]) /\ UNCHANGED engine
    BY <1>12, HolderCounts DEF Mmap, Call, Used, CloseStages
  <2>2. /\ held' \in [Devs -> SUBSET Resources]
        /\ streamRefs' \in [Devs -> Nat]
    BY <2>1, StreamTyped
  <2>3. vmas' \in [Files -> 0 .. MaxVmas]
    <3>1. vmas[f] < MaxVmas => vmas[f] + 1 \in 0 .. MaxVmas
      BY DEF LifecycleAssumption
    <3> QED
      BY <1>12, <3>1 DEF Mmap
  <2>4. fd' \in [Files -> OpenStages \cup CloseStages \cup
                         {"open", "status", "remap", "remap_free"}]
    BY <1>12 DEF Mmap
  <2> QED
    BY <1>12, <2>2, <2>3, <2>4 DEF Mmap
<1>13. ASSUME NEW f \in Files, MmapReturnsEarly(f) PROVE TypeOK'
  BY <1>13 DEF MmapReturnsEarly
<1>14. ASSUME NEW f \in Files, RemapDrop(f) PROVE TypeOK'
  <2>1. ctx[f] \in Devs
    BY <1>14, HolderCounts DEF RemapDrop, Used, CloseStages
  <2>2. streamRefs[ctx[f]] - 1 \in Nat
    BY <1>14, <2>1, StreamCounts DEF RemapDrop
  <2> QED
    BY <1>14, <2>1, <2>2 DEF RemapDrop
<1>15. ASSUME NEW f \in Files, RemapFree(f) PROVE TypeOK'
  BY <1>15 DEF RemapFree
<1>16. ASSUME NEW f \in Files, VmaOpen(f) PROVE TypeOK'
  <2>1. vmas[f] + 1 \in 0 .. MaxVmas
    BY <1>16 DEF VmaOpen, LifecycleAssumption
  <2>2. ctx[f] \in Devs
    BY <1>16, HolderCounts DEF VmaOpen, Inv, StreamOK, Used, CloseStages
  <2> QED
    BY <1>16, <2>1, <2>2 DEF VmaOpen
<1>17. ASSUME NEW f \in Files, VmaClose(f) PROVE TypeOK'
  <2>1. vmas[f] - 1 \in 0 .. MaxVmas
    BY <1>17 DEF VmaClose, LifecycleAssumption
  <2>2. ctx[f] \in Devs /\ streamRefs[ctx[f]] - 1 \in Nat
    <3>1. ctx[f] \in Devs
      BY <1>17, HolderCounts DEF VmaClose, Inv, StreamOK, Used, CloseStages
    <3> QED
      BY <1>17, <3>1, StreamCounts DEF VmaClose
  <2> QED
    BY <1>17, <2>1, <2>2 DEF VmaClose, FreeStreamInfo
<1>18. ASSUME NEW f \in Files, ReleaseLock(f) \/ ReleaseUnlock(f) PROVE TypeOK'
  BY <1>18 DEF ReleaseLock, ReleaseUnlock, CloseStages
<1>19. ASSUME NEW f \in Files, ReleaseDrop(f) PROVE TypeOK'
  <2>1. ctx[f] \in Devs /\ refs[ctx[f]] - 1 \in Nat
    BY <1>19, HolderCounts DEF ReleaseDrop, Used, CloseStages, OwnRef
  <2> QED
    BY <1>19, <2>1 DEF ReleaseDrop, DropRef, OpenStages
<1>20. ASSUME NEW d \in Devs, Interrupt(d) \/ BottomHalf(d) PROVE TypeOK'
  <2>1. CASE Interrupt(d)
    BY <2>1 DEF Interrupt
  <2>2. CASE TaskletRun(d)
    BY <2>2 DEF TaskletRun
  <2>3. CASE TaskletCheck(d) \/ TaskletEnable(d)
    BY <2>3 DEF TaskletCheck, TaskletEnable
  <2>4. CASE WorkRun(d)
    BY <2>4 DEF WorkRun
  <2> QED BY <1>20, <2>1, <2>2, <2>3, <2>4 DEF BottomHalf
<1>21. ASSUME NEW d \in Devs, RemoveFlag(d) \/ RemoveIrq(d) \/ RemoveTasklet(d) \/ RemoveWork(d)
       PROVE  TypeOK'
  BY <1>21 DEF RemoveFlag, RemoveIrq, RemoveTasklet, RemoveWork, Advance, RemoveStages
<1>22. ASSUME NEW d \in Devs, RemoveReset(d) PROVE TypeOK'
  <2>1. /\ held' \in [Devs -> SUBSET Resources]
        /\ streamRefs' \in [Devs -> Nat]
        /\ engine' \in [Devs -> Files \cup {Driver, NoFile}]
    BY <1>22, StreamTyped DEF RemoveReset
  <2> QED
    BY <1>22, <2>1 DEF RemoveReset, Advance, RemoveStages
<1>23. ASSUME NEW d \in Devs, RemoveFindMapping(d) \/ RemoveMapping(d) PROVE TypeOK'
  <2>1. CASE RemoveFindMapping(d)
    BY <2>1 DEF RemoveFindMapping
  <2>2. CASE RemoveMapping(d)
    BY <2>2 DEF RemoveMapping
  <2> QED
    BY <1>23, <2>1, <2>2
<1>24. ASSUME NEW d \in Devs, RemoveCdev(d) \/ RemoveDma(d) \/ RemovePci(d) PROVE TypeOK'
  BY <1>24 DEF RemoveCdev, RemoveDma, RemovePci, Advance, RemoveStages
<1>25. ASSUME NEW d \in Devs, RemoveTable(d) PROVE TypeOK'
  BY <1>25 DEF RemoveTable, Unlist, Advance, RemoveStages
<1>26. ASSUME NEW d \in Devs, RemoveDrop(d) PROVE TypeOK'
  <2>1. refs[d] - 1 \in Nat
    <3>1. life[d] = "unlisted"
      BY <1>26 DEF RemoveDrop, Advance
    <3>2. refs[d] = 1 + Cardinality(Holders(d))
      BY <3>1 DEF Inv, RefsOK, RefOK, OwnRef, RemoveStages
    <3>3. Cardinality(Holders(d)) \in Nat
      BY FS_CardinalityType DEF Inv, RefsOK, RefOK
    <3> QED
      BY <3>2, <3>3
  <2> QED
    BY <1>26, <2>1 DEF RemoveDrop, DropRef, Advance
<1>27. CASE UNCHANGED vars
  BY <1>27 DEF vars
<1> QED
  BY <1>1, <1>2, <1>3, <1>4, <1>5, <1>6, <1>7, <1>8, <1>9, <1>10, <1>11, <1>12, <1>13,
     <1>14, <1>15, <1>16, <1>17, <1>18, <1>19, <1>20, <1>21, <1>22, <1>23, <1>24, <1>25,
     <1>26, <1>27
  DEF Next, Probe, Remove, Continue, UserCall
-----------------------------------------------------------------------------
(* Files and devices                                                       *)

LEMMA DeviceOfFile ==
  ASSUME Inv, NEW f \in Files, fd[f] # "closed"
  PROVE  /\ ctx[f] \in Devs
         /\ life[ctx[f]] \in {"cdev", "gone"} \cup RemoveStages
         /\ ~goingAway[ctx[f]] => life[ctx[f]] = "cdev"
BY DEF Inv, TypeOK, FilesOK, FileOK, FlagOK

\* The close that drops the last reference comes after the removal.
LEMMA LastCloseIsLast ==
  ASSUME Inv, NEW f \in Files, fd[f] \in CloseStages
  PROVE  refs[ctx[f]] = 1 <=> life[ctx[f]] = "gone" /\ Cardinality(Holders(ctx[f])) = 1
<1>1. /\ refs[ctx[f]] = OwnRef(ctx[f]) + Cardinality(Holders(ctx[f]))
      /\ Cardinality(Holders(ctx[f])) \in Nat \ {0}
  BY HolderCounts
<1>2. life[ctx[f]] \in {"cdev", "gone"} \cup RemoveStages
  BY DeviceOfFile DEF CloseStages
<1>3. OwnRef(ctx[f]) = IF life[ctx[f]] = "gone" THEN 0 ELSE 1
  BY <1>2 DEF OwnRef, RemoveStages
<1>4. CASE life[ctx[f]] = "gone"
  <2>1. OwnRef(ctx[f]) = 0
    BY <1>3, <1>4
  <2> QED
    BY <1>1, <1>4, <2>1
<1>5. CASE life[ctx[f]] # "gone"
  <2>1. OwnRef(ctx[f]) = 1
    BY <1>3, <1>5
  <2> QED
    BY <1>1, <1>5, <2>1
<1> QED
  BY <1>4, <1>5

\* An open call finds a device that is registered, or being removed.
LEMMA DeviceOfMinor ==
  ASSUME Inv, NEW m \in Minors, devs[m] # NoDev
  PROVE  /\ devs[m] \in Devs
         /\ minor[devs[m]] = m
         /\ life[devs[m]] \in {"minor", "pci", "dma", "cdev"} \cup (RemoveStages \ {"unlisted"})
<1>1. devs[m] \in Devs /\ minor[devs[m]] = m /\ m # NoMinor
  BY LifecycleAssumption DEF Inv, TypeOK, TableOK, LifecycleAssumption
<1> QED
  BY <1>1 DEF Inv, TableOK

\* What calls, interrupts and the removal leave alone.
LEMMA CallFrame ==
  ASSUME NEW f \in Files, UserCall(f) \/ ReleaseLock(f) \/ Continue(f)
  PROVE  UNCHANGED <<devs, life, minor, goingAway, cursor, scheduled, tasklet, queued>>
<1>1. CASE UserCall(f)
  BY <1>1 DEF UserCall, OpenLookup, LockBuffer, UnlockBuffer, ExecuteStream, Cancel, EnableIrq,
              StatusBegin, Mmap, MmapReturnsEarly, VmaOpen, VmaClose, Close, irqVars
<1>2. CASE ReleaseLock(f) \/ Continue(f)
  BY <1>2 DEF ReleaseLock, Continue, OpenCheck, OpenRef, StatusEnd, RemapDrop, RemapFree,
              ReleaseUnmap, ReleaseUnlock, ReleaseDrop, irqVars
<1> QED
  BY <1>1, <1>2

LEMMA IrqFrame ==
  ASSUME NEW d \in Devs, Interrupt(d) \/ BottomHalf(d)
  PROVE  UNCHANGED <<devs, life, held, minor, refs, goingAway, mutex, cursor, dmaVars, fileVars>>
BY DEF Interrupt, BottomHalf, TaskletRun, TaskletCheck, TaskletEnable, WorkRun

LEMMA RemoveFrame ==
  ASSUME NEW d \in Devs, Remove(d)
  PROVE  /\ UNCHANGED <<goingAway, mutex, fd, ctx, vmas>>
         /\ \/ UNCHANGED <<devs, life, held, minor, refs, dmaVars, irqVars>>
            \/ \E from \in RemoveStages, to \in RemoveStages \cup {"gone"} :
                 Advance(d, from, to)
<1>1. CASE RemoveFindMapping(d) \/ RemoveMapping(d)
  BY <1>1 DEF RemoveFindMapping, RemoveMapping, fileVars
<1>2. CASE ~(RemoveFindMapping(d) \/ RemoveMapping(d))
  <2>1. \E from \in RemoveStages, to \in RemoveStages \cup {"gone"} : Advance(d, from, to)
    BY <1>2 DEF Remove, RemoveCdev, RemoveIrq, RemoveTasklet, RemoveWork, RemoveReset,
                RemoveDma, RemovePci, RemoveTable, RemoveDrop, RemoveStages
  <2>2. UNCHANGED <<goingAway, mutex, fd, ctx, vmas>>
    BY <1>2 DEF Remove, RemoveCdev, RemoveIrq, RemoveTasklet, RemoveWork, RemoveReset,
                RemoveDma, RemovePci, RemoveTable, RemoveDrop, fileVars
  <2> QED
    BY <2>1, <2>2
<1> QED
  BY <1>1, <1>2

LEMMA StepFilesOK == Inv /\ [Next]_vars => FilesOK'
<1> SUFFICES ASSUME Inv, [Next]_vars, NEW g \in Files PROVE FileOK(g)'
  BY DEF FilesOK
<1>0. TypeOK /\ FileOK(g) /\ FlagOK /\ LifecycleAssumption
  BY LifecycleAssumption DEF Inv, FilesOK
<1> USE <1>0, DeviceOfFile DEF TypeOK, FileOK, probeRest, dmaVars, irqVars, fileVars
\* Nobody refers to a device that is not registered.
<1>1. ASSUME NEW d \in Devs, life[d] \in ProbeStages \ {"cdev"},
             UNCHANGED <<fd, ctx, goingAway>>, \A e \in Devs \ {d} : life'[e] = life[e]
      PROVE  FileOK(g)'
  <2>1. fd[g] # "closed" => ctx[g] # d
    BY <1>1 DEF ProbeStages, RemoveStages
  <2> QED
    BY <1>1, <2>1
<1>2. ASSUME NEW d \in Devs, Probe(d) PROVE FileOK(g)'
  <2>1. life[d] \in ProbeStages \ {"cdev"}
    BY <1>2 DEF Probe, ProbeAlloc, ProbeMinor, ProbePci, ProbeDma, ProbeCdev, ProbeFails,
                Acquire, ProbeStages, Undo
  <2>2. UNCHANGED <<fd, ctx, goingAway>> /\ \A e \in Devs \ {d} : life'[e] = life[e]
    BY <1>2 DEF Probe, ProbeAlloc, ProbeMinor, ProbePci, ProbeDma, ProbeCdev, ProbeFails,
                Acquire
  <2> QED
    BY <1>1, <2>1, <2>2
<1>3. ASSUME NEW f \in Files, NEW m \in Minors, OpenLookup(f, m) PROVE FileOK(g)'
  <2>1. devs[m] \in Devs /\ devs[m] # NoDev
        /\ life[devs[m]] \in {"cdev"} \cup (RemoveStages \ {"unlisted"})
    BY <1>3, DeviceOfMinor DEF OpenLookup, Undo
  <2> QED
    BY <1>3, <2>1 DEF OpenLookup, RemoveStages
<1>4. ASSUME NEW f \in Files, OpenCheck(f) PROVE FileOK(g)'
  BY <1>4 DEF OpenCheck
<1>5. ASSUME NEW f \in Files, OpenRef(f) \/ StatusEnd(f) \/ RemapDrop(f) \/ RemapFree(f)
             \/ Close(f) \/ ReleaseLock(f) \/ ReleaseUnmap(f) \/ ReleaseUnlock(f)
      PROVE  FileOK(g)'
  BY <1>5 DEF OpenRef, StatusEnd, RemapDrop, RemapFree, Close, ReleaseLock,
              ReleaseUnmap, ReleaseUnlock
<1>6. ASSUME NEW f \in Files, StatusBegin(f) PROVE FileOK(g)'
  BY <1>6 DEF StatusBegin, RemoveStages
<1>7. ASSUME NEW f \in Files, Mmap(f) PROVE FileOK(g)'
  BY <1>7 DEF Mmap, Call
<1>8. ASSUME NEW f \in Files, ReleaseDrop(f) PROVE FileOK(g)'
  BY <1>8 DEF ReleaseDrop
<1>9. ASSUME NEW d \in Devs, RemoveFlag(d) PROVE FileOK(g)'
  BY <1>9 DEF RemoveFlag, Advance, RemoveStages
<1>10. ASSUME NEW d \in Devs, RemoveCdev(d) \/ RemoveIrq(d) \/ RemoveTasklet(d)
              \/ RemoveWork(d) \/ RemoveReset(d) \/ RemoveDma(d) \/ RemovePci(d)
       PROVE  FileOK(g)'
  <2>1. PICK from \in RemoveStages, to \in RemoveStages \ {"unlisted"} : Advance(d, from, to)
    BY <1>10 DEF RemoveCdev, RemoveIrq, RemoveTasklet, RemoveWork, RemoveReset,
                 RemoveDma, RemovePci, RemoveStages
  <2>2. UNCHANGED <<fd, ctx, goingAway>>
    BY <1>10 DEF RemoveCdev, RemoveIrq, RemoveTasklet, RemoveWork, RemoveReset,
                 RemoveDma, RemovePci
  <2> QED
    BY <2>1, <2>2 DEF Advance, RemoveStages
<1>11. ASSUME NEW d \in Devs, RemoveTable(d) PROVE FileOK(g)'
  BY <1>11 DEF RemoveTable, Advance, RemoveStages
<1>12. ASSUME NEW d \in Devs, RemoveDrop(d) PROVE FileOK(g)'
  <2>1. Advance(d, "unlisted", "gone") /\ goingAway[d]
    <3>1. life[d] = "unlisted" /\ Advance(d, "unlisted", "gone")
      BY <1>12 DEF RemoveDrop, Advance
    <3>2. "unlisted" \in RemoveStages
      BY DEF RemoveStages
    <3> QED
      BY <3>1, <3>2 DEF FlagOK
  <2> QED
    BY <1>12, <2>1 DEF RemoveDrop, Advance, RemoveStages
<1>13. ASSUME UNCHANGED <<fd, ctx, goingAway, life>> PROVE FileOK(g)'
  BY <1>13
<1>14. ASSUME NEW d \in Devs, RemoveFindMapping(d) \/ RemoveMapping(d) \/ Interrupt(d)
              \/ BottomHalf(d)
       PROVE  FileOK(g)'
  BY <1>13, <1>14, IrqFrame DEF RemoveFindMapping, RemoveMapping
<1>15. ASSUME NEW f \in Files, LockBuffer(f) \/ UnlockBuffer(f) \/ ExecuteStream(f)
              \/ Cancel(f) \/ EnableIrq(f) \/ MmapReturnsEarly(f) \/ VmaOpen(f)
              \/ VmaClose(f)
       PROVE  FileOK(g)'
  BY <1>13, <1>15 DEF LockBuffer, UnlockBuffer, ExecuteStream, Cancel, EnableIrq,
                      MmapReturnsEarly, VmaOpen, VmaClose
<1>16. CASE UNCHANGED vars
  BY <1>13, <1>16 DEF vars
<1> QED
  BY <1>2, <1>3, <1>4, <1>5, <1>6, <1>7, <1>8, <1>9, <1>10, <1>11, <1>12, <1>14, <1>15,
     <1>16
  DEF Next, Remove, Continue, UserCall

LEMMA StepFlagOK == Inv /\ [Next]_vars => FlagOK'
<1> SUFFICES ASSUME Inv, [Next]_vars PROVE FlagOK'
  OBVIOUS
<1>0. TypeOK /\ FlagOK
  BY DEF Inv
<1> USE <1>0 DEF TypeOK, FlagOK
<1>1. ASSUME NEW d \in Devs, Probe(d) PROVE FlagOK'
  <2>1. /\ UNCHANGED goingAway /\ \A e \in Devs \ {d} : life'[e] = life[e]
        /\ life[d] \notin RemoveStages \cup {"gone"} /\ life'[d] \notin RemoveStages
    BY <1>1 DEF Probe, ProbeAlloc, ProbeMinor, ProbePci, ProbeDma, ProbeCdev, ProbeFails,
                Acquire, Undo, RemoveStages, probeRest
  <2> QED
    BY <2>1
<1>2. ASSUME NEW d \in Devs, RemoveFlag(d) PROVE FlagOK'
  BY <1>2 DEF RemoveFlag, Advance, RemoveStages
<1>3. ASSUME NEW d \in Devs, Remove(d) PROVE FlagOK'
  BY <1>3, RemoveFrame DEF Advance
<1>4. ASSUME NEW f \in Files, UserCall(f) \/ ReleaseLock(f) \/ Continue(f) PROVE FlagOK'
  BY <1>4, CallFrame
<1>5. ASSUME NEW d \in Devs, Interrupt(d) \/ BottomHalf(d) PROVE FlagOK'
  BY <1>5, IrqFrame
<1>6. CASE UNCHANGED vars
  BY <1>6 DEF vars
<1> QED
  BY <1>1, <1>2, <1>3, <1>4, <1>5, <1>6 DEF Next

LEMMA StepTableOK == Inv /\ [Next]_vars => TableOK'
<1> SUFFICES ASSUME Inv, [Next]_vars PROVE TableOK'
  OBVIOUS
<1>0. TypeOK /\ TableOK /\ LifecycleAssumption
  BY LifecycleAssumption DEF Inv
<1> USE <1>0 DEF TypeOK, TableOK, LifecycleAssumption
<1>1. ASSUME NEW d \in Devs, ProbeAlloc(d) \/ ProbePci(d) \/ ProbeDma(d) \/ ProbeCdev(d)
      PROVE  TableOK'
  <2>1. /\ UNCHANGED <<devs, minor>> /\ \A e \in Devs \ {d} : life'[e] = life[e]
        /\ life[d] \in {"minor", "pci", "dma"} => life'[d] \in {"pci", "dma", "cdev"}
        /\ life[d] \in {"absent", "struct", "minor", "pci", "dma"}
    BY <1>1 DEF ProbeAlloc, ProbePci, ProbeDma, ProbeCdev, Acquire, probeRest
  <2> QED
    BY <2>1 DEF RemoveStages
<1>2. ASSUME NEW d \in Devs, ProbeMinor(d) PROVE TableOK'
  <2>1. PICK m \in FreeMinors : /\ minor' = [minor EXCEPT ![d] = m]
                               /\ devs' = [devs EXCEPT ![m] = d]
                               /\ life[d] = "io_buffer"
                               /\ life' = [life EXCEPT ![d] = "minor"]
    BY <1>2 DEF ProbeMinor, Acquire
  <2>2. minor[d] = NoMinor
    BY <2>1 DEF RemoveStages
  <2>3. \A n \in Minors : devs[n] # d
    BY <2>2
  <2> QED
    BY <2>1, <2>2, <2>3 DEF FreeMinors
<1>3. ASSUME NEW d \in Devs, ProbeFails(d) \/ RemoveTable(d) PROVE TableOK'
  <2>1. Unlist(d) /\ \A e \in Devs \ {d} : life'[e] = life[e]
    BY <1>3 DEF ProbeFails, RemoveTable, Advance
  <2> QED
    BY <2>1 DEF Unlist
<1>4. ASSUME NEW d \in Devs, RemoveFlag(d) PROVE TableOK'
  BY <1>4 DEF RemoveFlag, Advance, RemoveStages
<1>5. ASSUME NEW d \in Devs, Remove(d), ~RemoveTable(d) PROVE TableOK'
  <2>1. CASE RemoveFindMapping(d) \/ RemoveMapping(d)
    <3>1. UNCHANGED <<devs, life, minor>>
      BY <2>1 DEF RemoveFindMapping, RemoveMapping
    <3> QED
      BY <3>1
  <2>2. CASE ~(RemoveFindMapping(d) \/ RemoveMapping(d))
    <3>1. /\ \A e \in Devs \ {d} : life'[e] = life[e]
          /\ UNCHANGED <<devs, minor>>
          /\ life[d] \in RemoveStages \ {"unlisted"}
                => life'[d] \in RemoveStages \ {"unlisted"}
          /\ life[d] \in RemoveStages
      BY <1>5, <2>2 DEF Remove, RemoveCdev, RemoveIrq, RemoveTasklet, RemoveWork, RemoveReset,
                 RemoveDma, RemovePci, RemoveDrop, Advance, RemoveStages
    <3> QED
      BY <3>1 DEF RemoveStages
  <2> QED
    BY <2>1, <2>2
<1>6. ASSUME NEW f \in Files, UserCall(f) \/ ReleaseLock(f) \/ Continue(f) PROVE TableOK'
  BY <1>6, CallFrame
<1>7. ASSUME NEW d \in Devs, Interrupt(d) \/ BottomHalf(d) PROVE TableOK'
  BY <1>7, IrqFrame
<1>8. CASE UNCHANGED vars
  BY <1>8 DEF vars
<1> QED
  BY <1>1, <1>2, <1>3, <1>4, <1>5, <1>6, <1>7, <1>8 DEF Next, Probe
-----------------------------------------------------------------------------
(* What the device owns                                                    *)

\* The stream state comes and goes alone.
LEMMA StreamFrame ==
  ASSUME TypeOK, NEW d \in Devs,
         InitStreamInfo(d) \/ FreeStreamInfo(d) \/ StopStream(d) \/ UNCHANGED held
  PROVE  \A e \in Devs, r \in Resources \ {"stream"} : r \in held'[e] <=> r \in held[e]
BY DEF TypeOK, InitStreamInfo, FreeStreamInfo, StopStream

LEMMA CallHeldFrame ==
  ASSUME Inv, NEW f \in Files, UserCall(f) \/ ReleaseLock(f) \/ Continue(f), ~ReleaseDrop(f)
  PROVE  /\ \A e \in Devs, r \in Resources \ {"stream"} : r \in held'[e] <=> r \in held[e]
         /\ UNCHANGED life
<1>1. TypeOK /\ UNCHANGED life
  BY CallFrame DEF Inv
<1>2. CASE UNCHANGED held
  BY <1>2, <1>1
<1>3. CASE UnlockBuffer(f) \/ ExecuteStream(f) \/ Cancel(f) \/ Mmap(f) \/ VmaClose(f)
           \/ ReleaseUnmap(f)
  <2>1. ctx[f] \in Devs
    <3>1. fd[f] # "closed"
      BY <1>3 DEF UnlockBuffer, ExecuteStream, Cancel, Mmap, VmaClose, ReleaseUnmap, Call,
                  Inv, StreamOK, Used
    <3> QED
      BY <3>1, DeviceOfFile
  <2>2. \/ InitStreamInfo(ctx[f]) \/ FreeStreamInfo(ctx[f]) \/ StopStream(ctx[f])
        \/ UNCHANGED held
    BY <1>3 DEF UnlockBuffer, ExecuteStream, Cancel, Mmap, VmaClose, ReleaseUnmap, SafeDmaUnmap
  <2> QED
    BY <1>1, <2>1, <2>2, StreamFrame
<1>4. CASE RemapFree(f)
  BY <1>1, <1>4 DEF RemapFree, TypeOK
<1> QED
  BY <1>2, <1>3, <1>4
  DEF UserCall, OpenLookup, LockBuffer, EnableIrq, StatusBegin, MmapReturnsEarly, VmaOpen, Close,
      ReleaseLock, Continue, OpenCheck, OpenRef, StatusEnd, RemapDrop, ReleaseUnlock

LEMMA HeldFrame ==
  ASSUME Inv, UNCHANGED life,
         \A e \in Devs, r \in Resources \ {"stream"} : r \in held'[e] <=> r \in held[e]
  PROVE  HeldOK'
BY DEF Inv, HeldOK, Resources

LEMMA StepHeldOK == Inv /\ [Next]_vars => HeldOK'
<1> SUFFICES ASSUME Inv, [Next]_vars PROVE HeldOK'
  OBVIOUS
<1>0. TypeOK /\ HeldOK
  BY DEF Inv
<1> USE <1>0 DEF TypeOK
<1>1. ASSUME NEW d \in Devs, ProbeAlloc(d) \/ ProbeMinor(d) \/ ProbePci(d) \/ ProbeDma(d)
             \/ ProbeCdev(d)
      PROVE  HeldOK'
  <2>1. PICK at \in ProbeStages, what \in Resources :
          /\ Acquire(d, at, what)
          /\ <<at, what>> \in {<<"absent", "struct">>, <<"struct", "io_buffer">>,
                               <<"io_buffer", "minor">>, <<"minor", "pci">>, <<"pci", "dma">>,
                               <<"dma", "cdev">>}
    BY <1>1 DEF ProbeAlloc, ProbeMinor, ProbePci, ProbeDma, ProbeCdev, ProbeStages, Resources
  <2> QED
    BY <2>1 DEF Acquire, HeldOK, RemoveStages
<1>2. ASSUME NEW d \in Devs, ProbeFails(d) PROVE HeldOK'
  BY <1>2 DEF ProbeFails, Undo, ErrorAlloc2, ErrorIda, ErrorPciInit, ErrorDmaInit,
              ErrorCdevAdd, HeldOK, RemoveStages
<1>3. ASSUME NEW d \in Devs, RemoveFlag(d) \/ RemoveCdev(d) \/ RemoveIrq(d) \/ RemoveTasklet(d)
             \/ RemoveWork(d)
      PROVE  HeldOK'
  BY <1>3 DEF RemoveFlag, RemoveCdev, RemoveIrq, RemoveTasklet, RemoveWork, Advance, HeldOK,
              RemoveStages
<1>4. ASSUME NEW d \in Devs, RemoveReset(d) PROVE HeldOK'
  <2>1. \A e \in Devs, r \in Resources \ {"stream"} : r \in held'[e] <=> r \in held[e]
    BY <1>4, StreamFrame DEF RemoveReset
  <2> QED
    BY <1>4, <2>1 DEF RemoveReset, Advance, HeldOK, RemoveStages, Resources
<1>5. ASSUME NEW d \in Devs, RemoveFindMapping(d) \/ RemoveMapping(d) PROVE HeldOK'
  BY <1>5, HeldFrame DEF RemoveFindMapping, RemoveMapping
<1>6. ASSUME NEW d \in Devs, RemoveDma(d) \/ RemovePci(d) \/ RemoveTable(d) PROVE HeldOK'
  BY <1>6 DEF RemoveDma, RemovePci, RemoveTable, Advance, HeldOK, RemoveStages
<1>7. ASSUME NEW d \in Devs, RemoveDrop(d) PROVE HeldOK'
  BY <1>7 DEF RemoveDrop, DropRef, Advance, HeldOK, RemoveStages
<1>8. ASSUME NEW f \in Files, ReleaseDrop(f) PROVE HeldOK'
  <2>1. /\ ctx[f] \in Devs /\ refs[ctx[f]] = OwnRef(ctx[f]) + Cardinality(Holders(ctx[f]))
        /\ Cardinality(Holders(ctx[f])) \in Nat \ {0}
    BY <1>8, HolderCounts DEF ReleaseDrop, CloseStages
  <2>2. refs[ctx[f]] = 1 => life[ctx[f]] = "gone"
    BY <1>8, LastCloseIsLast DEF ReleaseDrop, CloseStages
  <2> QED
    BY <1>8, <2>1, <2>2 DEF ReleaseDrop, DropRef, HeldOK
<1>9. ASSUME NEW f \in Files, UserCall(f) \/ ReleaseLock(f) \/ Continue(f), ~ReleaseDrop(f)
      PROVE  HeldOK'
  BY <1>9, CallHeldFrame, HeldFrame
<1>10. ASSUME NEW d \in Devs, Interrupt(d) \/ BottomHalf(d) PROVE HeldOK'
  BY <1>10, IrqFrame, HeldFrame
<1>11. CASE UNCHANGED vars
  BY <1>11, HeldFrame DEF vars
<1> QED
  BY <1>1, <1>2, <1>3, <1>4, <1>5, <1>6, <1>7, <1>8, <1>9, <1>10, <1>11
  DEF Next, Probe, Remove, Continue
-----------------------------------------------------------------------------
(* References to the device                                                *)

\* Only the end of open and the end of release change who holds a reference.
LEMMA HoldersFrame ==
  ASSUME Inv, [Next]_vars, NEW d \in Devs,
         \A f \in Files : ~OpenRef(f) /\ ~ReleaseDrop(f)
  PROVE  Holders(d)' = Holders(d)
<1> USE DEF Holders, Used, CloseStages, probeRest, fileVars
<1>1. ASSUME UNCHANGED <<fd, ctx>> PROVE Holders(d)' = Holders(d)
  BY <1>1
<1>2. ASSUME NEW e \in Devs, Probe(e) \/ RemoveFlag(e) \/ Interrupt(e) \/ BottomHalf(e)
      PROVE  Holders(d)' = Holders(d)
  BY <1>1, <1>2, IrqFrame
  DEF Probe, ProbeAlloc, ProbeMinor, ProbePci, ProbeDma, ProbeCdev, ProbeFails, RemoveFlag
<1>3. ASSUME NEW e \in Devs, Remove(e) PROVE Holders(d)' = Holders(d)
  BY <1>1, <1>3, RemoveFrame
<1>4. ASSUME NEW f \in Files, LockBuffer(f) \/ UnlockBuffer(f) \/ ExecuteStream(f) \/ Cancel(f)
             \/ EnableIrq(f) \/ MmapReturnsEarly(f) \/ VmaOpen(f) \/ VmaClose(f)
      PROVE  Holders(d)' = Holders(d)
  BY <1>1, <1>4 DEF LockBuffer, UnlockBuffer, ExecuteStream, Cancel, EnableIrq,
                    MmapReturnsEarly, VmaOpen, VmaClose
<1>5. ASSUME NEW f \in Files, StatusBegin(f) \/ StatusEnd(f) \/ Mmap(f) \/ RemapDrop(f)
             \/ RemapFree(f) \/ Close(f) \/ ReleaseLock(f) \/ ReleaseUnmap(f) \/ ReleaseUnlock(f)
      PROVE  Holders(d)' = Holders(d)
  <2>1. /\ UNCHANGED ctx /\ \A g \in Files \ {f} : fd'[g] = fd[g]
        /\ fd[f] \in Used \cup CloseStages /\ fd'[f] \in Used \cup CloseStages
    BY <1>5 DEF StatusBegin, StatusEnd, Mmap, RemapDrop, RemapFree, Close, ReleaseLock,
                ReleaseUnmap, ReleaseUnlock, Call, Inv, TypeOK
  <2> QED
    BY <2>1
<1>6. ASSUME NEW f \in Files, OpenCheck(f) \/ \E m \in Minors : OpenLookup(f, m)
      PROVE  Holders(d)' = Holders(d)
  <2>1. /\ \A g \in Files \ {f} : fd'[g] = fd[g] /\ ctx'[g] = ctx[g]
        /\ fd[f] \notin Used \cup CloseStages /\ fd'[f] \notin Used \cup CloseStages
    BY <1>6 DEF OpenCheck, OpenLookup, Inv, TypeOK
  <2> QED
    BY <2>1
<1>7. CASE UNCHANGED vars
  BY <1>1, <1>7 DEF vars
<1> QED
  BY <1>2, <1>3, <1>4, <1>5, <1>6, <1>7 DEF Next, Continue, UserCall

\* Whoever has no file in hand has no holder.
LEMMA NoHolders ==
  ASSUME Inv, NEW d \in Devs, life[d] \in {"absent", "struct", "io_buffer", "minor", "pci", "dma"}
  PROVE  Holders(d) = {} /\ Cardinality(Holders(d)) = 0
<1>1. Holders(d) = {}
  BY DeviceOfFile DEF Holders, Used, CloseStages, RemoveStages
<1> QED
  BY <1>1, FS_EmptySet

\* Steps that change neither references nor the device's own one.
LEMMA RefsFrame ==
  ASSUME Inv, UNCHANGED refs, \A d \in Devs : Holders(d)' = Holders(d),
         \A d \in Devs : life[d] = "gone" => goingAway'[d] = goingAway[d],
         \A d \in Devs : /\ "struct" \in held'[d] <=> "struct" \in held[d]
                         /\ OwnRef(d)' = OwnRef(d)
                         /\ life'[d] = "gone" => life[d] = "gone"
                         /\ life[d] = "gone" => life'[d] = "gone"
  PROVE  RefsOK'
BY DEF Inv, RefsOK, RefOK

\* A reference more for the file that has opened the device.
LEMMA OpenCounts ==
  ASSUME Inv, NEW f \in Files, OpenRef(f) PROVE RefsOK'
<1>0. TypeOK /\ RefsOK
  BY DEF Inv
<1> SUFFICES ASSUME NEW d, d = ctx[f] PROVE RefsOK'
  OBVIOUS
<1>1. d \in Devs /\ (life[d] # "gone" \/ goingAway[d])
  BY DeviceOfFile DEF OpenRef, Inv, FilesOK, FileOK, RemoveStages
<1>2. UNCHANGED <<life, held, goingAway, ctx>> /\ refs' = [refs EXCEPT ![d] = @ + 1]
  BY DEF OpenRef
<1>3. \A e \in Devs : OwnRef(e)' = OwnRef(e)
  BY <1>2 DEF OwnRef
<1>4. Holders(d)' = Holders(d) \cup {f} /\ f \notin Holders(d)
  BY <1>0 DEF OpenRef, Holders, Used, CloseStages, TypeOK
<1>5. \A e \in Devs \ {d} : Holders(e)' = Holders(e)
  BY <1>0 DEF OpenRef, Holders, Used, CloseStages, TypeOK
<1>6. /\ IsFiniteSet(Holders(d)')
      /\ Cardinality(Holders(d)') = Cardinality(Holders(d)) + 1
      /\ Cardinality(Holders(d)) \in Nat
  BY <1>0, <1>1, <1>4, FS_AddElement, FS_CardinalityType DEF RefsOK, RefOK
<1>7. refs[d] = OwnRef(d) + Cardinality(Holders(d)) /\ OwnRef(d) \in {0, 1}
  <2>1. OwnRef(d) \in {0, 1}
    BY DEF OwnRef
  <2> QED
    BY <1>0, <1>1, <2>1 DEF RefsOK, RefOK
<1>8. refs'[d] = OwnRef(d)' + Cardinality(Holders(d)')
  <2>1. refs'[d] = refs[d] + 1 /\ OwnRef(d)' = OwnRef(d)
    BY <1>0, <1>1, <1>2, <1>3 DEF TypeOK
  <2> QED
    BY <1>6, <1>7, <2>1
<1>9. RefOK(d)'
  BY <1>4, <1>6, <1>8 DEF RefOK
<1>10. ASSUME NEW e \in Devs \ {d} PROVE RefOK(e)'
  BY <1>0, <1>2, <1>3, <1>5 DEF RefsOK, RefOK, TypeOK
<1> QED
  BY <1>1, <1>2, <1>9, <1>10 DEF RefsOK

\* One less for the file that is closed; the last one frees the structure.
LEMMA CloseCounts ==
  ASSUME Inv, NEW f \in Files, ReleaseDrop(f), NEW d, d = ctx[f]
  PROVE  /\ RefsOK'
         /\ Holders(d)' # {} => ("struct" \in held'[d] <=> "struct" \in held[d])
         /\ \A e \in Devs \ {d} : Holders(e)' = Holders(e) /\ held'[e] = held[e]
<1>0. TypeOK /\ RefsOK
  BY DEF Inv
<1> SUFFICES ASSUME NEW n, n = Cardinality(Holders(d))
             PROVE  /\ RefsOK'
                    /\ Holders(d)' # {} => ("struct" \in held'[d] <=> "struct" \in held[d])
                    /\ \A e \in Devs \ {d} : Holders(e)' = Holders(e) /\ held'[e] = held[e]
  OBVIOUS
<1>1. /\ d \in Devs /\ f \in Holders(d)
      /\ n \in Nat \ {0} /\ refs[d] = OwnRef(d) + n
      /\ life[d] \in {"cdev", "gone"} \cup RemoveStages
  BY HolderCounts, DeviceOfFile DEF ReleaseDrop, CloseStages
<1>2. UNCHANGED <<life, goingAway>> /\ DropRef(d)
  BY DEF ReleaseDrop
<1>3. \A e \in Devs : OwnRef(e)' = OwnRef(e)
  BY <1>2 DEF OwnRef
<1>4. Holders(d)' = Holders(d) \ {f}
  BY <1>0, <1>1, LifecycleAssumption
  DEF ReleaseDrop, Holders, Used, CloseStages, TypeOK, LifecycleAssumption
<1>5. \A e \in Devs \ {d} : Holders(e)' = Holders(e)
  BY <1>0, LifecycleAssumption
  DEF ReleaseDrop, Holders, Used, CloseStages, TypeOK, LifecycleAssumption
<1>6. /\ IsFiniteSet(Holders(d)')
      /\ Cardinality(Holders(d)') = n - 1
  BY <1>0, <1>1, <1>4, FS_RemoveElement DEF RefsOK, RefOK
<1>7. refs'[d] = OwnRef(d)' + Cardinality(Holders(d)')
  <2>1. refs'[d] = refs[d] - 1
    BY <1>0, <1>1, <1>2 DEF DropRef, TypeOK
  <2>2. OwnRef(d) \in {0, 1} /\ OwnRef(d)' = OwnRef(d)
    <3>1. OwnRef(d) \in {0, 1}
      BY DEF OwnRef
    <3> QED
      BY <1>1, <1>3, <3>1
  <2>3. PICK o \in {0, 1} : o = OwnRef(d) /\ OwnRef(d)' = o
    BY <2>2
  <2> QED
    BY <1>1, <1>6, <2>1, <2>3
<1>8. refs[d] = 1 <=> life[d] = "gone" /\ n = 1
  BY LastCloseIsLast DEF ReleaseDrop, CloseStages
<1>9. "struct" \in held'[d] <=> "struct" \in held[d] /\ ~(refs[d] = 1)
  BY <1>0, <1>1, <1>2 DEF DropRef, TypeOK
<1>10. Holders(d)' = {} <=> n = 1
  <2>1. Holders(d)' = {} <=> Cardinality(Holders(d)') = 0
    BY <1>6, FS_EmptySet
  <2> QED
    BY <1>1, <1>6, <2>1
<1>11. RefOK(d)'
  <2>1. life'[d] = "gone" /\ "struct" \in held'[d] => Holders(d)' # {}
    BY <1>2, <1>8, <1>9, <1>10
  <2> QED
    BY <1>6, <1>7, <2>1 DEF RefOK
<1>12. ASSUME NEW e \in Devs \ {d} PROVE RefOK(e)' /\ held'[e] = held[e]
  BY <1>0, <1>2, <1>3, <1>5 DEF RefsOK, RefOK, TypeOK, DropRef
<1> QED
  BY <1>1, <1>5, <1>8, <1>9, <1>10, <1>11, <1>12 DEF RefsOK

\* The probe takes one reference, for the device itself.
LEMMA ProbeCounts ==
  ASSUME Inv, [Next]_vars, NEW d \in Devs, Probe(d), \A e \in Devs : Holders(e)' = Holders(e)
  PROVE  RefsOK'
<1>0. TypeOK /\ RefsOK /\ HeldOK
  BY DEF Inv
<1>1. life[d] \in {"absent", "struct", "io_buffer", "minor", "pci", "dma"}
  BY DEF Probe, ProbeAlloc, ProbeMinor, ProbePci, ProbeDma, ProbeCdev, ProbeFails, Acquire, Undo
<1>2. Holders(d) = {} /\ Cardinality(Holders(d)) = 0 /\ ~goingAway[d]
  BY <1>0, <1>1, NoHolders DEF Inv, FlagOK, RemoveStages, TypeOK
<1>3. refs[d] = OwnRef(d)
  <2>1. OwnRef(d) \in {0, 1}
    BY DEF OwnRef
  <2> QED
    BY <1>0, <1>1, <1>2, <2>1 DEF RefsOK, RefOK
<1>4. \A e \in Devs \ {d} : life'[e] = life[e] /\ held'[e] = held[e] /\ refs'[e] = refs[e]
  BY <1>0 DEF Probe, ProbeAlloc, ProbeMinor, ProbePci, ProbeDma, ProbeCdev, ProbeFails, Acquire,
              probeRest, TypeOK
<1>5. UNCHANGED goingAway
  BY DEF Probe, ProbeAlloc, ProbeMinor, ProbePci, ProbeDma, ProbeCdev, ProbeFails, probeRest
<1>6. life'[d] # "gone" => refs'[d] = OwnRef(d)'
  <2>1. CASE ProbeAlloc(d)
    BY <1>0, <1>3, <2>1 DEF ProbeAlloc, Acquire, TypeOK, OwnRef, RemoveStages, probeRest
  <2>2. CASE ProbeMinor(d)
    BY <1>0, <2>2 DEF ProbeMinor, Acquire, TypeOK, OwnRef
  <2>3. CASE ProbePci(d) \/ ProbeDma(d) \/ ProbeCdev(d)
    BY <1>0, <1>3, <2>3 DEF ProbePci, ProbeDma, ProbeCdev, Acquire, TypeOK, OwnRef, probeRest
  <2>4. CASE ProbeFails(d)
    BY <1>0, <2>4 DEF ProbeFails, TypeOK
  <2> QED
    BY <2>1, <2>2, <2>3, <2>4 DEF Probe
<1>7. life'[d] = "gone" => "struct" \notin held'[d]
  BY <1>0, <1>1 DEF Probe, ProbeAlloc, ProbeMinor, ProbePci, ProbeDma, ProbeCdev, ProbeFails,
                    Acquire, Undo, ErrorAlloc2, ErrorIda, ErrorPciInit, ErrorDmaInit,
                    ErrorCdevAdd, HeldOK, TypeOK
<1>8. RefOK(d)'
  <2>1. IsFiniteSet(Holders(d)') /\ Cardinality(Holders(d)') = 0
    BY <1>2, FS_EmptySet
  <2>2. OwnRef(d)' \in {0, 1}
    BY DEF OwnRef
  <2>3. life'[d] # "gone" => refs'[d] = OwnRef(d)' + Cardinality(Holders(d)')
    BY <1>6, <2>1, <2>2
  <2> QED
    BY <1>2, <1>5, <1>7, <2>1, <2>3 DEF RefOK
<1>9. ASSUME NEW e \in Devs \ {d} PROVE RefOK(e)'
  <2>1. OwnRef(e)' = OwnRef(e)
    BY <1>4 DEF OwnRef
  <2> QED
    BY <1>0, <1>4, <1>5, <2>1 DEF RefsOK, RefOK
<1> QED
  BY <1>8, <1>9 DEF RefsOK

\* The removal gives it back, and frees the structure if no file has one.
LEMMA RemoveCounts ==
  ASSUME Inv, NEW d \in Devs, RemoveDrop(d), \A e \in Devs : Holders(e)' = Holders(e)
  PROVE  /\ RefsOK'
         /\ Holders(d) # {} => "struct" \in held'[d]
         /\ \A e \in Devs \ {d} : held'[e] = held[e]
<1>0. TypeOK /\ RefsOK /\ HeldOK
  BY DEF Inv
<1> SUFFICES ASSUME NEW n, n = Cardinality(Holders(d))
             PROVE  /\ RefsOK'
                    /\ Holders(d) # {} => "struct" \in held'[d]
                    /\ \A e \in Devs \ {d} : held'[e] = held[e]
  OBVIOUS
<1>1. n \in Nat /\ (n = 0 <=> Holders(d) = {})
  BY <1>0, FS_CardinalityType, FS_EmptySet DEF RefsOK, RefOK
<1>2. /\ life[d] = "unlisted" /\ life' = [life EXCEPT ![d] = "gone"] /\ DropRef(d)
      /\ UNCHANGED goingAway
  BY DEF RemoveDrop, Advance
<1>3. OwnRef(d) = 1 /\ OwnRef(d)' = 0
  BY <1>0, <1>2 DEF OwnRef, RemoveStages, TypeOK
<1>4. "struct" \in held[d] /\ refs[d] = 1 + n
  BY <1>0, <1>2, <1>3 DEF RefsOK, RefOK, HeldOK
<1>5. refs'[d] = n /\ ("struct" \in held'[d] <=> ~(n = 0))
  <2>1. refs'[d] = refs[d] - 1 /\ ("struct" \in held'[d] <=> ~(refs[d] = 1))
    BY <1>0, <1>2, <1>4 DEF DropRef, TypeOK
  <2> QED
    BY <1>1, <1>4, <2>1
<1>6. RefOK(d)'
  <2>1. refs'[d] = OwnRef(d)' + Cardinality(Holders(d)')
    BY <1>1, <1>3, <1>5
  <2>2. IsFiniteSet(Holders(d)')
    BY <1>0 DEF RefsOK, RefOK
  <2> QED
    BY <1>1, <1>5, <2>1, <2>2 DEF RefOK
<1>7. ASSUME NEW e \in Devs \ {d} PROVE RefOK(e)' /\ held'[e] = held[e]
  <2>1. OwnRef(e)' = OwnRef(e)
    BY <1>0, <1>2 DEF OwnRef, TypeOK
  <2> QED
    BY <1>0, <1>2, <2>1 DEF RefsOK, RefOK, DropRef, TypeOK
<1> QED
  BY <1>1, <1>5, <1>6, <1>7 DEF RefsOK

LEMMA StepRefsOK == Inv /\ [Next]_vars => RefsOK'
<1> SUFFICES ASSUME Inv, [Next]_vars PROVE RefsOK'
  OBVIOUS
<1>0. TypeOK
  BY DEF Inv
<1>1. CASE \E f \in Files : OpenRef(f) \/ ReleaseDrop(f)
  BY <1>1, OpenCounts, CloseCounts
<1>2. CASE \A f \in Files : ~OpenRef(f) /\ ~ReleaseDrop(f)
  <2>0. \A d \in Devs : Holders(d)' = Holders(d)
    BY <1>2, HoldersFrame
  <2>1. ASSUME NEW d \in Devs, Probe(d) \/ RemoveDrop(d) PROVE RefsOK'
    BY <2>0, <2>1, ProbeCounts, RemoveCounts
  <2>2. ASSUME UNCHANGED <<life, refs, goingAway>>,
               \A e \in Devs, r \in Resources \ {"stream"} : r \in held'[e] <=> r \in held[e]
        PROVE  RefsOK'
    BY <2>0, <2>2, RefsFrame DEF OwnRef, Resources
  <2>3. ASSUME NEW d \in Devs, RemoveFlag(d) \/ (Remove(d) /\ ~RemoveDrop(d)) PROVE RefsOK'
    <3>1. CASE RemoveFindMapping(d) \/ RemoveMapping(d)
      BY <2>2, <3>1 DEF RemoveFindMapping, RemoveMapping
    <3>2. CASE ~(RemoveFindMapping(d) \/ RemoveMapping(d))
      <4>1. \E from \in {"cdev"} \cup RemoveStages, to \in RemoveStages : Advance(d, from, to)
        BY <2>3, <3>2 DEF Remove, RemoveFlag, RemoveCdev, RemoveIrq, RemoveTasklet, RemoveWork,
                          RemoveReset, RemoveDma, RemovePci, RemoveTable, RemoveStages
      <4>2. \A e \in Devs : /\ OwnRef(e)' = OwnRef(e)
                            /\ life'[e] = "gone" <=> life[e] = "gone"
        BY <1>0, <4>1 DEF Advance, OwnRef, TypeOK, RemoveStages
      <4>3. UNCHANGED refs
        BY <2>3, <3>2 DEF Remove, RemoveFlag, RemoveCdev, RemoveIrq, RemoveTasklet, RemoveWork,
                          RemoveReset, RemoveDma, RemovePci, RemoveTable
      <4>4. \A e \in Devs : "struct" \in held'[e] <=> "struct" \in held[e]
        <5>1. CASE RemoveReset(d)
          BY <1>0, <5>1, StreamFrame DEF RemoveReset, Resources
        <5>2. CASE ~RemoveReset(d)
          BY <1>0, <2>3, <3>2, <5>2
          DEF Remove, RemoveFlag, RemoveCdev, RemoveIrq, RemoveTasklet, RemoveWork,
              RemoveDma, RemovePci, RemoveTable, TypeOK
        <5> QED
          BY <5>1, <5>2
      <4>5. \A e \in Devs : life[e] = "gone" => goingAway'[e] = goingAway[e]
        BY <1>0, <2>3, RemoveFrame DEF RemoveFlag, Advance, TypeOK
      <4> QED
        BY <2>0, <4>2, <4>3, <4>4, <4>5, RefsFrame
    <3> QED
      BY <3>1, <3>2
  <2>4. ASSUME NEW f \in Files, UserCall(f) \/ ReleaseLock(f) \/ Continue(f) PROVE RefsOK'
    <3>1. UNCHANGED refs
      BY <1>2, <2>4 DEF UserCall, OpenLookup, LockBuffer, UnlockBuffer, ExecuteStream, Cancel,
         EnableIrq, StatusBegin, Mmap, MmapReturnsEarly, VmaOpen, VmaClose, Close, ReleaseLock,
         Continue, OpenCheck, StatusEnd, RemapDrop, RemapFree, ReleaseUnmap, ReleaseUnlock
    <3> QED
      BY <1>2, <2>2, <2>4, <3>1, CallFrame, CallHeldFrame
  <2>5. ASSUME NEW d \in Devs, Interrupt(d) \/ BottomHalf(d) PROVE RefsOK'
    BY <2>2, <2>5, IrqFrame
  <2>6. CASE UNCHANGED vars
    BY <2>2, <2>6 DEF vars
  <2> QED
    BY <2>1, <2>3, <2>4, <2>5, <2>6 DEF Next
<1> QED
  BY <1>1, <1>2
-----------------------------------------------------------------------------
(* Calls that hold no reference                                            *)

\* Who sees the device go, and from which stage to which.
LEMMA LifeFrame ==
  ASSUME Inv, [Next]_vars, NEW g \in Files, fd[g] # "closed", NEW d \in Devs, d = ctx[g],
         life'[d] \in {"unlisted", "gone"}
  PROVE  life'[d] = life[d] \/ RemoveTable(d) \/ RemoveDrop(d)
<1>0. TypeOK /\ life[d] \in {"cdev", "gone"} \cup RemoveStages
  BY DeviceOfFile DEF Inv
<1>1. ASSUME NEW e \in Devs, Probe(e) PROVE life'[d] = life[d]
  <2>1. life[e] \in {"absent", "struct", "io_buffer", "minor", "pci", "dma"}
        /\ \A c \in Devs \ {e} : life'[c] = life[c]
    BY <1>0, <1>1 DEF Probe, ProbeAlloc, ProbeMinor, ProbePci, ProbeDma, ProbeCdev, ProbeFails,
                      Acquire, Undo, TypeOK
  <2> QED
    BY <1>0, <2>1 DEF RemoveStages
<1>2. ASSUME NEW e \in Devs, RemoveFlag(e) PROVE life'[d] = life[d]
  BY <1>0, <1>2 DEF RemoveFlag, Advance, TypeOK
<1>3. ASSUME NEW e \in Devs, Remove(e) PROVE life'[d] = life[d] \/ RemoveTable(d) \/ RemoveDrop(d)
  BY <1>0, <1>3 DEF Remove, RemoveCdev, RemoveIrq, RemoveTasklet, RemoveWork, RemoveReset,
     RemoveFindMapping, RemoveMapping, RemoveDma, RemovePci, RemoveTable, RemoveDrop, Advance,
     TypeOK
<1>4. ASSUME NEW f \in Files, UserCall(f) \/ ReleaseLock(f) \/ Continue(f)
      PROVE  life'[d] = life[d]
  BY <1>4, CallFrame
<1>5. ASSUME NEW e \in Devs, Interrupt(e) \/ BottomHalf(e) PROVE life'[d] = life[d]
  BY <1>5, IrqFrame
<1>6. CASE UNCHANGED vars
  BY <1>6 DEF vars
<1> QED
  BY <1>1, <1>2, <1>3, <1>4, <1>5, <1>6 DEF Next

\* Which steps bring a file to DMA_STATUS, or to the first steps of open.
LEMMA EntryFrame ==
  ASSUME Inv, [Next]_vars, NEW g \in Files, fd'[g] \in {"status", "check", "ref"}
  PROVE  \/ fd'[g] = fd[g] /\ ctx'[g] = ctx[g]
         \/ fd'[g] = "status" /\ StatusBegin(g)
         \/ fd'[g] = "ref" /\ OpenCheck(g)
         \/ \E m \in Minors : OpenLookup(g, m)
<1>0. TypeOK
  BY DEF Inv
<1>1. CASE UNCHANGED <<fd, ctx>>
  BY <1>1
<1>2. ASSUME NEW d \in Devs, Probe(d) \/ RemoveFlag(d) \/ Remove(d) \/ Interrupt(d) \/ BottomHalf(d)
      PROVE  UNCHANGED <<fd, ctx>>
  BY <1>2, RemoveFrame, IrqFrame
  DEF Probe, ProbeAlloc, ProbeMinor, ProbePci, ProbeDma, ProbeCdev, ProbeFails, RemoveFlag,
      probeRest, fileVars
<1>3. ASSUME NEW f \in Files, LockBuffer(f) \/ UnlockBuffer(f) \/ ExecuteStream(f) \/ Cancel(f)
             \/ EnableIrq(f) \/ MmapReturnsEarly(f) \/ VmaOpen(f) \/ VmaClose(f)
      PROVE  UNCHANGED <<fd, ctx>>
  BY <1>3 DEF LockBuffer, UnlockBuffer, ExecuteStream, Cancel, EnableIrq,
              MmapReturnsEarly, VmaOpen, VmaClose, fileVars
<1>4. ASSUME NEW f \in Files, OpenRef(f) \/ StatusEnd(f) \/ Mmap(f) \/ RemapDrop(f)
             \/ RemapFree(f) \/ Close(f) \/ ReleaseLock(f) \/ ReleaseUnmap(f) \/ ReleaseUnlock(f)
             \/ ReleaseDrop(f)
      PROVE  fd'[g] = fd[g] /\ ctx'[g] = ctx[g]
  <2>1. /\ \A h \in Files \ {f} : fd'[h] = fd[h] /\ ctx'[h] = ctx[h]
        /\ fd'[f] \notin {"status", "check", "ref"} \/ (fd'[f] = fd[f] /\ ctx'[f] = ctx[f])
    BY <1>0, <1>4 DEF OpenRef, StatusEnd, Mmap, RemapDrop, RemapFree, Close, ReleaseLock,
       ReleaseUnmap, ReleaseUnlock, ReleaseDrop, TypeOK
  <2> QED
    BY <2>1
<1>5. ASSUME NEW f \in Files, StatusBegin(f) \/ OpenCheck(f) \/ \E m \in Minors : OpenLookup(f, m)
      PROVE  \/ fd'[g] = fd[g] /\ ctx'[g] = ctx[g]
             \/ fd'[g] = "status" /\ StatusBegin(g)
             \/ fd'[g] = "ref" /\ OpenCheck(g)
             \/ \E m \in Minors : OpenLookup(g, m)
  <2>1. CASE f = g
    BY <1>0, <1>5, <2>1 DEF StatusBegin, OpenCheck, TypeOK
  <2>2. CASE f # g
    BY <1>0, <1>5, <2>2 DEF StatusBegin, OpenCheck, OpenLookup, TypeOK
  <2> QED
    BY <2>1, <2>2
<1>6. CASE UNCHANGED vars
  BY <1>1, <1>6 DEF vars, fileVars
<1> QED
  BY <1>1, <1>2, <1>3, <1>4, <1>5, <1>6 DEF Next, UserCall, Continue

LEMMA StepStatusOK == Inv /\ [Next]_vars => StatusOK'
<1> SUFFICES ASSUME "status" \notin Races, Inv, [Next]_vars, NEW g \in Files, fd'[g] = "status"
             PROVE  life'[ctx'[g]] \notin {"unlisted", "gone"}
  BY DEF StatusOK
<1>1. CASE StatusBegin(g)
  <2>1. life[ctx[g]] = "cdev" /\ UNCHANGED <<life, ctx>>
    BY <1>1, DeviceOfFile DEF StatusBegin
  <2> QED
    BY <2>1
<1>2. CASE fd'[g] = fd[g] /\ ctx'[g] = ctx[g]
  <2>1. /\ ctx[g] \in Devs /\ fd[g] = "status"
        /\ life[ctx[g]] \notin {"unlisted", "gone"}
    BY <1>2, DeviceOfFile DEF Inv, StatusOK
  <2>2. ~RemoveTable(ctx[g])
    BY <2>1 DEF RemoveTable, Users
  <2>3. ~RemoveDrop(ctx[g])
    BY <2>1 DEF RemoveDrop, Advance
  <2> QED
    BY <1>2, <2>1, <2>2, <2>3, LifeFrame
<1> QED
  BY <1>1, <1>2, EntryFrame DEF OpenLookup, Inv, TypeOK

LEMMA StepOpenOK == Inv /\ [Next]_vars => OpenOK'
<1> SUFFICES ASSUME "open" \notin Races, Inv, [Next]_vars PROVE OpenOK'
  BY DEF OpenOK
<1>0. TypeOK /\ OpenOK
  BY DEF Inv
<1>1. ASSUME NEW g \in Files, fd'[g] \in {"check", "ref"} PROVE life'[ctx'[g]] # "gone"
  <2>1. ASSUME NEW m \in Minors, OpenLookup(g, m) PROVE life'[ctx'[g]] # "gone"
    <3>1. life[devs[m]] # "gone" /\ UNCHANGED life /\ ctx'[g] = devs[m]
      BY <1>0, <2>1, DeviceOfMinor DEF OpenLookup, RemoveStages, TypeOK
    <3> QED
      BY <3>1
  <2>2. CASE fd'[g] = "ref" /\ OpenCheck(g)
    BY <1>0, <2>2 DEF OpenCheck, OpenOK, TypeOK
  <2>3. CASE fd'[g] = fd[g] /\ ctx'[g] = ctx[g]
    <3>1. ctx[g] \in Devs /\ life[ctx[g]] # "gone" /\ fd[g] \in {"check", "ref"}
      BY <1>0, <1>1, <2>3, DeviceOfFile DEF OpenOK
    <3>2. ~RemoveDrop(ctx[g])
      BY <3>1 DEF RemoveDrop, Users
    <3>3. RemoveTable(ctx[g]) => life'[ctx[g]] # "gone"
      BY <1>0, <3>1 DEF RemoveTable, Advance, TypeOK
    <3> QED
      BY <2>3, <3>1, <3>2, <3>3, LifeFrame
  <2> QED
    BY <1>1, <2>1, <2>2, <2>3, EntryFrame
<1>2. ASSUME NEW d \in Devs, life'[d] = "gone", Holders(d)' # {}
      PROVE  "struct" \in held'[d]
  <2>1. ASSUME NEW f \in Files, OpenRef(f) PROVE "struct" \in held'[d]
    <3>1. UNCHANGED <<life, held>> /\ life[ctx[f]] # "gone"
      BY <1>0, <2>1 DEF OpenRef, OpenOK
    <3>2. Holders(d)' = Holders(d)
      BY <1>0, <1>2, <2>1, <3>1 DEF OpenRef, Holders, Used, CloseStages, TypeOK
    <3> QED
      BY <1>0, <1>2, <3>1, <3>2 DEF OpenOK
  <2>2. ASSUME NEW f \in Files, ReleaseDrop(f) PROVE "struct" \in held'[d]
    <3>1. UNCHANGED life /\ Holders(ctx[f]) # {}
      BY <2>2, HolderCounts DEF ReleaseDrop, CloseStages
    <3>2. d = ctx[f] => ("struct" \in held'[d] <=> "struct" \in held[d])
      BY <1>2, <2>2, CloseCounts
    <3>3. d # ctx[f] => Holders(d)' = Holders(d) /\ held'[d] = held[d]
      BY <2>2, CloseCounts
    <3> QED
      BY <1>0, <1>2, <3>1, <3>2, <3>3 DEF OpenOK
  <2>3. CASE \A f \in Files : ~OpenRef(f) /\ ~ReleaseDrop(f)
    <3>1. \A e \in Devs : Holders(e)' = Holders(e)
      BY <2>3, HoldersFrame
    <3>2. PICK g \in Files : g \in Holders(d)
      BY <1>2, <3>1 DEF Holders
    <3>3. fd[g] # "closed" /\ ctx[g] = d
      BY <3>2 DEF Holders, Used, CloseStages
    <3>4. CASE RemoveDrop(d)
      BY <3>1, <3>2, <3>4, RemoveCounts
    <3>5. CASE ~RemoveDrop(d)
      <4>1. life[d] = "gone" /\ "struct" \in held[d]
        <5>1. ~RemoveTable(d)
          BY <1>0, <1>2 DEF RemoveTable, Advance, TypeOK
        <5>2. life[d] = "gone"
          BY <1>2, <3>3, <3>5, <5>1, LifeFrame
        <5> QED
          BY <1>0, <3>2, <5>2 DEF OpenOK
      <4>2. "struct" \in held'[d] <=> "struct" \in held[d]
        <5>1. ASSUME NEW e \in Devs, Probe(e) PROVE held'[d] = held[d]
          <6>1. e # d
            BY <4>1, <5>1 DEF Probe, ProbeAlloc, ProbeMinor, ProbePci, ProbeDma, ProbeCdev,
                              ProbeFails, Acquire, Undo
          <6> QED
            BY <1>0, <5>1, <6>1 DEF Probe, ProbeAlloc, ProbeMinor, ProbePci, ProbeDma, ProbeCdev,
                              ProbeFails, Acquire, TypeOK
        <5>2. ASSUME NEW e \in Devs, RemoveReset(e) PROVE "struct" \in held'[d] <=> "struct" \in held[d]
          BY <1>0, <5>2, StreamFrame DEF RemoveReset, Resources
        <5>3. ASSUME NEW e \in Devs, RemoveFlag(e) \/ Remove(e), ~RemoveReset(e)
              PROVE  "struct" \in held'[d] <=> "struct" \in held[d]
          <6>1. RemoveDrop(e) => e # d
            BY <3>5
          <6> QED
            BY <1>0, <5>3, <6>1 DEF RemoveFlag, Remove, RemoveCdev, RemoveIrq, RemoveTasklet,
               RemoveWork, RemoveFindMapping, RemoveMapping, RemoveDma, RemovePci, RemoveTable,
               RemoveDrop, DropRef, TypeOK
        <5>4. ASSUME NEW f \in Files, UserCall(f) \/ ReleaseLock(f) \/ Continue(f)
              PROVE  "struct" \in held'[d] <=> "struct" \in held[d]
          BY <2>3, <5>4, CallHeldFrame DEF Resources
        <5>5. ASSUME NEW e \in Devs, Interrupt(e) \/ BottomHalf(e) PROVE held'[d] = held[d]
          BY <5>5, IrqFrame
        <5>6. CASE UNCHANGED vars
          BY <5>6 DEF vars
        <5> QED
          BY <5>1, <5>2, <5>3, <5>4, <5>5, <5>6 DEF Next
      <4> QED
        BY <4>1, <4>2
    <3> QED
      BY <3>4, <3>5
  <2> QED
    BY <2>1, <2>2, <2>3
<1> QED
  BY <1>1, <1>2 DEF OpenOK
-----------------------------------------------------------------------------
(* Interrupts and streams                                                  *)

LEMMA StepQuietOK == Inv /\ [Next]_vars => QuietOK'
<1> SUFFICES ASSUME Inv, [Next]_vars PROVE QuietOK'
  OBVIOUS
<1>0. TypeOK /\ QuietOK
  BY DEF Inv
<1>1. ASSUME UNCHANGED <<life, irqOn, scheduled, tasklet, queued>>,
             \A d \in Devs : engine'[d] # NoFile => engine[d] # NoFile \/ life[d] \in WithIrq
      PROVE  QuietOK'
  BY <1>0, <1>1 DEF QuietOK
<1>2. ASSUME NEW d \in Devs, Probe(d) PROVE QuietOK'
  <2>1. /\ UNCHANGED <<irqOn, scheduled, tasklet, queued, engine>>
        /\ \A e \in Devs \ {d} : life'[e] = life[e]
        /\ life[d] \notin WithIrq \cup {"irq_off", "killed", "cancelled"}
    BY <1>0, <1>2 DEF Probe, ProbeAlloc, ProbeMinor, ProbePci, ProbeDma, ProbeCdev, ProbeFails,
                      Acquire, Undo, WithIrq, probeRest, irqVars, dmaVars, TypeOK
  <2> QED
    BY <1>0, <2>1 DEF QuietOK
<1>3. ASSUME NEW d \in Devs, RemoveFlag(d) \/ RemoveCdev(d) PROVE QuietOK'
  <2>1. /\ UNCHANGED <<irqOn, scheduled, tasklet, queued, engine>>
        /\ \A e \in Devs \ {d} : life'[e] = life[e]
        /\ life'[d] \in WithIrq
    BY <1>0, <1>3 DEF RemoveFlag, RemoveCdev, Advance, WithIrq, irqVars, dmaVars, TypeOK
  <2> QED
    BY <1>0, <2>1 DEF QuietOK
<1>4. ASSUME NEW d \in Devs, RemoveIrq(d) PROVE QuietOK'
  BY <1>0, <1>4 DEF RemoveIrq, Advance, WithIrq, dmaVars, QuietOK, TypeOK
<1>5. ASSUME NEW d \in Devs, RemoveTasklet(d) PROVE QuietOK'
  BY <1>0, <1>5 DEF RemoveTasklet, Advance, WithIrq, irqVars, dmaVars, QuietOK, TypeOK
<1>6. ASSUME NEW d \in Devs, RemoveWork(d) PROVE QuietOK'
  BY <1>0, <1>6 DEF RemoveWork, Advance, WithIrq, dmaVars, QuietOK, TypeOK
<1>7. ASSUME NEW d \in Devs, RemoveReset(d) PROVE QuietOK'
  <2>1. engine'[d] = NoFile /\ \A e \in Devs \ {d} : engine'[e] = engine[e]
    BY <1>0, <1>7 DEF RemoveReset, StopStream, dmaVars, TypeOK
  <2> QED
    BY <1>0, <1>7, <2>1 DEF RemoveReset, Advance, WithIrq, irqVars, QuietOK, TypeOK
<1>8. ASSUME NEW d \in Devs, RemoveFindMapping(d) \/ RemoveMapping(d) PROVE QuietOK'
  BY <1>1, <1>8 DEF RemoveFindMapping, RemoveMapping, irqVars, dmaVars
<1>9. ASSUME NEW d \in Devs, RemoveDma(d) \/ RemovePci(d) \/ RemoveTable(d) \/ RemoveDrop(d)
      PROVE  QuietOK'
  <2>1. /\ UNCHANGED <<irqOn, scheduled, tasklet, queued, engine>>
        /\ \A e \in Devs \ {d} : life'[e] = life[e]
        /\ life[d] \notin WithIrq \cup {"irq_off", "killed", "cancelled"}
    BY <1>0, <1>9 DEF RemoveDma, RemovePci, RemoveTable, RemoveDrop, Advance, WithIrq, irqVars,
                      dmaVars, TypeOK
  <2> QED
    BY <1>0, <2>1 DEF QuietOK
<1>10. ASSUME NEW d \in Devs, Interrupt(d) PROVE QuietOK'
  BY <1>0, <1>10 DEF Interrupt, dmaVars, QuietOK, TypeOK
<1>11. ASSUME NEW d \in Devs, TaskletRun(d) PROVE QuietOK'
  BY <1>0, <1>11 DEF TaskletRun, dmaVars, QuietOK, TypeOK
\* The flag that the tasklet finds clear is set before the interrupts are disabled.
<1>12. ASSUME NEW d \in Devs, TaskletCheck(d) PROVE QuietOK'
  <2>1. ~goingAway[d] => life[d] # "irq_off"
    BY DEF Inv, FlagOK, RemoveStages
  <2> QED
    BY <1>0, <1>12, <2>1 DEF TaskletCheck, dmaVars, QuietOK, TypeOK
<1>13. ASSUME NEW d \in Devs, TaskletEnable(d) PROVE QuietOK'
  BY <1>0, <1>13 DEF TaskletEnable, dmaVars, QuietOK, TypeOK
<1>14. ASSUME NEW d \in Devs, WorkRun(d) PROVE QuietOK'
  BY <1>0, <1>14 DEF WorkRun, dmaVars, QuietOK, TypeOK
<1>15. ASSUME NEW f \in Files, EnableIrq(f) PROVE QuietOK'
  <2>1. ctx[f] \in Devs /\ life[ctx[f]] = "cdev"
    BY <1>15, DeviceOfFile DEF EnableIrq, Call
  <2> QED
    BY <1>0, <1>15, <2>1 DEF EnableIrq, dmaVars, QuietOK, WithIrq, TypeOK
<1>16. ASSUME NEW f \in Files, ExecuteStream(f) PROVE QuietOK'
  <2>1. ctx[f] \in Devs /\ life[ctx[f]] = "cdev"
    BY <1>16, DeviceOfFile DEF ExecuteStream, Call
  <2>2. PICK b \in {f, Driver} : engine' = [engine EXCEPT ![ctx[f]] = b]
    BY <1>16 DEF ExecuteStream
  <2> QED
    BY <1>0, <1>1, <1>16, <2>1, <2>2 DEF ExecuteStream, irqVars, WithIrq, TypeOK
<1>17. ASSUME NEW f \in Files, UserCall(f) \/ ReleaseLock(f) \/ Continue(f),
              ~EnableIrq(f), ~ExecuteStream(f)
       PROVE  QuietOK'
  <2>1. \A d \in Devs : engine'[d] # NoFile => engine[d] # NoFile
    <3>1. CASE UnlockBuffer(f) \/ ReleaseUnmap(f) \/ Cancel(f)
      <4>1. UNCHANGED engine \/ engine' = [engine EXCEPT ![ctx[f]] = NoFile]
        BY <3>1 DEF UnlockBuffer, ReleaseUnmap, Cancel, SafeDmaUnmap, StopStream, dmaVars
      <4> QED
        BY <1>0, <4>1 DEF TypeOK
    <3>2. CASE ~(UnlockBuffer(f) \/ ReleaseUnmap(f) \/ Cancel(f))
      BY <1>17, <3>2 DEF UserCall, OpenLookup, LockBuffer, StatusBegin, Mmap, MmapReturnsEarly,
         VmaOpen, VmaClose, Close, ReleaseLock, Continue, OpenCheck, OpenRef, StatusEnd,
         RemapDrop, RemapFree, ReleaseUnlock, ReleaseDrop, dmaVars
    <3> QED
      BY <3>1, <3>2
  <2>2. UNCHANGED <<irqOn, scheduled, tasklet, queued, life>>
    BY <1>17 DEF UserCall, OpenLookup, LockBuffer, UnlockBuffer, Cancel, StatusBegin, Mmap,
       MmapReturnsEarly, VmaOpen, VmaClose, Close, ReleaseLock, Continue, OpenCheck, OpenRef,
       StatusEnd, RemapDrop, RemapFree, ReleaseUnmap, ReleaseUnlock, ReleaseDrop, irqVars
  <2> QED
    BY <1>1, <2>1, <2>2
<1>18. CASE UNCHANGED vars
  BY <1>1, <1>18 DEF vars, irqVars, dmaVars
<1> QED
  BY <1>2, <1>3, <1>4, <1>5, <1>6, <1>7, <1>8, <1>9, <1>10, <1>11, <1>12, <1>13, <1>14, <1>15,
     <1>16, <1>17, <1>18
  DEF Next, Remove, BottomHalf
-----------------------------------------------------------------------------
(* Mappings                                                                *)

LEMMA StepMappedOK == Inv /\ [Next]_vars => MappedOK'
<1> SUFFICES ASSUME Inv, [Next]_vars PROVE MappedOK'
  OBVIOUS
<1>0. TypeOK /\ MappedOK
  BY DEF Inv
<1>1. ASSUME UNCHANGED <<fd, mapped>> PROVE MappedOK'
  BY <1>0, <1>1 DEF MappedOK
<1>2. ASSUME NEW d \in Devs, \/ Probe(d) \/ RemoveFlag(d) \/ Interrupt(d) \/ BottomHalf(d)
                             \/ Remove(d) /\ ~RemoveMapping(d)
      PROVE  MappedOK'
  BY <1>1, <1>2, IrqFrame
  DEF Probe, ProbeAlloc, ProbeMinor, ProbePci, ProbeDma, ProbeCdev, ProbeFails, probeRest,
      RemoveFlag, Remove, RemoveCdev, RemoveIrq, RemoveTasklet, RemoveWork, RemoveReset,
      RemoveFindMapping, RemoveDma, RemovePci, RemoveTable, RemoveDrop, fileVars
<1>3. ASSUME NEW d \in Devs, RemoveMapping(d) PROVE MappedOK'
  BY <1>0, <1>3 DEF RemoveMapping, MappedOK, TypeOK
<1>4. ASSUME NEW f \in Files, ExecuteStream(f) \/ Cancel(f) \/ EnableIrq(f)
             \/ MmapReturnsEarly(f) \/ VmaOpen(f) \/ VmaClose(f)
      PROVE  MappedOK'
  BY <1>1, <1>4 DEF ExecuteStream, Cancel, EnableIrq, MmapReturnsEarly, VmaOpen, VmaClose, fileVars
<1>5. ASSUME NEW f \in Files, LockBuffer(f) \/ UnlockBuffer(f) PROVE MappedOK'
  BY <1>0, <1>5 DEF LockBuffer, UnlockBuffer, SafeDmaUnmap, Call, MappedOK, TypeOK, Used
<1>6. ASSUME NEW f \in Files, ReleaseUnmap(f) PROVE MappedOK'
  BY <1>0, <1>6 DEF ReleaseUnmap, SafeDmaUnmap, MappedOK, TypeOK, Used
<1>7. ASSUME NEW f \in Files, StatusBegin(f) \/ StatusEnd(f) \/ Mmap(f) \/ RemapDrop(f)
             \/ RemapFree(f) \/ Close(f) \/ ReleaseLock(f)
      PROVE  MappedOK'
  BY <1>0, <1>7 DEF StatusBegin, StatusEnd, Mmap, RemapDrop, RemapFree, Close, ReleaseLock,
                    MappedOK, TypeOK, Used
<1>8. ASSUME NEW f \in Files, ReleaseUnlock(f) \/ ReleaseDrop(f) \/ OpenRef(f) \/ OpenCheck(f)
             \/ \E m \in Minors : OpenLookup(f, m)
      PROVE  MappedOK'
  BY <1>0, <1>8 DEF ReleaseUnlock, ReleaseDrop, OpenRef, OpenCheck, OpenLookup, MappedOK, TypeOK,
                    Used
<1>9. CASE UNCHANGED vars
  BY <1>1, <1>9 DEF vars, fileVars
<1> QED
  BY <1>2, <1>3, <1>4, <1>5, <1>6, <1>7, <1>8, <1>9 DEF Next, UserCall, Continue

LEMMA StepMapOK == Inv /\ [Next]_vars => MapOK'
<1> SUFFICES ASSUME Inv, [Next]_vars PROVE MapOK'
  OBVIOUS
<1>0. /\ TypeOK /\ MapOK /\ MappedOK /\ LifecycleAssumption
      /\ \A f \in Files : fd[f] = "closed" <=> ctx[f] = NoDev
      /\ \A d \in Devs : life[d] = "reset" => goingAway[d]
  BY LifecycleAssumption DEF Inv, FilesOK, FileOK, FlagOK, RemoveStages
\* Steps that take no part.
<1>1. ASSUME UNCHANGED <<fd, ctx, mapped, cursor>>,
             \A d \in Devs : cursor[d] # NoFile => life'[d] = life[d],
             \A d \in Devs : life[d] \in AfterReset => life'[d] \in AfterReset
      PROVE  MapOK'
  <2>1. \A f \in Files : fd[f] = "unmap" => ctx[f] \in Devs
    BY <1>0 DEF TypeOK
  <2> QED
    BY <1>0, <1>1, <2>1 DEF MapOK
\* Steps of one file that neither map nor free; it gives its device up only after
\* the mapping.
<1>2. ASSUME NEW f \in Files, UNCHANGED <<life, mapped, cursor>>,
             \A g \in Files \ {f} : fd'[g] = fd[g] /\ ctx'[g] = ctx[g],
             fd'[f] # "unmap",
             \/ ctx'[f] = ctx[f] /\ fd[f] \notin {"unlock", "drop", "check"}
             \/ fd'[f] \in {"unlock", "drop", "check"}
             \/ ctx'[f] = NoDev
      PROVE  MapOK'
  <2>1. ASSUME NEW d \in Devs, NEW g \in Files, cursor'[d] = g, ctx'[g] = d,
               fd'[g] \notin {"unlock", "drop", "check"}
        PROVE  mapped'[g]
    BY <1>0, <1>2, <2>1 DEF MapOK
  <2>2. \A g \in Files : fd'[g] = "unmap" /\ ~mapped'[g] => life'[ctx'[g]] \in AfterReset
    BY <1>0, <1>2 DEF MapOK
  <2>3. \A d \in Devs : cursor'[d] # NoFile => life'[d] = "reset"
    BY <1>0, <1>2 DEF MapOK
  <2> QED
    BY <2>1, <2>2, <2>3 DEF MapOK
<1>3. ASSUME NEW d \in Devs, Probe(d) PROVE MapOK'
  <2>1. /\ UNCHANGED <<fd, ctx, mapped, cursor>> /\ \A e \in Devs \ {d} : life'[e] = life[e]
        /\ life[d] \notin AfterReset
    BY <1>0, <1>3 DEF Probe, ProbeAlloc, ProbeMinor, ProbePci, ProbeDma, ProbeCdev, ProbeFails,
                      Acquire, Undo, probeRest, fileVars, TypeOK, AfterReset
  <2>2. cursor[d] = NoFile
    BY <1>0, <2>1 DEF MapOK, AfterReset
  <2> QED
    BY <1>1, <2>1, <2>2
<1>4. ASSUME NEW d \in Devs, RemoveFlag(d) \/ RemoveCdev(d) \/ RemoveIrq(d) \/ RemoveTasklet(d)
             \/ RemoveWork(d) \/ RemoveReset(d)
      PROVE  MapOK'
  <2>1. /\ UNCHANGED <<fd, ctx, mapped, cursor>> /\ \A e \in Devs \ {d} : life'[e] = life[e]
        /\ life[d] \notin AfterReset
    BY <1>0, <1>4 DEF RemoveFlag, RemoveCdev, RemoveIrq, RemoveTasklet, RemoveWork, RemoveReset,
       Advance, fileVars, TypeOK, AfterReset
  <2>2. cursor[d] = NoFile
    BY <1>0, <2>1 DEF MapOK, AfterReset
  <2> QED
    BY <1>1, <2>1, <2>2
<1>5. ASSUME NEW d \in Devs, RemoveDma(d) \/ RemovePci(d) \/ RemoveTable(d) \/ RemoveDrop(d)
      PROVE  MapOK'
  <2>1. /\ UNCHANGED <<fd, ctx, mapped, cursor>> /\ \A e \in Devs \ {d} : life'[e] = life[e]
        /\ life[d] # "reset" \/ cursor[d] = NoFile
        /\ life'[d] \in AfterReset
    BY <1>0, <1>5 DEF RemoveDma, RemovePci, RemoveTable, RemoveDrop, Advance, fileVars, TypeOK,
       AfterReset
  <2>2. cursor[d] = NoFile
    BY <1>0, <2>1 DEF MapOK
  <2> QED
    BY <1>1, <2>1, <2>2
<1>6. ASSUME NEW d \in Devs, RemoveFindMapping(d) PROVE MapOK'
  <2>1. PICK f \in Files : ctx[f] = d /\ mapped[f] /\ cursor' = [cursor EXCEPT ![d] = f]
    BY <1>6 DEF RemoveFindMapping
  <2>2. life[d] = "reset" /\ UNCHANGED <<life, fd, ctx, mapped>>
    BY <1>6 DEF RemoveFindMapping, fileVars
  <2> QED
    BY <1>0, <2>1, <2>2 DEF MapOK, TypeOK
\* What it frees may be in the hand of a close, whose device is then reset.
<1>7. ASSUME NEW d \in Devs, RemoveMapping(d) PROVE MapOK'
  <2>1. PICK f \in Files : f = cursor[d]
    BY <1>0, <1>7 DEF RemoveMapping, TypeOK
  <2>2. /\ life[d] = "reset" /\ UNCHANGED <<life, fd, ctx>>
        /\ mapped' = [mapped EXCEPT ![f] = @ /\ ctx[f] # d]
        /\ cursor' = [cursor EXCEPT ![d] = NoFile]
    BY <1>0, <1>7, <2>1 DEF RemoveMapping, MapOK
  <2>3. \A g \in Files : mapped'[g] = mapped[g] \/ (g = f /\ ctx[g] = d)
    BY <1>0, <2>2 DEF TypeOK
  <2>4. ASSUME NEW e \in Devs, NEW g \in Files, cursor'[e] = g, ctx'[g] = e,
               fd'[g] \notin {"unlock", "drop", "check"}
        PROVE  mapped'[g]
    <3>1. e # d /\ cursor[e] = g
      BY <1>0, <2>2, <2>4 DEF TypeOK
    <3> QED
      BY <1>0, <2>2, <2>3, <2>4, <3>1 DEF MapOK
  <2>5. \A e \in Devs : cursor'[e] # NoFile => life'[e] = "reset"
    BY <1>0, <2>2 DEF MapOK, TypeOK
  <2>6. \A g \in Files : fd'[g] = "unmap" /\ ~mapped'[g] => life'[ctx'[g]] \in AfterReset
    BY <1>0, <2>2, <2>3 DEF MapOK, AfterReset
  <2> QED
    BY <2>4, <2>5, <2>6 DEF MapOK
<1>8. ASSUME NEW d \in Devs, Interrupt(d) \/ BottomHalf(d) PROVE MapOK'
  BY <1>1, <1>8, IrqFrame DEF fileVars
<1>9. ASSUME NEW f \in Files, LockBuffer(f) PROVE MapOK'
  <2>1. UNCHANGED <<fd, ctx, cursor, life>> /\ mapped' = [mapped EXCEPT ![f] = TRUE]
    BY <1>9 DEF LockBuffer
  <2> QED
    BY <1>0, <2>1 DEF MapOK, TypeOK
\* The removal has nothing of a device in hand that calls still use.
<1>10. ASSUME NEW f \in Files, UnlockBuffer(f) PROVE MapOK'
  <2>1. /\ fd[f] = "open" /\ UNCHANGED <<fd, ctx, cursor, life>>
        /\ mapped' = [mapped EXCEPT ![f] = FALSE] /\ life[ctx[f]] = "cdev"
    BY <1>10, DeviceOfFile DEF UnlockBuffer, SafeDmaUnmap, Call
  <2> QED
    BY <1>0, <2>1 DEF MapOK, TypeOK
<1>11. ASSUME NEW f \in Files, ReleaseLock(f) PROVE MapOK'
  <2>1. /\ fd[f] = "release" /\ UNCHANGED <<ctx, cursor, life, mapped>>
        /\ fd' = [fd EXCEPT ![f] = IF mapped[f] THEN "unmap" ELSE "unlock"]
    BY <1>11 DEF ReleaseLock
  <2> QED
    BY <1>0, <2>1 DEF MapOK, TypeOK
<1>12. ASSUME NEW f \in Files, ReleaseUnmap(f) PROVE MapOK'
  <2>1. /\ fd[f] = "unmap" /\ UNCHANGED <<ctx, cursor, life>>
        /\ fd' = [fd EXCEPT ![f] = "unlock"] /\ mapped' = [mapped EXCEPT ![f] = FALSE]
    BY <1>12 DEF ReleaseUnmap, SafeDmaUnmap
  <2> QED
    BY <1>0, <2>1 DEF MapOK, TypeOK
<1>13. ASSUME NEW f \in Files, ReleaseUnlock(f) \/ ReleaseDrop(f)
              \/ \E m \in Minors : OpenLookup(f, m)
       PROVE  MapOK'
  BY <1>0, <1>2, <1>13 DEF ReleaseUnlock, ReleaseDrop, OpenLookup, TypeOK
\* A device whose mappings are being freed is found to be going away.
<1>14. ASSUME NEW f \in Files, OpenCheck(f) \/ OpenRef(f) PROVE MapOK'
  <2>1. UNCHANGED <<life, mapped, cursor>> /\ fd'[f] # "unmap"
        /\ \A g \in Files \ {f} : fd'[g] = fd[g] /\ ctx'[g] = ctx[g]
    BY <1>0, <1>14 DEF OpenCheck, OpenRef, TypeOK
  <2>2. CASE OpenRef(f)
    BY <1>0, <1>2, <2>1, <2>2 DEF OpenRef
  <2>3. CASE OpenCheck(f) /\ goingAway[ctx[f]]
    BY <1>0, <1>2, <2>1, <2>3 DEF OpenCheck, TypeOK
  <2>4. CASE OpenCheck(f) /\ ~goingAway[ctx[f]]
    <3>1. ctx' = ctx /\ \A d \in Devs : ctx[f] = d => cursor[d] = NoFile
      BY <1>0, <2>4 DEF OpenCheck, MapOK
    <3>2. ASSUME NEW d \in Devs, NEW g \in Files, cursor'[d] = g, ctx'[g] = d,
                 fd'[g] \notin {"unlock", "drop", "check"}
          PROVE  mapped'[g]
      <4>1. g # f
        BY <1>0, <2>1, <3>1, <3>2
      <4> QED
        BY <1>0, <2>1, <3>1, <3>2, <4>1 DEF MapOK
    <3>3. \A g \in Files : fd'[g] = "unmap" /\ ~mapped'[g] => life'[ctx'[g]] \in AfterReset
      BY <1>0, <2>1, <3>1 DEF MapOK
    <3>4. \A d \in Devs : cursor'[d] # NoFile => life'[d] = "reset"
      BY <1>0, <2>1 DEF MapOK
    <3> QED
      BY <3>2, <3>3, <3>4 DEF MapOK
  <2> QED
    BY <1>14, <2>2, <2>3, <2>4
<1>15. ASSUME NEW f \in Files, StatusBegin(f) \/ StatusEnd(f) \/ Mmap(f) \/ RemapDrop(f)
              \/ RemapFree(f) \/ Close(f)
       PROVE  MapOK'
  BY <1>0, <1>2, <1>15
  DEF StatusBegin, StatusEnd, Mmap, RemapDrop, RemapFree, Close, Call, TypeOK
<1>16. ASSUME NEW f \in Files, ExecuteStream(f) \/ Cancel(f) \/ EnableIrq(f)
              \/ MmapReturnsEarly(f) \/ VmaOpen(f) \/ VmaClose(f)
       PROVE  MapOK'
  BY <1>1, <1>16 DEF ExecuteStream, Cancel, EnableIrq, MmapReturnsEarly, VmaOpen, VmaClose,
                     fileVars
<1>17. CASE UNCHANGED vars
  BY <1>1, <1>17 DEF vars, fileVars
<1> QED
  BY <1>3, <1>4, <1>5, <1>6, <1>7, <1>8, <1>9, <1>10, <1>11, <1>12, <1>13, <1>14, <1>15,
     <1>16, <1>17
  DEF Next, Remove, UserCall, Continue
-----------------------------------------------------------------------------
(* References to the stream state                                          *)

LEMMA Gained ==
  ASSUME Inv, NEW d \in Devs,
         streamRefs'[d] = streamRefs[d] + 1,
         "remap" \notin Races => "stream" \in held'[d] /\ Users(d, {"remap_free"})' = {},
         \/ /\ engine[d] = NoFile /\ engine'[d] # NoFile
            /\ Clients(d)' = Clients(d)
         \/ /\ engine'[d] = engine[d]
            /\ \E u : u \notin Clients(d) /\ Clients(d)' = Clients(d) \cup {u}
  PROVE  CountOK(d)'
<1>1. CountOK(d) /\ Cardinality(Clients(d)) \in Nat
  BY StreamCounts DEF Inv, StreamOK
<1>2. /\ IsFiniteSet(Clients(d)')
      /\ streamRefs'[d] = StreamRef(d)' + Cardinality(Clients(d)')
  <2>1. CASE engine[d] = NoFile /\ engine'[d] # NoFile /\ Clients(d)' = Clients(d)
    BY <1>1, <2>1 DEF CountOK, StreamRef
  <2>2. CASE /\ engine'[d] = engine[d]
             /\ \E u : u \notin Clients(d) /\ Clients(d)' = Clients(d) \cup {u}
    <3>1. /\ IsFiniteSet(Clients(d)')
          /\ Cardinality(Clients(d)') = Cardinality(Clients(d)) + 1
      BY <1>1, <2>2, FS_AddElement DEF CountOK
    <3>2. StreamRef(d)' = StreamRef(d) /\ StreamRef(d) \in {0, 1}
      BY <2>2 DEF StreamRef
    <3> QED
      BY <1>1, <3>1, <3>2 DEF CountOK
  <2> QED
    BY <2>1, <2>2
<1>3. streamRefs'[d] > 0
  BY DEF Inv, TypeOK
<1> QED
  BY <1>2, <1>3 DEF CountOK

LEMMA Dropped ==
  ASSUME Inv, NEW d \in Devs,
         streamRefs'[d] = streamRefs[d] - 1, streamRefs[d] = 1 => "stream" \notin held'[d],
         "remap" \notin Races => /\ streamRefs[d] # 1 => "stream" \in held'[d]
                                /\ Users(d, {"remap_free"})' = {},
         \/ /\ engine[d] # NoFile /\ engine'[d] = NoFile
            /\ Clients(d)' = Clients(d)
         \/ /\ engine'[d] = engine[d]
            /\ \E u \in Clients(d) : Clients(d)' = Clients(d) \ {u}
  PROVE  CountOK(d)'
<1>1. CountOK(d) /\ Cardinality(Clients(d)) \in Nat
  BY StreamCounts DEF Inv, StreamOK
<1>2. /\ IsFiniteSet(Clients(d)')
      /\ streamRefs'[d] = StreamRef(d)' + Cardinality(Clients(d)')
      /\ streamRefs[d] > 0
  <2>1. CASE engine[d] # NoFile /\ engine'[d] = NoFile /\ Clients(d)' = Clients(d)
    BY <1>1, <2>1 DEF CountOK, StreamRef
  <2>2. CASE /\ engine'[d] = engine[d]
             /\ \E u \in Clients(d) : Clients(d)' = Clients(d) \ {u}
    <3>1. /\ IsFiniteSet(Clients(d)')
          /\ Cardinality(Clients(d)') = Cardinality(Clients(d)) - 1
      BY <1>1, <2>2, FS_RemoveElement DEF CountOK
    <3>2. StreamRef(d)' = StreamRef(d) /\ StreamRef(d) \in {0, 1}
      BY <2>2 DEF StreamRef
    <3>3. Cardinality(Clients(d)) # 0
      BY <1>1, <2>2, FS_EmptySet DEF CountOK
    <3> QED
      BY <1>1, <3>1, <3>2, <3>3 DEF CountOK
  <2> QED
    BY <2>1, <2>2
<1>3. streamRefs'[d] > 0 <=> streamRefs[d] # 1
  BY <1>2 DEF Inv, TypeOK
<1> QED
  BY <1>2, <1>3 DEF CountOK

\* A device whose stream state nobody touches.
LEMMA CountFrame ==
  ASSUME Inv, NEW d \in Devs,
         streamRefs'[d] = streamRefs[d], engine'[d] = engine[d],
         "stream" \in held'[d] <=> "stream" \in held[d],
         Clients(d)' = Clients(d), Users(d, {"remap_free"})' = Users(d, {"remap_free"})
  PROVE  CountOK(d)'
BY DEF Inv, StreamOK, CountOK, StreamRef

\* A file that neither gains nor loses an area.
Aside(g) == \/ fd'[g] = fd[g] /\ ctx'[g] = ctx[g]
            \/ /\ fd[g] \notin {"remap", "remap_free"} /\ fd'[g] \notin {"remap", "remap_free"}
               /\ (ctx'[g] = ctx[g] /\ fd'[g] \in Used) \/ vmas[g] = 0

LEMMA AsideFrame ==
  ASSUME Inv, UNCHANGED vmas, \A g \in Files : Aside(g)
  PROVE  /\ \A g \in Files : vmas'[g] > 0 => fd'[g] \in Used
         /\ \A d : /\ Clients(d)' = Clients(d)
                   /\ Users(d, {"remap_free"})' = Users(d, {"remap_free"})
<1>1. TypeOK /\ \A g \in Files : vmas[g] > 0 => fd[g] \in Used
  BY DEF Inv, StreamOK
<1>2. ASSUME NEW d PROVE Users(d, {"remap_free"})' = Users(d, {"remap_free"})
  BY <1>1 DEF Users, Aside
<1>3. ASSUME NEW d PROVE Clients(d)' = Clients(d)
  <2>1. ASSUME NEW g \in Files, NEW k \in 0 .. MaxVmas
        PROVE  <<g, k>> \in Clients(d)' <=> <<g, k>> \in Clients(d)
    <3>1. CASE fd'[g] = fd[g] /\ ctx'[g] = ctx[g]
      BY <3>1 DEF Clients
    <3>2. CASE fd[g] # "remap" /\ fd'[g] # "remap" /\ ctx'[g] = ctx[g]
      BY <3>2 DEF Clients
    <3>3. CASE fd[g] # "remap" /\ fd'[g] # "remap" /\ vmas[g] = 0
      <4>1. k = 0 \/ ~(k <= vmas[g])
        BY <3>3
      <4> QED
        BY <3>3, <4>1 DEF Clients
    <3> QED
      BY <3>1, <3>2, <3>3 DEF Aside
  <2>2. Clients(d)' \subseteq Files \X (0 .. MaxVmas) /\ Clients(d) \subseteq Files \X (0 .. MaxVmas)
    BY DEF Clients
  <2> QED
    BY <2>1, <2>2
<1> QED
  BY <1>1, <1>2, <1>3 DEF Aside

\* Steps that touch no stream state.
LEMMA StreamAside ==
  ASSUME Inv, UNCHANGED <<vmas, streamRefs, engine>>, \A g \in Files : Aside(g),
         \A d \in Devs : "stream" \in held'[d] <=> "stream" \in held[d]
  PROVE  StreamOK'
<1>1. /\ \A g \in Files : vmas'[g] > 0 => fd'[g] \in Used
      /\ \A d \in Devs : /\ Clients(d)' = Clients(d)
                         /\ Users(d, {"remap_free"})' = Users(d, {"remap_free"})
  BY AsideFrame
<1>2. \A d \in Devs : CountOK(d)'
  BY <1>1, CountFrame
<1> QED
  BY <1>1, <1>2 DEF StreamOK

\* Streams start and stop: the engine's own reference.
LEMMA EngineCounts ==
  ASSUME Inv, NEW d \in Devs, UNCHANGED vmas, \A g \in Files : Aside(g),
         NoRemapRace(d),
         \A e \in Devs \ {d} : engine'[e] = engine[e],
         \/ engine[d] = NoFile /\ engine'[d] # NoFile /\ InitStreamInfo(d)
         \/ engine[d] # NoFile /\ engine'[d] = NoFile /\ FreeStreamInfo(d)
  PROVE  StreamOK'
<1>0. TypeOK
  BY DEF Inv
<1>1. /\ \A g \in Files : vmas'[g] > 0 => fd'[g] \in Used
      /\ \A e \in Devs : /\ Clients(e)' = Clients(e)
                         /\ Users(e, {"remap_free"})' = Users(e, {"remap_free"})
  BY AsideFrame
<1>2. "remap" \notin Races => Users(d, {"remap_free"})' = {}
  BY <1>1 DEF NoRemapRace
<1>3. CASE engine[d] = NoFile /\ engine'[d] # NoFile /\ InitStreamInfo(d)
  <2>1. streamRefs'[d] = streamRefs[d] + 1 /\ "stream" \in held'[d]
    BY <1>0, <1>3 DEF InitStreamInfo, TypeOK, Resources
  <2>2. CountOK(d)'
    BY <1>1, <1>2, <1>3, <2>1, Gained
  <2>3. \A e \in Devs \ {d} : streamRefs'[e] = streamRefs[e] /\ held'[e] = held[e]
    BY <1>0, <1>3 DEF InitStreamInfo, TypeOK
  <2>4. \A e \in Devs \ {d} : CountOK(e)'
    BY <1>1, <2>3, CountFrame
  <2> QED
    BY <1>1, <2>2, <2>4 DEF StreamOK
<1>4. CASE engine[d] # NoFile /\ engine'[d] = NoFile /\ FreeStreamInfo(d)
  <2>1. "remap" \notin Races => "stream" \in held[d]
    BY <1>4, StreamCounts DEF Inv, StreamOK, CountOK
  <2>2. /\ streamRefs'[d] = streamRefs[d] - 1
        /\ streamRefs[d] = 1 => "stream" \notin held'[d]
        /\ "remap" \notin Races /\ streamRefs[d] # 1 => "stream" \in held'[d]
    BY <1>0, <1>4, <2>1 DEF FreeStreamInfo, TypeOK
  <2>3. CountOK(d)'
    BY <1>1, <1>2, <1>4, <2>2, Dropped
  <2>4. \A e \in Devs \ {d} : streamRefs'[e] = streamRefs[e] /\ held'[e] = held[e]
    BY <1>0, <1>4 DEF FreeStreamInfo, TypeOK
  <2>5. \A e \in Devs \ {d} : CountOK(e)'
    BY <1>1, <2>4, CountFrame
  <2> QED
    BY <1>1, <2>3, <2>5 DEF StreamOK
<1> QED
  BY <1>3, <1>4

LEMMA StopCounts ==
  ASSUME Inv, NEW d \in Devs, UNCHANGED vmas, \A g \in Files : Aside(g),
         StopStream(d) \/ UNCHANGED <<held, dmaVars>>
  PROVE  StreamOK'
<1>1. CASE UNCHANGED <<held, dmaVars>>
  BY <1>1, StreamAside DEF dmaVars
<1>2. CASE StopStream(d) /\ ~UNCHANGED <<held, dmaVars>>
  <2>1. /\ engine[d] # NoFile /\ NoRemapRace(d) /\ FreeStreamInfo(d)
        /\ engine' = [engine EXCEPT ![d] = NoFile]
    BY <1>2 DEF StopStream
  <2>2. engine'[d] = NoFile /\ \A e \in Devs \ {d} : engine'[e] = engine[e]
    BY <2>1 DEF Inv, TypeOK
  <2> QED
    BY <2>1, <2>2, EngineCounts
<1> QED
  BY <1>1, <1>2

\* Only the clients of the file's own device change.
LEMMA OtherClients ==
  ASSUME TypeOK, NEW f \in Files, UNCHANGED ctx, NEW e, ctx[f] # e,
         \A g \in Files \ {f} : fd'[g] = fd[g] /\ vmas'[g] = vmas[g]
  PROVE  Clients(e)' = Clients(e)
<1>1. ASSUME NEW g \in Files, NEW k \in 0 .. MaxVmas
      PROVE  <<g, k>> \in Clients(e)' <=> <<g, k>> \in Clients(e)
  BY DEF Clients
<1>2. Clients(e)' \subseteq Files \X (0 .. MaxVmas) /\ Clients(e) \subseteq Files \X (0 .. MaxVmas)
  BY DEF Clients
<1> QED
  BY <1>1, <1>2

\* An area comes, or an mmap that has still to remap its area.
LEMMA ClientGained ==
  ASSUME Inv, NEW f \in Files, NEW d \in Devs, ctx[f] = d, UNCHANGED <<ctx, engine>>,
         \/ UNCHANGED fd /\ vmas' = [vmas EXCEPT ![f] = @ + 1]
         \/ /\ UNCHANGED vmas /\ fd' = [fd EXCEPT ![f] = "remap"]
            /\ fd[f] \notin {"remap", "remap_free"},
         vmas[f] < MaxVmas, fd[f] \in Used,
         "remap" \notin Races => "stream" \in held'[d] /\ Users(d, {"remap_free"}) = {},
         streamRefs' = [streamRefs EXCEPT ![d] = @ + 1],
         \A e \in Devs \ {d} : held'[e] = held[e]
  PROVE  StreamOK'
<1>0. TypeOK /\ LifecycleAssumption /\ \A g \in Files : vmas[g] > 0 => fd[g] \in Used
  BY LifecycleAssumption DEF Inv, StreamOK
<1>1. vmas[f] \in Nat /\ vmas[f] + 1 \in 0 .. MaxVmas
  BY <1>0 DEF TypeOK, LifecycleAssumption
<1>2. \A g \in Files : vmas'[g] > 0 => fd'[g] \in Used
  BY <1>0 DEF TypeOK, Used
<1>3. \A e \in Devs : Users(e, {"remap_free"})' = Users(e, {"remap_free"})
  BY <1>0 DEF Users, TypeOK
<1>4. PICK k \in 0 .. MaxVmas :
        /\ <<f, k>> \notin Clients(d) /\ Clients(d)' = Clients(d) \cup {<<f, k>>}
  <2>1. CASE UNCHANGED fd /\ vmas' = [vmas EXCEPT ![f] = @ + 1]
    <3>1. <<f, vmas[f] + 1>> \notin Clients(d)
      BY <1>1 DEF Clients
    <3>2. Clients(d)' = Clients(d) \cup {<<f, vmas[f] + 1>>}
      <4>1. \A g \in Files, k \in 0 .. MaxVmas :
              <<g, k>> \in Clients(d)' <=> <<g, k>> \in Clients(d) \cup {<<f, vmas[f] + 1>>}
        <5>1. ASSUME NEW g \in Files, NEW k \in 0 .. MaxVmas, g # f
              PROVE  <<g, k>> \in Clients(d)' <=> <<g, k>> \in Clients(d)
          BY <1>0, <2>1, <5>1 DEF Clients, TypeOK
        <5>2. ASSUME NEW k \in 0 .. MaxVmas
              PROVE  <<f, k>> \in Clients(d)' <=> <<f, k>> \in Clients(d) \/ k = vmas[f] + 1
          <6>1. vmas'[f] = vmas[f] + 1 /\ fd'[f] = fd[f] /\ ctx'[f] = d
            BY <1>0, <2>1 DEF TypeOK
          <6>2. k <= vmas[f] + 1 <=> k <= vmas[f] \/ k = vmas[f] + 1
            BY <1>1
          <6>3. k = 0 => k # vmas[f] + 1
            BY <1>1
          <6> QED
            BY <6>1, <6>2, <6>3 DEF Clients
        <5> QED
          BY <5>1, <5>2
      <4>2. Clients(d)' \subseteq Files \X (0 .. MaxVmas)
            /\ Clients(d) \subseteq Files \X (0 .. MaxVmas)
        BY DEF Clients
      <4> QED
        BY <1>1, <4>1, <4>2
    <3> QED
      BY <1>1, <3>1, <3>2
  <2>2. CASE /\ UNCHANGED vmas /\ fd' = [fd EXCEPT ![f] = "remap"]
             /\ fd[f] \notin {"remap", "remap_free"}
    <3>1. <<f, 0>> \notin Clients(d)
      BY <2>2 DEF Clients
    <3>2. Clients(d)' = Clients(d) \cup {<<f, 0>>}
      <4>1. \A g \in Files, k \in 0 .. MaxVmas :
              <<g, k>> \in Clients(d)' <=> <<g, k>> \in Clients(d) \cup {<<f, 0>>}
        BY <1>0, <2>2 DEF Clients, TypeOK
      <4>2. /\ Clients(d)' \subseteq Files \X (0 .. MaxVmas)
            /\ Clients(d) \subseteq Files \X (0 .. MaxVmas) /\ 0 \in 0 .. MaxVmas
        BY <1>0 DEF Clients, LifecycleAssumption
      <4> QED
        BY <4>1, <4>2
    <3> QED
      BY <1>0, <3>1, <3>2 DEF LifecycleAssumption
  <2> QED
    BY <2>1, <2>2
<1>5. ASSUME NEW e \in Devs \ {d} PROVE Clients(e)' = Clients(e)
  <2>1. \A g \in Files \ {f} : fd'[g] = fd[g] /\ vmas'[g] = vmas[g]
    BY <1>0 DEF TypeOK
  <2> QED
    BY <1>0, <2>1, OtherClients
<1>6. CountOK(d)'
  <2>1. streamRefs'[d] = streamRefs[d] + 1 /\ engine'[d] = engine[d]
    BY <1>0 DEF TypeOK
  <2> QED
    BY <1>3, <1>4, <2>1, Gained
<1>7. ASSUME NEW e \in Devs \ {d} PROVE CountOK(e)'
  BY <1>0, <1>3, <1>5, CountFrame DEF TypeOK
<1> QED
  BY <1>2, <1>6, <1>7 DEF StreamOK

\* An area goes, or an mmap that failed to remap its area.
LEMMA ClientLost ==
  ASSUME Inv, NEW f \in Files, NEW d \in Devs, ctx[f] = d, UNCHANGED ctx,
         \/ UNCHANGED fd /\ vmas' = [vmas EXCEPT ![f] = @ - 1] /\ vmas[f] > 0
         \/ UNCHANGED vmas /\ fd[f] = "remap" /\ fd'[f] # "remap"
              /\ \A g \in Files \ {f} : fd'[g] = fd[g]
  PROVE  /\ \E u \in Clients(d) : Clients(d)' = Clients(d) \ {u}
         /\ \A e \in Devs \ {d} : Clients(e)' = Clients(e)
<1>0. TypeOK /\ LifecycleAssumption
  BY LifecycleAssumption DEF Inv
<1>1. /\ Clients(d)' \subseteq Files \X (0 .. MaxVmas)
      /\ Clients(d) \subseteq Files \X (0 .. MaxVmas)
  BY DEF Clients
<1>2. ASSUME NEW k \in 0 .. MaxVmas, <<f, k>> \in Clients(d),
             \A g \in Files, j \in 0 .. MaxVmas :
               <<g, j>> \in Clients(d)' <=> <<g, j>> \in Clients(d) /\ <<g, j>> # <<f, k>>
      PROVE  \E u \in Clients(d) : Clients(d)' = Clients(d) \ {u}
  <2>1. Clients(d)' = Clients(d) \ {<<f, k>>}
    BY <1>1, <1>2
  <2> QED
    BY <1>2, <2>1
<1>3. \E u \in Clients(d) : Clients(d)' = Clients(d) \ {u}
  <2>1. CASE UNCHANGED fd /\ vmas' = [vmas EXCEPT ![f] = @ - 1] /\ vmas[f] > 0
    <3>1. vmas[f] \in 1 .. MaxVmas /\ vmas'[f] = vmas[f] - 1
      BY <1>0, <2>1 DEF TypeOK, LifecycleAssumption
    <3>2. <<f, vmas[f]>> \in Clients(d) /\ vmas[f] \in 0 .. MaxVmas
      BY <1>0, <3>1 DEF Clients, LifecycleAssumption
    <3>3. ASSUME NEW g \in Files, NEW j \in 0 .. MaxVmas, g # f
          PROVE  <<g, j>> \in Clients(d)' <=> <<g, j>> \in Clients(d)
      BY <1>0, <2>1, <3>3 DEF Clients, TypeOK
    <3>4. ASSUME NEW j \in 0 .. MaxVmas
          PROVE  <<f, j>> \in Clients(d)' <=> <<f, j>> \in Clients(d) /\ j # vmas[f]
      <4>1. /\ j <= vmas[f] - 1 <=> j <= vmas[f] /\ j # vmas[f]
            /\ j = 0 => j # vmas[f]
        BY <1>0, <3>1 DEF LifecycleAssumption
      <4> QED
        BY <2>1, <3>1, <4>1 DEF Clients
    <3> QED
      BY <1>2, <3>2, <3>3, <3>4
  <2>2. CASE UNCHANGED vmas /\ fd[f] = "remap" /\ fd'[f] # "remap"
               /\ \A g \in Files \ {f} : fd'[g] = fd[g]
    <3>1. <<f, 0>> \in Clients(d) /\ 0 \in 0 .. MaxVmas
      BY <1>0, <2>2 DEF Clients, LifecycleAssumption
    <3>2. ASSUME NEW g \in Files, NEW j \in 0 .. MaxVmas
          PROVE  <<g, j>> \in Clients(d)' <=> <<g, j>> \in Clients(d) /\ <<g, j>> # <<f, 0>>
      BY <2>2 DEF Clients
    <3> QED
      BY <1>2, <3>1, <3>2
  <2> QED
    BY <2>1, <2>2
<1>4. \A g \in Files \ {f} : fd'[g] = fd[g] /\ vmas'[g] = vmas[g]
  BY <1>0 DEF TypeOK
<1> QED
  BY <1>0, <1>3, <1>4, OtherClients

LEMMA StepStreamOK == Inv /\ [Next]_vars => StreamOK'
<1> SUFFICES ASSUME Inv, [Next]_vars PROVE StreamOK'
  OBVIOUS
<1>0. TypeOK /\ LifecycleAssumption /\ \A g \in Files : vmas[g] > 0 => fd[g] \in Used
  BY LifecycleAssumption DEF Inv, StreamOK
<1>1. ASSUME UNCHANGED <<vmas, streamRefs, engine, fd, ctx>>,
             \A d \in Devs : "stream" \in held'[d] <=> "stream" \in held[d]
      PROVE  StreamOK'
  BY <1>1, StreamAside DEF Aside
<1>2. ASSUME NEW d \in Devs, Probe(d) \/ RemoveFlag(d) PROVE StreamOK'
  BY <1>0, <1>1, <1>2
  DEF Probe, ProbeAlloc, ProbeMinor, ProbePci, ProbeDma, ProbeCdev, ProbeFails, Acquire, Undo,
      ErrorAlloc2, ErrorIda, ErrorPciInit, ErrorDmaInit, ErrorCdevAdd, RemoveFlag, probeRest,
      fileVars, dmaVars, TypeOK
<1>3. ASSUME NEW d \in Devs, RemoveReset(d) PROVE StreamOK'
  BY <1>3, StopCounts DEF RemoveReset, Aside, fileVars
<1>4. ASSUME NEW d \in Devs, Remove(d), ~RemoveReset(d) PROVE StreamOK'
  <2>1. UNCHANGED <<vmas, streamRefs, engine, fd, ctx>>
    BY <1>4 DEF Remove, RemoveCdev, RemoveIrq, RemoveTasklet, RemoveWork, RemoveFindMapping,
       RemoveMapping, RemoveDma, RemovePci, RemoveTable, RemoveDrop, fileVars, dmaVars
  <2>2. \A e \in Devs : "stream" \in held'[e] <=> "stream" \in held[e]
    BY <1>0, <1>4 DEF Remove, RemoveCdev, RemoveIrq, RemoveTasklet, RemoveWork,
       RemoveFindMapping, RemoveMapping, RemoveDma, RemovePci, RemoveTable, RemoveDrop, DropRef,
       TypeOK
  <2> QED
    BY <1>1, <2>1, <2>2
<1>5. ASSUME NEW d \in Devs, Interrupt(d) \/ BottomHalf(d) PROVE StreamOK'
  BY <1>1, <1>5, IrqFrame DEF fileVars, dmaVars
<1>6. ASSUME NEW f \in Files, LockBuffer(f) \/ EnableIrq(f) \/ MmapReturnsEarly(f)
      PROVE  StreamOK'
  BY <1>1, <1>6 DEF LockBuffer, EnableIrq, MmapReturnsEarly, fileVars, dmaVars
<1>7. ASSUME NEW f \in Files, OpenCheck(f) \/ OpenRef(f) \/ StatusBegin(f) \/ StatusEnd(f)
             \/ Close(f) \/ ReleaseLock(f) \/ ReleaseUnlock(f) \/ ReleaseDrop(f)
             \/ \E m \in Minors : OpenLookup(f, m)
      PROVE  StreamOK'
  <2>1. UNCHANGED <<vmas, streamRefs, engine>>
    BY <1>7 DEF OpenCheck, OpenRef, StatusBegin, StatusEnd, Close, ReleaseLock, ReleaseUnlock,
       ReleaseDrop, OpenLookup, dmaVars
  <2>2. \A e \in Devs : "stream" \in held'[e] <=> "stream" \in held[e]
    BY <1>0, <1>7 DEF OpenCheck, OpenRef, StatusBegin, StatusEnd, Close, ReleaseLock,
       ReleaseUnlock, ReleaseDrop, OpenLookup, DropRef, TypeOK
  <2>3. \A g \in Files : Aside(g)
    <3>1. \A g \in Files \ {f} : fd'[g] = fd[g] /\ ctx'[g] = ctx[g]
      BY <1>0, <1>7 DEF OpenCheck, OpenRef, StatusBegin, StatusEnd, Close, ReleaseLock,
         ReleaseUnlock, ReleaseDrop, OpenLookup, TypeOK
    <3>2. /\ fd[f] \notin {"remap", "remap_free"} /\ fd'[f] \notin {"remap", "remap_free"}
          /\ fd[f] \notin Used \/ (UNCHANGED ctx /\ fd'[f] \in Used) \/ vmas[f] = 0
      BY <1>0, <1>7 DEF OpenCheck, OpenRef, StatusBegin, StatusEnd, Close, ReleaseLock,
         ReleaseUnlock, ReleaseDrop, OpenLookup, TypeOK, Used
    <3>3. vmas[f] = 0 \/ vmas[f] > 0
      BY <1>0 DEF TypeOK, LifecycleAssumption
    <3> QED
      BY <1>0, <3>1, <3>2, <3>3 DEF Aside
  <2> QED
    BY <2>1, <2>2, <2>3, StreamAside
<1>8. ASSUME NEW f \in Files, UnlockBuffer(f) \/ Cancel(f) PROVE StreamOK'
  <2>1. ctx[f] \in Devs
    BY <1>8, DeviceOfFile DEF UnlockBuffer, Cancel, Call
  <2>2. UNCHANGED <<vmas, fd, ctx>> /\ (StopStream(ctx[f]) \/ UNCHANGED <<held, dmaVars>>)
    BY <1>8 DEF UnlockBuffer, Cancel, SafeDmaUnmap, fileVars
  <2> QED
    BY <2>1, <2>2, StopCounts DEF Aside
<1>9. ASSUME NEW f \in Files, ReleaseUnmap(f) PROVE StreamOK'
  <2>1. ctx[f] \in Devs
    BY <1>9, DeviceOfFile DEF ReleaseUnmap
  <2>2. /\ UNCHANGED <<vmas, ctx>> /\ fd[f] = "unmap" /\ fd' = [fd EXCEPT ![f] = "unlock"]
        /\ StopStream(ctx[f]) \/ UNCHANGED <<held, dmaVars>>
    BY <1>9 DEF ReleaseUnmap, SafeDmaUnmap
  <2>3. vmas[f] = 0
    BY <1>0, <2>2 DEF Used, TypeOK, LifecycleAssumption
  <2>4. \A g \in Files : Aside(g)
    BY <1>0, <2>2, <2>3 DEF Aside, TypeOK
  <2> QED
    BY <2>1, <2>2, <2>4, StopCounts
<1>10. ASSUME NEW f \in Files, ExecuteStream(f) PROVE StreamOK'
  <2>1. ctx[f] \in Devs
    BY <1>10, DeviceOfFile DEF ExecuteStream, Call
  <2>2. PICK b \in {f, Driver} : engine' = [engine EXCEPT ![ctx[f]] = b]
    BY <1>10 DEF ExecuteStream
  <2>3. /\ engine[ctx[f]] = NoFile /\ engine'[ctx[f]] # NoFile
        /\ \A e \in Devs \ {ctx[f]} : engine'[e] = engine[e]
    BY <1>0, <1>10, <2>1, <2>2 DEF ExecuteStream, TypeOK, LifecycleAssumption
  <2>4. UNCHANGED <<vmas, fd, ctx>> /\ NoRemapRace(ctx[f]) /\ InitStreamInfo(ctx[f])
    BY <1>10 DEF ExecuteStream, fileVars
  <2> QED
    BY <2>1, <2>3, <2>4, EngineCounts DEF Aside
<1>11. ASSUME NEW f \in Files, Mmap(f) PROVE StreamOK'
  <2>1. ctx[f] \in Devs /\ ("remap" \notin Races => Users(ctx[f], {"remap_free"}) = {})
    BY <1>11, DeviceOfFile DEF Mmap, Call, NoRemapRace
  <2>2. /\ "stream" \in held'[ctx[f]] /\ streamRefs' = [streamRefs EXCEPT ![ctx[f]] = @ + 1]
        /\ \A e \in Devs \ {ctx[f]} : held'[e] = held[e]
    BY <1>0, <1>11, <2>1 DEF Mmap, InitStreamInfo, TypeOK
  <2> QED
    BY <1>11, <2>1, <2>2, ClientGained DEF Mmap, Call, Used
<1>12. ASSUME NEW f \in Files, VmaOpen(f) PROVE StreamOK'
  <2>1. vmas[f] > 0 /\ vmas[f] < MaxVmas
    BY <1>0, <1>12 DEF VmaOpen, LifecycleAssumption
  <2>2. ctx[f] \in Devs
    BY <1>0, <2>1, DeviceOfFile DEF Used
  <2>3. streamRefs[ctx[f]] > 0
    BY <2>1, <2>2, StreamCounts
  <2>4. "remap" \notin Races => "stream" \in held[ctx[f]] /\ Users(ctx[f], {"remap_free"}) = {}
    BY <2>2, <2>3 DEF Inv, StreamOK, CountOK
  <2> QED
    BY <1>0, <1>12, <2>1, <2>2, <2>4, ClientGained DEF VmaOpen
<1>13. ASSUME NEW f \in Files, NEW d \in Devs, ctx[f] = d, VmaClose(f) PROVE StreamOK'
  <2>1. /\ UNCHANGED <<fd, ctx, engine>> /\ vmas[f] > 0 /\ vmas' = [vmas EXCEPT ![f] = @ - 1]
        /\ FreeStreamInfo(d)
    BY <1>13 DEF VmaClose
  <2>2. "remap" \notin Races => Users(d, {"remap_free"}) = {}
    BY <1>13 DEF VmaClose, NoRemapRace
  <2>3. /\ \E u \in Clients(d) : Clients(d)' = Clients(d) \ {u}
        /\ \A e \in Devs \ {d} : Clients(e)' = Clients(e)
    BY <1>13, <2>1, ClientLost
  <2>4. \A e \in Devs : Users(e, {"remap_free"})' = Users(e, {"remap_free"})
    BY <2>1 DEF Users
  <2>5. "remap" \notin Races => "stream" \in held[d]
    BY <1>13, <2>1, StreamCounts DEF Inv, StreamOK, CountOK
  <2>6. /\ streamRefs'[d] = streamRefs[d] - 1
        /\ streamRefs[d] = 1 => "stream" \notin held'[d]
        /\ "remap" \notin Races /\ streamRefs[d] # 1 => "stream" \in held'[d]
    BY <1>0, <2>1, <2>5 DEF FreeStreamInfo, TypeOK
  <2>7. CountOK(d)'
    BY <2>1, <2>2, <2>3, <2>4, <2>6, Dropped
  <2>8. \A e \in Devs \ {d} : streamRefs'[e] = streamRefs[e] /\ held'[e] = held[e]
    BY <1>0, <2>1 DEF FreeStreamInfo, TypeOK
  <2>9. ASSUME NEW e \in Devs \ {d} PROVE CountOK(e)'
    BY <2>1, <2>3, <2>4, <2>8, CountFrame
  <2>10. \A g \in Files : vmas'[g] > 0 => fd'[g] \in Used
    BY <1>0, <2>1 DEF TypeOK
  <2> QED
    BY <2>7, <2>9, <2>10 DEF StreamOK
\* The one that drops the last reference is the one that frees the page.
<1>14. ASSUME NEW f \in Files, NEW d \in Devs, ctx[f] = d, RemapDrop(f) PROVE StreamOK'
  <2>1. /\ UNCHANGED <<vmas, ctx, engine, held>> /\ fd[f] = "remap"
        /\ fd' = [fd EXCEPT ![f] = IF streamRefs[d] = 1 THEN "remap_free" ELSE "open"]
        /\ streamRefs' = [streamRefs EXCEPT ![d] = @ - 1]
    BY <1>14 DEF RemapDrop
  <2>2. /\ \E u \in Clients(d) : Clients(d)' = Clients(d) \ {u}
        /\ \A e \in Devs \ {d} : Clients(e)' = Clients(e)
    <3>1. fd'[f] # "remap" /\ \A g \in Files \ {f} : fd'[g] = fd[g]
      BY <1>0, <2>1 DEF TypeOK
    <3> QED
      BY <1>14, <2>1, <3>1, ClientLost
  <2>3. CountOK(d) /\ streamRefs[d] > 0 /\ streamRefs[d] \in Nat
    BY <1>0, <1>14, <2>1, StreamCounts DEF Inv, StreamOK, TypeOK
  <2>4. "remap" \notin Races => "stream" \in held'[d] /\ Users(d, {"remap_free"}) = {}
    BY <2>1, <2>3 DEF CountOK
  <2>5. \A e \in Devs \ {d} : Users(e, {"remap_free"})' = Users(e, {"remap_free"})
    BY <1>0, <1>14, <2>1 DEF Users, TypeOK
  <2>6. Users(d, {"remap_free"})' = Users(d, {"remap_free"}) \cup (IF streamRefs[d] = 1 THEN {f} ELSE {})
    BY <1>0, <1>14, <2>1 DEF Users, TypeOK
  <2>7. CountOK(d)'
    <3>1. /\ IsFiniteSet(Clients(d)') /\ Cardinality(Clients(d)) \in Nat
          /\ Cardinality(Clients(d)') = Cardinality(Clients(d)) - 1
      BY <2>2, <2>3, FS_RemoveElement, FS_CardinalityType DEF CountOK
    <3>2. streamRefs'[d] = streamRefs[d] - 1
      BY <1>0, <2>1 DEF TypeOK
    <3>3. streamRefs'[d] = StreamRef(d)' + Cardinality(Clients(d)')
      <4>1. StreamRef(d)' = StreamRef(d) /\ StreamRef(d) \in {0, 1}
        BY <2>1 DEF StreamRef
      <4> QED
        BY <2>3, <3>1, <3>2, <4>1 DEF CountOK
    <3>4. CASE streamRefs[d] = 1
      <4>1. streamRefs'[d] = 0 /\ f \in Users(d, {"remap_free"})'
        BY <2>6, <3>2, <3>4
      <4>2. "remap" \notin Races => Users(d, {"remap_free"})' = {f}
        BY <2>4, <2>6, <3>4
      <4> QED
        BY <3>1, <3>3, <4>1, <4>2 DEF CountOK
    <3>5. CASE streamRefs[d] # 1
      <4>1. /\ streamRefs'[d] > 0
            /\ "remap" \notin Races => Users(d, {"remap_free"})' = {}
        BY <2>3, <2>4, <2>6, <3>2, <3>5
      <4> QED
        BY <2>4, <3>1, <3>3, <4>1 DEF CountOK
    <3> QED
      BY <3>4, <3>5
  <2>8. ASSUME NEW e \in Devs \ {d} PROVE CountOK(e)'
    BY <1>0, <2>1, <2>2, <2>5, CountFrame DEF TypeOK
  <2>9. \A g \in Files : vmas'[g] > 0 => fd'[g] \in Used
    BY <1>0, <2>1 DEF TypeOK, Used
  <2> QED
    BY <2>7, <2>8, <2>9 DEF StreamOK
<1>15. ASSUME NEW f \in Files, NEW d \in Devs, ctx[f] = d, RemapFree(f) PROVE StreamOK'
  <2>1. /\ UNCHANGED <<vmas, ctx, engine, streamRefs>> /\ fd[f] = "remap_free"
        /\ fd' = [fd EXCEPT ![f] = "open"]
        /\ held' = [held EXCEPT ![d] = @ \ {"stream"}]
    BY <1>15 DEF RemapFree, dmaVars
  <2>2. CountOK(d) /\ f \in Users(d, {"remap_free"})
    BY <1>15, <2>1 DEF Inv, StreamOK, Users
  <2>3. "remap" \notin Races => Users(d, {"remap_free"}) = {f} /\ streamRefs[d] = 0
    BY <1>0, <2>2 DEF CountOK, TypeOK
  <2>4. "remap" \notin Races => Users(d, {"remap_free"})' = {}
    BY <1>0, <2>1, <2>3 DEF Users, TypeOK
  <2>5. \A e \in Devs \ {d} : Users(e, {"remap_free"})' = Users(e, {"remap_free"})
    BY <1>0, <1>15, <2>1 DEF Users, TypeOK
  <2>6. \A e \in Devs : Clients(e)' = Clients(e)
    <3> SUFFICES ASSUME NEW e \in Devs PROVE Clients(e)' = Clients(e)
      OBVIOUS
    <3>1. ASSUME NEW g \in Files, NEW k \in 0 .. MaxVmas
          PROVE  <<g, k>> \in Clients(e)' <=> <<g, k>> \in Clients(e)
      BY <1>0, <2>1 DEF Clients, TypeOK
    <3>2. /\ Clients(e)' \subseteq Files \X (0 .. MaxVmas)
          /\ Clients(e) \subseteq Files \X (0 .. MaxVmas)
      BY DEF Clients
    <3> QED
      BY <3>1, <3>2
  <2>7. CountOK(d)'
    <3>1. /\ "stream" \notin held'[d]
          /\ "remap" \notin Races => streamRefs'[d] = 0
      BY <1>0, <2>1, <2>3 DEF TypeOK
    <3>2. IsFiniteSet(Clients(d)') /\ streamRefs'[d] = StreamRef(d)' + Cardinality(Clients(d)')
      BY <2>1, <2>2, <2>6 DEF CountOK, StreamRef
    <3> QED
      BY <2>4, <3>1, <3>2 DEF CountOK
  <2>8. ASSUME NEW e \in Devs \ {d} PROVE CountOK(e)'
    BY <1>0, <2>1, <2>5, <2>6, CountFrame DEF TypeOK
  <2>9. \A g \in Files : vmas'[g] > 0 => fd'[g] \in Used
    BY <1>0, <2>1 DEF TypeOK, Used
  <2> QED
    BY <2>7, <2>8, <2>9 DEF StreamOK
<1>16. CASE UNCHANGED vars
  BY <1>1, <1>16 DEF vars, fileVars, dmaVars
<1>17. ASSUME NEW f \in Files, VmaClose(f) \/ RemapDrop(f) \/ RemapFree(f)
       PROVE  StreamOK'
  <2>1. fd[f] # "closed"
    BY <1>0, <1>17 DEF VmaClose, RemapDrop, RemapFree, Used
  <2> QED
    BY <1>13, <1>14, <1>15, <1>17, <2>1, DeviceOfFile
<1> QED
  BY <1>2, <1>3, <1>4, <1>5, <1>6, <1>7, <1>8, <1>9, <1>10, <1>11, <1>12, <1>16, <1>17
  DEF Next, UserCall, Continue
-----------------------------------------------------------------------------
\* The inductive invariant.
THEOREM Invariance == Spec => []Inv
<1>1. Inv /\ [Next]_vars => Inv'
  BY StepTypeOK, StepFilesOK, StepFlagOK, StepTableOK, StepHeldOK, StepRefsOK, StepOpenOK,
     StepStatusOK, StepQuietOK, StepMappedOK, StepMapOK, StepStreamOK
  DEF Inv
<1> QED
  BY InitInv, <1>1, PTL DEF Spec

\* Every variable keeps its type whatever overlaps: no count falls below zero.
THEOREM LifetimeTypesCorrect == Spec => []TypeOK
<1>1. Inv => TypeOK
  BY DEF Inv
<1> QED
  BY <1>1, Invariance, PTL

\* Whoever can still reach a tpce_dev, an open file, a call in progress, the
\* tasklet, a work item, the removal or the table of minors, finds its memory: in
\* every execution without the overlaps open, status and tasklet.
THEOREM MemoryIsThere ==
  ASSUME {"open", "status", "tasklet"} \cap Races = {} PROVE Spec => []MemoryOutlivesUsers
<1>1. Inv => MemoryOutlivesUsers
  <2> SUFFICES ASSUME Inv PROVE MemoryOutlivesUsers
    OBVIOUS
  <2>1. ASSUME NEW f \in Files, fd[f] # "closed" PROVE "struct" \in held[ctx[f]]
    <3>1. CASE fd[f] \in Used \cup CloseStages
      <4>1. ctx[f] \in Devs /\ f \in Holders(ctx[f])
        BY <3>1, HolderCounts
      <4> QED
        BY <3>1, <4>1, HolderCounts DEF Inv, OpenOK
    <3>2. CASE fd[f] \in {"check", "ref"}
      <4>1. ctx[f] \in Devs /\ life[ctx[f]] \in {"cdev"} \cup RemoveStages
        BY <3>2, DeviceOfFile DEF Inv, OpenOK
      <4> QED
        BY <4>1 DEF Inv, HeldOK, RemoveStages
    <3> QED
      BY <2>1, <3>1, <3>2 DEF Inv, TypeOK, OpenStages, Used
  <2>2. ASSUME NEW f \in Files, fd[f] = "status" PROVE "io_buffer" \in held[ctx[f]]
    <3>1. ctx[f] \in Devs /\ life[ctx[f]] \in {"cdev"} \cup (RemoveStages \ {"unlisted"})
      BY <2>2, DeviceOfFile DEF Inv, StatusOK
    <3> QED
      BY <3>1 DEF Inv, HeldOK, RemoveStages
  <2>3. ASSUME NEW d \in Devs, \/ scheduled[d] \/ tasklet[d] # "off" \/ queued[d]
                               \/ life[d] \in RemoveStages
        PROVE  "struct" \in held[d]
    <3>1. life[d] \in WithIrq \cup {"irq_off", "killed"} \cup RemoveStages
      BY <2>3 DEF Inv, TypeOK, QuietOK
    <3> QED
      BY <3>1 DEF Inv, HeldOK, WithIrq, RemoveStages
  <2>4. ASSUME NEW m \in Minors, devs[m] # NoDev PROVE "struct" \in held[devs[m]]
    BY <2>4, DeviceOfMinor DEF Inv, HeldOK, RemoveStages
  <2> QED
    BY <2>1, <2>2, <2>3, <2>4 DEF MemoryOutlivesUsers
<1> QED
  BY <1>1, Invariance, PTL

\* Once the removal has killed the tasklet it stays killed, and nothing is left
\* that would touch the board when its BARs are unmapped: in every execution
\* without the overlap tasklet.
THEOREM UnpluggedIsQuiet == ASSUME "tasklet" \notin Races PROVE Spec => []QuietWhenUnplugged
<1>1. Inv => QuietWhenUnplugged
  <2> SUFFICES ASSUME Inv, NEW d \in Devs
               PROVE  /\ life[d] \in RemoveStages \ {"flagged", "delisted", "irq_off"} =>
                           ~scheduled[d] /\ tasklet[d] = "off"
                      /\ "pci" \notin held[d] =>
                           /\ engine[d] = NoFile /\ ~irqOn[d]
                           /\ ~scheduled[d] /\ tasklet[d] = "off" /\ ~queued[d]
    BY DEF QuietWhenUnplugged
  <2>1. "pci" \in held[d] <=>
          life[d] \in {"pci", "dma", "cdev"} \cup (RemoveStages \ {"unplugged", "unlisted"})
    BY DEF Inv, HeldOK
  <2> QED
    BY <2>1 DEF Inv, TypeOK, QuietOK, WithIrq, RemoveStages
<1> QED
  BY <1>1, Invariance, PTL

\* tpce_release (main.c:142) and tpce_dma_free (dma.c:84) lose a mapping they have
\* in hand to each other only, and leave none of a file that is gone: in every
\* execution.
THEOREM OnlyCloseMeets == Spec => []OnlyCloseMeetsRemoval
<1>1. Inv => OnlyCloseMeetsRemoval
  BY DEF Inv, MappedOK, MapOK, OnlyCloseMeetsRemoval, Used, OpenStages
<1> QED
  BY <1>1, Invariance, PTL

\* The stream state is there exactly as long as the engine, an area or an mmap in
\* progress counts on it: in every execution without the overlap remap.
THEOREM StreamStateStays == ASSUME "remap" \notin Races PROVE Spec => []StreamStateCounted
<1>1. Inv => StreamStateCounted
  <2> SUFFICES ASSUME Inv PROVE StreamStateCounted
    OBVIOUS
  <2>1. ASSUME NEW d \in Devs
        PROVE  /\ streamRefs[d] > 0 => "stream" \in held[d]
               /\ engine[d] # NoFile => streamRefs[d] > 0
    BY StreamCounts DEF Inv, StreamOK, CountOK
  <2>2. ASSUME NEW f \in Files, vmas[f] > 0 \/ fd[f] = "remap" PROVE streamRefs[ctx[f]] > 0
    <3>1. ctx[f] \in Devs
      BY <2>2, DeviceOfFile DEF Inv, StreamOK, Used
    <3> QED
      BY <2>2, <3>1, StreamCounts
  <2> QED
    BY <2>1, <2>2 DEF StreamStateCounted
<1> QED
  BY <1>1, Invariance, PTL

\* A device whose probe has failed, or that was removed and whose files are all
\* closed, leaves nothing behind, whatever overlaps.
THEOREM NothingIsLeft == Spec => []NothingLeaks
<1>1. Inv => NothingLeaks
  <2> SUFFICES ASSUME Inv, NEW d \in Devs, life[d] = "gone", \A f \in Files : ctx[f] # d
               PROVE  held[d] = {} /\ streamRefs[d] = 0
    BY DEF NothingLeaks
  <2>1. Holders(d) = {} /\ Clients(d) = {} /\ Users(d, {"remap_free"}) = {}
    BY DEF Holders, Clients, Users
  <2>2. engine[d] = NoFile
    BY DEF Inv, QuietOK, WithIrq
  <2>3. streamRefs[d] = 0
    BY <2>1, <2>2, FS_EmptySet DEF Inv, StreamOK, CountOK, StreamRef
  <2>4. "stream" \notin held[d]
    BY <2>1, <2>3 DEF Inv, StreamOK, CountOK
  <2>5. "struct" \notin held[d]
    BY <2>1 DEF Inv, RefsOK, RefOK
  <2>6. held[d] \cap (Resources \ {"stream", "struct"}) = {}
    BY DEF Inv, HeldOK, Resources, RemoveStages
  <2> QED
    BY <2>3, <2>4, <2>5, <2>6 DEF Inv, TypeOK, Resources
<1> QED
  BY <1>1, Invariance, PTL
=============================================================================
