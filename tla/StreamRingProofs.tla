--------------------------- MODULE StreamRingProofs ---------------------------
(***************************************************************************)
(* Proofs about StreamRing, for any rings and any number of descriptors.   *)
(* A handler may be overtaken by a cancel at any point; the parts of the   *)
(* invariant that speak of its work are about streams where it is not.     *)
(***************************************************************************)
EXTENDS StreamRing, TLAPS

\* The handler has looked at the engine, or is about to.
Looking == isr \in {"ack", "state", "read"}

\* How far a call has got.
CallOK ==
  /\ refs = vmas + (IF descs > 0 THEN 1 ELSE 0)
  /\ descs = 0 => call = "none" /\ ~fast /\ ~engine
  /\ call \in {"enable", "free"} => ~fast /\ ~engine
  /\ call = "run" => fast /\ ~engine
  /\ call = "reset" => ~fast /\ engine
  /\ call = "none" /\ descs > 0 => fast /\ engine
  /\ call \in {"enable", "run"} => done = 0 /\ seen = 0
  /\ ~engine => ~busy

\* Only a handler that a cancel overtakes runs without a stream; any other finds the
\* page and the ring.
IsrOK == ~overtaken =>
  /\ descs = 0 \/ call \in {"enable", "free"} => isr = "off"
  /\ isr # "fault" /\ ~dangling

\* A freed page matters only to a handler that has loaded its address.
PageOK == dangling => isr \in {"read", "compute", "sync", "fault"}

\* The mask is used for a ring that it fits.
MaskOK == descs > 0 => numDescMask \in {0, descs - 1}

\* While the device or the handler is at work, the register says where the device
\* is; a one-shot leaves something else, but no interrupt.
RegisterOK == (engine /\ (busy \/ done > 0)) \/ irq \/ (Looking /\ ~overtaken)
                => reg = (IF engine THEN Position % descs ELSE 0)

\* The handler never knows of more than there is.
SeenOK == ~overtaken => /\ produced <= seen /\ seen <= done
                        /\ descs > 0 /\ call # "free" => seen <= Position

\* The positions in the ring belong to the counts of the whole stream.
RingOK == descs > 0 /\ ~overtaken =>
  /\ writeSeq = produced % descs
  /\ isr \notin {"compute", "sync"} => lapped \/ produced = seen
  /\ isr = "compute" => /\ seqNums = seen % descs
                        /\ lapped \/ seen - produced < descs
  /\ isr = "sync" => /\ processed < descs /\ n <= processed
                     /\ numDescs = descs /\ newProduced = produced + processed
                     /\ newSeq = newProduced % descs
                     /\ i = (produced + n) % descs
                     /\ produced + processed <= seen
                     /\ lapped \/ produced + processed = seen

Synced == produced + (IF isr = "sync" THEN n ELSE 0)

\* What the handler has walked over is synced, unless it is in use again.
SyncOK == descs > 0 /\ ~overtaken =>
  \A k \in 0 .. done : k < Synced /\ k + descs > done => k % descs \notin stale

Inv == /\ TypeOK /\ CallOK /\ IsrOK /\ PageOK /\ MaskOK /\ RegisterOK
       /\ SeenOK /\ RingOK /\ SyncOK
-----------------------------------------------------------------------------
(* Arithmetic of the ring                                                  *)

LEMMA Quotient ==
  ASSUME NEW a \in Nat, NEW d \in Nat \ {0}
  PROVE  \E q \in Nat : \E r \in 0 .. d - 1 : a = q * d + r /\ a % d = r
<1>1. a \div d \in Nat /\ a % d \in 0 .. d - 1
  OBVIOUS
<1>2. PICK q \in Nat, r \in 0 .. d - 1 : q = a \div d /\ r = a % d
  BY <1>1
<1>3. a = q * d + r
  BY <1>2, SMTT(60)
<1> QED
  BY <1>2, <1>3

LEMMA Remainder ==
  ASSUME NEW q \in Nat, NEW d \in Nat \ {0}, NEW r \in 0 .. d - 1
  PROVE  (q * d + r) % d = r
OBVIOUS

LEMMA RemainderInRing ==
  ASSUME NEW a \in Nat, NEW d \in Nat \ {0}
  PROVE  /\ a % d \in 0 .. d - 1
         /\ a < d => a % d = a
         /\ (a % d) % d = a % d
OBVIOUS

\* The walk of the handler (main.c:505) goes round the ring.
LEMMA NextIsSuccessor ==
  ASSUME NEW a \in Nat, NEW d \in Nat \ {0}
  PROVE  NextPosition(a % d, d) = (a + 1) % d
<1>1. PICK q \in Nat, r \in 0 .. d - 1 : a = q * d + r /\ a % d = r
  BY Quotient
<1>2. CASE r + 1 = d
  <2>1. a + 1 = (q + 1) * d + 0
    BY <1>1, <1>2
  <2>2. q + 1 \in Nat /\ 0 \in 0 .. d - 1
    OBVIOUS
  <2>3. ((q + 1) * d + 0) % d = 0
    BY <2>2, Remainder
  <2> QED
    BY <1>1, <1>2, <2>1, <2>3 DEF NextPosition
<1>3. CASE r + 1 < d
  <2>1. a + 1 = q * d + (r + 1)
    BY <1>1
  <2>2. r + 1 \in 0 .. d - 1
    BY <1>3
  <2>3. (q * d + (r + 1)) % d = r + 1
    BY <2>2, Remainder
  <2> QED
    BY <1>1, <1>3, <2>1, <2>3 DEF NextPosition
<1> QED
  BY <1>2, <1>3

\* What the handler makes of two positions (main.c:485): the descriptors between
\* them, short of whole laps.
LEMMA DistanceIsAdvance ==
  ASSUME NEW a \in Nat, NEW b \in Nat, NEW d \in Nat \ {0}, a <= b
  PROVE  /\ Distance(a % d, b % d, d) \in 0 .. d - 1
         /\ a + Distance(a % d, b % d, d) <= b
         /\ b - a < d => a + Distance(a % d, b % d, d) = b
         /\ (a + Distance(a % d, b % d, d)) % d = b % d
<1>1. PICK q \in Nat, r \in 0 .. d - 1 : a = q * d + r /\ a % d = r
  BY Quotient
<1>2. PICK p \in Nat, t \in 0 .. d - 1 : b = p * d + t /\ b % d = t
  BY Quotient
<1>3. PICK c \in {0, 1} : /\ c = 1 <=> t < r
                        /\ Distance(r, t, d) = t - r + c * d
                        /\ Distance(r, t, d) \in 0 .. d - 1
  BY DEF Distance
<1> DEFINE k == q + c
<1>4. k \in Nat /\ k * d = q * d + c * d
  BY <1>3
<1>5. a + Distance(r, t, d) = k * d + t
  BY <1>1, <1>3, <1>4
<1>6. k <= p
  <2>1. SUFFICES ASSUME p + 1 <= k PROVE FALSE
    BY <1>4
  <2>2. (p + 1) * d <= k * d /\ (p + 1) * d = p * d + d
    BY <1>4, <2>1
  <2>3. CASE c = 0
    <3>1. k * d + r = a /\ r <= t
      BY <1>1, <1>3, <1>4, <2>3
    <3> QED
      BY <1>2, <2>2, <3>1
  <2>4. CASE c = 1
    <3>1. k * d = q * d + d /\ t < r
      BY <1>3, <1>4, <2>4
    <3> QED
      BY <1>1, <1>2, <2>2, <3>1
  <2> QED
    BY <2>3, <2>4
<1>7. k * d <= p * d
  BY <1>4, <1>6
<1>8. b - a < d => k = p
  <2>1. SUFFICES ASSUME b - a < d, k + 1 <= p PROVE FALSE
    BY <1>4, <1>6
  <2>2. (k + 1) * d <= p * d /\ (k + 1) * d = k * d + d
    BY <1>4, <2>1
  <2> QED
    BY <1>1, <1>2, <1>3, <1>5, <2>1, <2>2
<1>9. (k * d + t) % d = t
  BY <1>4, Remainder
<1> HIDE DEF k
<1> QED
  BY <1>1, <1>2, <1>3, <1>4, <1>5, <1>7, <1>8, <1>9

\* Positions less than a lap apart are different.
LEMMA DifferentPositions ==
  ASSUME NEW a \in Nat, NEW b \in Nat, NEW d \in Nat \ {0}, a < b, b < a + d
  PROVE  a % d # b % d
<1> SUFFICES ASSUME a % d = b % d PROVE FALSE
  OBVIOUS
<1>1. PICK q \in Nat, r \in 0 .. d - 1 : a = q * d + r /\ a % d = r
  BY Quotient
<1>2. PICK p \in Nat, t \in 0 .. d - 1 : b = p * d + t /\ b % d = t
  BY Quotient
<1>3. q * d < p * d /\ p * d < q * d + d
  BY <1>1, <1>2
<1>4. CASE p <= q
  <2>1. p * d <= q * d
    BY <1>4
  <2> QED
    BY <1>3, <2>1
<1>5. CASE q + 1 <= p
  <2>1. (q + 1) * d <= p * d /\ (q + 1) * d = q * d + d
    BY <1>5
  <2> QED
    BY <1>3, <2>1
<1> QED
  BY <1>4, <1>5
-----------------------------------------------------------------------------
(* The invariant holds initially and is kept.                              *)

LEMMA SizesOK == /\ \A s \in Sizes : s \in Nat \ {0} /\ s <= SeqMod
                 /\ SeqMod \in Nat \ {0} /\ MaxVmas \in Nat
BY StreamRingAssumption DEF StreamRingAssumption, Sizes

FlagsOK ==
  /\ engine \in BOOLEAN /\ busy \in BOOLEAN /\ irq \in BOOLEAN /\ fast \in BOOLEAN
  /\ call \in {"none", "enable", "run", "reset", "free"}
  /\ isr \in {"off", "ack", "state", "read", "compute", "sync", "fault"}
  /\ lapped \in BOOLEAN /\ overtaken \in BOOLEAN /\ dangling \in BOOLEAN

NumbersOK ==
  /\ done \in Nat /\ reg \in 0 .. SeqMod - 1 /\ stale \subseteq 0 .. SeqMod - 1
  /\ descs \in Sizes \cup {0} /\ every \in {r.every : r \in Rings} \cup {0}
  /\ refs \in Nat /\ vmas \in 0 .. MaxVmas
  /\ produced \in Nat /\ writeSeq \in 0 .. SeqMod - 1
  /\ numDescMask \in 0 .. SeqMod - 1
  /\ seqNums \in 0 .. SeqMod - 1 /\ newSeq \in 0 .. SeqMod - 1
  /\ numDescs \in Sizes \cup {0} /\ processed \in Nat /\ newProduced \in Nat
  /\ i \in Nat /\ n \in Nat /\ seen \in Nat

\* Two kinds of types, for two kinds of provers.
LEMMA TypeParts == TypeOK <=> FlagsOK /\ NumbersOK
BY DEF TypeOK, FlagsOK, NumbersOK

LEMMA InitInv == Init => Inv
<1> SUFFICES ASSUME Init PROVE Inv
  OBVIOUS
<1> USE SizesOK DEF Init
<1>1. TypeOK
  <2>1. FlagsOK
    BY DEF FlagsOK
  <2>2. NumbersOK
    BY DEF NumbersOK
  <2> QED
    BY <2>1, <2>2, TypeParts
<1>2. CallOK /\ IsrOK /\ PageOK /\ MaskOK /\ RegisterOK
  BY DEF CallOK, IsrOK, PageOK, MaskOK, RegisterOK, Looking
<1>3. SeenOK /\ RingOK /\ SyncOK
  BY DEF SeenOK, RingOK, SyncOK
<1> QED
  BY <1>1, <1>2, <1>3 DEF Inv

\* The numbers the steps compute with.
LEMMA Numbers ==
  ASSUME Inv
  PROVE  /\ descs \in Nat /\ descs <= SeqMod /\ SeqMod \in Nat \ {0}
         /\ done \in Nat /\ seen \in Nat /\ produced \in Nat /\ vmas \in Nat
         /\ Position \in Nat /\ Position <= done
         /\ \A a \in Nat : descs > 0 => a % descs \in 0 .. descs - 1
<1>1. /\ descs \in Nat /\ descs <= SeqMod /\ SeqMod \in Nat \ {0}
      /\ done \in Nat /\ seen \in Nat /\ produced \in Nat /\ vmas \in Nat
  BY SizesOK DEF Inv, TypeOK
<1>2. \A a \in Nat : descs > 0 => a % descs \in 0 .. descs - 1
  BY <1>1, RemainderInRing
<1>3. Position \in Nat /\ Position <= done
  BY <1>1 DEF Position
<1> QED
  BY <1>1, <1>2, <1>3

\* A handler that is not overtaken has a stream, with its page.
LEMMA HandlerHasStream ==
  ASSUME Inv, isr # "off", ~overtaken
  PROVE  /\ descs > 0 /\ refs > 0 /\ ~dangling
         /\ call \notin {"enable", "free"}
<1>1. descs # 0 /\ descs \in Nat /\ vmas \in Nat
  BY Numbers DEF Inv, IsrOK
<1>2. descs > 0
  BY <1>1
<1> QED
  BY <1>1, <1>2 DEF Inv, CallOK, IsrOK

\* What the handler makes of the sequence number it has read.
LEMMA Computed ==
  ASSUME Inv, isr = "compute", IsrCompute, ~overtaken
  PROVE  /\ isr' = "sync" /\ numDescs' = descs
         /\ newProduced' = produced + processed'
         /\ newSeq' = seen % descs
         /\ newSeq' = (produced + processed') % descs
         /\ processed' \in 0 .. descs - 1
         /\ produced + processed' <= seen
         /\ lapped \/ produced + processed' = seen
         /\ i' = produced % descs /\ n' = 0
         /\ UNCHANGED seqNums
<1> USE DEF Inv
<1>1. /\ descs \in Nat \ {0} /\ ~dangling /\ seen \in Nat /\ produced \in Nat
      /\ produced <= seen
  BY HandlerHasStream, Numbers DEF SeenOK
<1>2. /\ seqNums = seen % descs /\ writeSeq = produced % descs
      /\ lapped \/ seen - produced < descs
  BY <1>1 DEF RingOK
<1>3. RingPosition(seqNums, numDescMask, descs) = seen % descs
  <2>1. seqNums % descs = seqNums /\ seqNums \in 0 .. descs - 1
    BY <1>1, <1>2, RemainderInRing
  <2>2. numDescMask = 0 \/ (numDescMask > 0 /\ numDescMask + 1 = descs)
    BY <1>1 DEF MaskOK
  <2> QED
    BY <1>2, <2>1, <2>2 DEF RingPosition
<1> DEFINE new     == seen % descs
           advance == Distance(writeSeq, new, descs)
<1>4. writeSeq \in 0 .. descs - 1 /\ new \in 0 .. descs - 1
  BY <1>1, <1>2, RemainderInRing
<1>5. /\ advance \in 0 .. descs - 1
      /\ produced + advance <= seen
      /\ seen - produced < descs => produced + advance = seen
      /\ (produced + advance) % descs = new
  BY <1>1, <1>2, DistanceIsAdvance
<1>6. ~(new + descs < writeSeq \/ advance > descs)
  BY <1>1, <1>4, <1>5
<1>7. /\ isr' = "sync" /\ numDescs' = descs /\ newSeq' = new
      /\ processed' = advance /\ newProduced' = produced + advance
      /\ i' = writeSeq /\ n' = 0 /\ UNCHANGED seqNums
  BY <1>1, <1>3, <1>6 DEF IsrCompute
<1> QED
  BY <1>2, <1>5, <1>7

\* Overtaken or not, what the handler computes stays in its range.
LEMMA ComputeTypes ==
  ASSUME Inv, IsrCompute
  PROVE  /\ seqNums' \in 0 .. SeqMod - 1 /\ newSeq' \in 0 .. SeqMod - 1
         /\ numDescs' \in Sizes \cup {0} /\ processed' \in Nat /\ newProduced' \in Nat
         /\ i' \in Nat /\ n' \in Nat
<1> DEFINE new     == RingPosition(seqNums, numDescMask, descs)
           advance == Distance(writeSeq, new, descs)
<1>1. /\ seqNums \in 0 .. SeqMod - 1 /\ numDescMask \in 0 .. SeqMod - 1
      /\ writeSeq \in 0 .. SeqMod - 1 /\ produced \in Nat /\ SeqMod \in Nat \ {0}
      /\ descs \in Nat /\ descs <= SeqMod /\ descs \in Sizes \cup {0}
  BY Numbers DEF Inv, TypeOK
<1>2. CASE Leave("fault") \/ Leave("off")
  BY <1>1, <1>2 DEF Leave
<1>3. CASE /\ numDescMask > 0 \/ descs > 0
           /\ new + descs >= writeSeq
           /\ numDescs' = descs /\ newSeq' = new
           /\ processed' = advance /\ newProduced' = produced + advance
           /\ i' = writeSeq /\ n' = 0 /\ UNCHANGED seqNums
  <2>1. new \in 0 .. SeqMod - 1
    <3>1. CASE numDescMask # 0
      <4>1. seqNums % (numDescMask + 1) \in 0 .. numDescMask
        BY <1>1, <3>1, RemainderInRing
      <4> QED
        BY <1>1, <3>1, <4>1 DEF RingPosition
    <3>2. CASE numDescMask = 0
      <4>1. seqNums % descs \in 0 .. descs - 1
        BY <1>1, <1>3, <3>2, RemainderInRing
      <4> QED
        BY <1>1, <3>2, <4>1 DEF RingPosition
    <3> QED
      BY <3>1, <3>2
  <2> HIDE DEF new
  <2>2. advance \in Nat
    BY <1>1, <1>3, <2>1 DEF Distance
  <2> QED
    BY <1>1, <1>3, <2>1, <2>2
<1> QED
  BY <1>2, <1>3 DEF IsrCompute

LEMMA StepFlagsOK == Inv /\ [Next]_vars => FlagsOK'
<1> SUFFICES ASSUME Inv, [Next]_vars PROVE FlagsOK'
  OBVIOUS
<1>0. FlagsOK
  BY TypeParts DEF Inv
<1> USE <1>0 DEF FlagsOK, device, stream, counts, locals, history
<1>1. CASE DeviceBegin
  BY <1>1 DEF DeviceBegin
<1>2. CASE DeviceComplete
  BY <1>2 DEF DeviceComplete
<1>3. CASE Start
  BY <1>3 DEF Start
<1>4. CASE Abort
  BY <1>4 DEF Abort
<1>5. CASE EnableStreamIrq
  BY <1>5 DEF EnableStreamIrq
<1>6. CASE StartController
  BY <1>6 DEF StartController
<1>7. CASE ResetController
  BY <1>7 DEF ResetController
<1>8. CASE ResetDmaInfo
  BY <1>8 DEF ResetDmaInfo, FreeStreamInfo
<1>9. CASE OneShot
  BY <1>9 DEF OneShot
<1>10. CASE Mmap
  BY <1>10 DEF Mmap
<1>11. CASE VmaClose
  BY <1>11 DEF VmaClose, FreeStreamInfo
<1>12. CASE IsrEnter \/ IsrState
  BY <1>12 DEF IsrEnter, IsrState, IsrGoto
<1>13. CASE SlowPath \/ IsrAcknowledge
  BY <1>13 DEF SlowPath, IsrAcknowledge
<1>14. CASE IsrReadSequence
  BY <1>14 DEF IsrReadSequence
<1>15. CASE IsrCompute
  <2>1. isr' \in {"off", "fault", "sync"}
    BY <1>15 DEF IsrCompute, Leave
  <2> QED
    BY <1>15, <2>1 DEF IsrCompute
<1>16. CASE IsrSync
  <2>1. isr' \in {"fault", "sync"}
    BY <1>16 DEF IsrSync, Leave
  <2> QED
    BY <1>16, <2>1 DEF IsrSync
<1>17. CASE IsrPublish
  <2>1. isr' \in {"fault", "off"}
    BY <1>17 DEF IsrPublish, Publish, Leave
  <2> QED
    BY <1>17, <2>1 DEF IsrPublish, Publish
<1>18. CASE UNCHANGED vars
  BY <1>18 DEF vars
<1> QED
  BY <1>1, <1>2, <1>3, <1>4, <1>5, <1>6, <1>7, <1>8, <1>9, <1>10, <1>11, <1>12, <1>13,
     <1>14, <1>15, <1>16, <1>17, <1>18 DEF Next, Continue, Handler

LEMMA StepNumbersOK == Inv /\ [Next]_vars => NumbersOK'
<1> SUFFICES ASSUME Inv, [Next]_vars PROVE NumbersOK'
  OBVIOUS
<1>0. NumbersOK /\ CallOK
  BY TypeParts DEF Inv
<1> USE <1>0, SizesOK DEF NumbersOK, device, stream, counts, locals, history
<1>1. CASE DeviceBegin
  <2>1. descs > 0 /\ done % descs \in 0 .. SeqMod - 1
    BY <1>1, Numbers DEF DeviceBegin, CallOK
  <2> QED
    BY <1>1, <2>1 DEF DeviceBegin
<1>2. CASE DeviceComplete
  <2>1. descs > 0 /\ done % descs \in 0 .. SeqMod - 1
    BY <1>2, Numbers DEF DeviceComplete, CallOK
  <2>2. PICK p \in 0 .. SeqMod - 1 : p = done % descs
    BY <2>1
  <2>3. stale' = stale \cup {p} /\ done' = done + 1
    BY <1>2, <2>2 DEF DeviceComplete
  <2>4. stale' \subseteq 0 .. SeqMod - 1 /\ done' \in Nat
    BY <2>3
  <2> QED
    BY <1>2, <2>4 DEF DeviceComplete
<1>3. CASE Start
  <2>1. PICK r \in Rings : descs' = r.size /\ every' = r.every /\ InitStreamInfo(r.size)
    BY <1>3 DEF Start
  <2>2. r.size \in Sizes /\ r.size \in Nat \ {0} /\ r.size <= SeqMod
    BY DEF Sizes
  <2>3. produced' = 0 /\ writeSeq' = 0 /\ numDescMask' \in 0 .. SeqMod - 1
    BY <2>1, <2>2 DEF InitStreamInfo
  <2> QED
    BY <1>3, <2>1, <2>2, <2>3 DEF Start
<1>4. CASE Abort \/ EnableStreamIrq \/ StartController
  BY <1>4 DEF Abort, EnableStreamIrq, StartController
<1>5. CASE ResetController
  BY <1>5 DEF ResetController
<1>6. CASE ResetDmaInfo
  <2>1. refs - 1 \in Nat
    BY <1>6, Numbers DEF ResetDmaInfo, CallOK
  <2> QED
    BY <1>6, <2>1 DEF ResetDmaInfo, FreeStreamInfo
<1>7. CASE OneShot
  BY <1>7 DEF OneShot
<1>8. CASE Mmap
  <2>1. refs = 0 => descs = 0
    BY Numbers DEF CallOK
  <2>2. /\ produced' \in Nat /\ writeSeq' \in 0 .. SeqMod - 1
        /\ numDescMask' \in 0 .. SeqMod - 1
    BY <1>8, <2>1 DEF Mmap, InitStreamInfo, IsPowerOfTwo
  <2> QED
    BY <1>8, <2>2 DEF Mmap
<1>9. CASE VmaClose
  <2>1. refs - 1 \in Nat
    BY <1>9, Numbers DEF VmaClose, CallOK
  <2> QED
    BY <1>9, <2>1 DEF VmaClose, FreeStreamInfo
<1>10. CASE IsrEnter \/ SlowPath \/ IsrAcknowledge \/ IsrState
  BY <1>10 DEF IsrEnter, SlowPath, IsrAcknowledge, IsrState, IsrGoto
<1>11. CASE IsrReadSequence
  BY <1>11, Numbers DEF IsrReadSequence
<1>12. CASE IsrCompute
  <2>1. /\ seqNums' \in 0 .. SeqMod - 1 /\ newSeq' \in 0 .. SeqMod - 1
        /\ numDescs' \in Sizes \cup {0} /\ processed' \in Nat /\ newProduced' \in Nat
        /\ i' \in Nat /\ n' \in Nat
    BY <1>12, ComputeTypes
  <2> QED
    BY <1>12, <2>1 DEF IsrCompute
<1>13. CASE IsrSync
  <2>1. CASE Leave("fault") /\ UNCHANGED stale
    BY <1>13, <2>1 DEF IsrSync, Leave
  <2>2. CASE /\ stale' = stale \ {i}
             /\ i' = NextPosition(i, numDescs) /\ n' = n + 1
             /\ UNCHANGED <<isr, seqNums, numDescs, newSeq, processed, newProduced>>
    <3>1. stale' \subseteq 0 .. SeqMod - 1 /\ i' \in Nat /\ n' \in Nat
      BY <2>2 DEF NextPosition
    <3> QED
      BY <1>13, <2>2, <3>1 DEF IsrSync
  <2> QED
    BY <1>13, <2>1, <2>2 DEF IsrSync
<1>14. CASE IsrPublish
  BY <1>14 DEF IsrPublish, Publish, Leave
<1>15. CASE UNCHANGED vars
  BY <1>15 DEF vars
<1> QED
  BY <1>1, <1>2, <1>3, <1>4, <1>5, <1>6, <1>7, <1>8, <1>9, <1>10, <1>11, <1>12, <1>13,
     <1>14, <1>15 DEF Next, Continue, Handler

\* The walk stays in the list.
LEMMA WalkInRing ==
  ASSUME Inv, isr = "sync", ~overtaken
  PROVE  i < descs
<1>1. /\ descs \in Nat \ {0} /\ produced \in Nat /\ n \in Nat
      /\ i = (produced + n) % descs
  BY HandlerHasStream, Numbers DEF Inv, RingOK, TypeOK
<1> QED
  BY <1>1, RemainderInRing

LEMMA StepTypeOK == Inv /\ [Next]_vars => TypeOK'
<1> SUFFICES ASSUME FlagsOK', NumbersOK' PROVE TypeOK'
  BY StepFlagsOK, StepNumbersOK
<1> QED
  BY DEF TypeOK, FlagsOK, NumbersOK

LEMMA StepCallOK == Inv /\ [Next]_vars => CallOK' /\ MaskOK'
<1> SUFFICES ASSUME Inv, [Next]_vars PROVE CallOK' /\ MaskOK'
  OBVIOUS
<1>0. CallOK /\ MaskOK /\ FlagsOK /\ refs \in Nat
  BY TypeParts DEF Inv, NumbersOK
<1> USE <1>0 DEF FlagsOK, device, stream, counts, locals, history
<1>1. CASE DeviceBegin \/ DeviceComplete
  BY <1>1 DEF DeviceBegin, DeviceComplete, CallOK, MaskOK
<1>2. CASE Start
  <2>1. PICK r \in Rings : descs' = r.size /\ InitStreamInfo(r.size)
    BY <1>2 DEF Start
  <2>2. r.size \in Nat \ {0}
    BY SizesOK DEF Sizes
  <2>3. CallOK'
    BY <1>2, <2>1, <2>2, Numbers DEF Start, CallOK
  <2>4. MaskOK'
    BY <2>1 DEF InitStreamInfo, MaskOK
  <2> QED
    BY <2>3, <2>4
<1>3. CASE Abort \/ EnableStreamIrq \/ StartController \/ ResetController
  <2>1. CASE Abort
    BY <2>1 DEF Abort, CallOK, MaskOK
  <2>2. CASE EnableStreamIrq \/ StartController
    BY <2>2 DEF EnableStreamIrq, StartController, CallOK, MaskOK
  <2>3. CASE ResetController
    BY <2>3 DEF ResetController, CallOK, MaskOK
  <2> QED
    BY <1>3, <2>1, <2>2, <2>3
<1>4. CASE ResetDmaInfo
  <2>1. descs > 0
    BY <1>4, Numbers DEF ResetDmaInfo, CallOK
  <2> QED
    BY <1>4, <2>1, Numbers DEF ResetDmaInfo, FreeStreamInfo, CallOK, MaskOK
<1>5. CASE OneShot
  BY <1>5 DEF OneShot, CallOK, MaskOK
<1>6. CASE Mmap
  <2>1. refs = 0 => descs = 0
    BY Numbers DEF CallOK
  <2>2. MaskOK'
    BY <1>6, <2>1 DEF Mmap, MaskOK
  <2>3. CallOK'
    BY <1>6, Numbers DEF Mmap, CallOK
  <2> QED
    BY <2>2, <2>3
<1>7. CASE VmaClose
  BY <1>7, Numbers DEF VmaClose, FreeStreamInfo, CallOK, MaskOK
<1>8. CASE IsrReadSequence
  <2>1. call \notin {"enable", "run"} \/ Position = 0
    BY <1>8 DEF CallOK, Position
  <2> QED
    BY <1>8, <2>1 DEF IsrReadSequence, CallOK, MaskOK
<1>9. CASE IsrEnter \/ SlowPath \/ IsrAcknowledge \/ IsrState
  BY <1>9 DEF IsrEnter, SlowPath, IsrAcknowledge, IsrState, IsrGoto, CallOK, MaskOK
<1>10. CASE IsrCompute \/ IsrSync \/ IsrPublish
  BY <1>10 DEF IsrCompute, IsrSync, IsrPublish, Publish, CallOK, MaskOK
<1>11. CASE UNCHANGED vars
  BY <1>11 DEF vars, CallOK, MaskOK
<1> QED
  BY <1>1, <1>2, <1>3, <1>4, <1>5, <1>6, <1>7, <1>8, <1>9, <1>10, <1>11
  DEF Next, Continue, Handler

\* Only the reset of the engine meets a running handler, and then it is overtaken.
LEMMA StepIsrOK == Inv /\ [Next]_vars => IsrOK'
<1> SUFFICES ASSUME Inv, [Next]_vars, ~overtaken' PROVE IsrOK'
  BY DEF IsrOK
<1>0. CallOK /\ IsrOK /\ FlagsOK /\ refs \in Nat
  BY TypeParts DEF Inv, NumbersOK
<1> USE <1>0 DEF FlagsOK, device, stream, counts, locals, history
<1>1. CASE DeviceBegin \/ DeviceComplete
  BY <1>1 DEF DeviceBegin, DeviceComplete, IsrOK
<1>2. CASE Start
  <2>1. isr' = "off" /\ UNCHANGED dangling
    BY <1>2 DEF Start
  <2>2. ~dangling
    BY <1>2, <2>1 DEF Start, Inv, PageOK
  <2> QED
    BY <1>2, <2>1, <2>2 DEF Start, IsrOK
<1>3. CASE Abort \/ EnableStreamIrq \/ StartController
  BY <1>3 DEF Abort, EnableStreamIrq, StartController, IsrOK
<1>4. CASE ResetController
  <2>1. ~overtaken /\ isr = "off"
    BY <1>4 DEF ResetController
  <2> QED
    BY <1>4, <2>1 DEF ResetController, IsrOK
<1>5. CASE ResetDmaInfo
  <2>1. isr = "off"
    BY <1>5 DEF ResetDmaInfo, IsrOK
  <2> QED
    BY <1>5, <2>1 DEF ResetDmaInfo, FreeStreamInfo, IsrOK
<1>6. CASE OneShot \/ Mmap
  BY <1>6 DEF OneShot, Mmap, IsrOK
<1>7. CASE VmaClose
  <2>1. ~overtaken
    BY <1>7 DEF VmaClose
  <2>2. isr # "off" => refs # 1
    <3>1. SUFFICES ASSUME isr # "off" PROVE refs # 1
      OBVIOUS
    <3>2. descs > 0 /\ vmas \in Nat /\ vmas > 0
      BY <1>7, <2>1, <3>1, HandlerHasStream, Numbers DEF VmaClose
    <3> QED
      BY <3>2 DEF CallOK
  <2> QED
    BY <1>7, <2>1, <2>2 DEF VmaClose, FreeStreamInfo, IsrOK
<1>8. CASE IsrEnter
  <2>1. descs # 0 /\ call \notin {"enable", "free"}
    BY <1>8 DEF IsrEnter, CallOK
  <2> QED
    BY <1>8, <2>1 DEF IsrEnter, IsrGoto, IsrOK
<1>9. CASE SlowPath \/ IsrAcknowledge
  BY <1>9 DEF SlowPath, IsrAcknowledge, IsrOK
<1>10. CASE IsrState \/ IsrReadSequence
  BY <1>10 DEF IsrState, IsrReadSequence, IsrGoto, IsrOK
<1>11. CASE IsrCompute
  <2>1. isr = "compute" /\ ~overtaken
    BY <1>11 DEF IsrCompute
  <2>2. isr' = "sync"
    BY <1>11, <2>1, Computed
  <2> QED
    BY <1>11, <2>1, <2>2 DEF IsrCompute, IsrOK
<1>12. CASE IsrSync
  <2>1. isr = "sync" /\ ~overtaken
    BY <1>12 DEF IsrSync
  <2>2. i < descs
    BY <2>1, HandlerHasStream, Numbers, WalkInRing
  <2>3. ~(i >= descs)
    BY <2>2, Numbers DEF Inv, TypeOK
  <2> QED
    BY <1>12, <2>1, <2>3 DEF IsrSync, IsrOK
<1>13. CASE IsrPublish
  <2>1. isr = "sync" /\ ~overtaken
    BY <1>13 DEF IsrPublish, Publish
  <2>2. isr' = "off" /\ UNCHANGED dangling
    BY <1>13, <2>1, HandlerHasStream DEF IsrPublish, Publish, Leave
  <2> QED
    BY <2>1, <2>2, HandlerHasStream DEF IsrOK
<1>14. CASE UNCHANGED vars
  BY <1>14 DEF vars, IsrOK
<1> QED
  BY <1>1, <1>2, <1>3, <1>4, <1>5, <1>6, <1>7, <1>8, <1>9, <1>10, <1>11, <1>12, <1>13,
     <1>14 DEF Next, Continue, Handler

LEMMA StepPageOK == Inv /\ [Next]_vars => PageOK'
<1> SUFFICES ASSUME Inv, [Next]_vars PROVE PageOK'
  OBVIOUS
<1>0. PageOK /\ FlagsOK
  BY TypeParts DEF Inv
<1> USE <1>0 DEF PageOK, FlagsOK, device, stream, counts, locals, history
<1>1. CASE DeviceBegin \/ DeviceComplete
  BY <1>1 DEF DeviceBegin, DeviceComplete
<1>2. CASE Start \/ Abort \/ Continue
  BY <1>2 DEF Start, Abort, Continue, EnableStreamIrq, StartController,
              ResetController, ResetDmaInfo, FreeStreamInfo
<1>3. CASE OneShot \/ Mmap \/ VmaClose
  BY <1>3 DEF OneShot, Mmap, VmaClose, FreeStreamInfo
<1>4. CASE IsrEnter \/ SlowPath \/ IsrAcknowledge \/ IsrState \/ IsrReadSequence
  BY <1>4 DEF IsrEnter, SlowPath, IsrAcknowledge, IsrState, IsrReadSequence, IsrGoto
<1>5. CASE IsrCompute \/ IsrSync \/ IsrPublish
  BY <1>5 DEF IsrCompute, IsrSync, IsrPublish, Publish, Leave
<1>6. CASE UNCHANGED vars
  BY <1>6 DEF vars
<1> QED
  BY <1>1, <1>2, <1>3, <1>4, <1>5, <1>6 DEF Next, Handler

LEMMA StepRegisterOK == Inv /\ [Next]_vars => RegisterOK'
<1> SUFFICES ASSUME Inv, [Next]_vars PROVE RegisterOK'
  OBVIOUS
<1>0. RegisterOK /\ CallOK /\ FlagsOK
  BY TypeParts DEF Inv
<1> USE <1>0 DEF RegisterOK, Looking, Position, FlagsOK, device, stream, counts, locals,
                 history
<1>1. CASE DeviceBegin
  BY <1>1 DEF DeviceBegin
<1>2. CASE DeviceComplete
  <2>1. Position' = Position /\ UNCHANGED <<engine, reg, descs>>
    BY <1>2, Numbers DEF DeviceComplete
  <2>2. engine /\ busy
    BY <1>2 DEF DeviceComplete
  <2> QED
    BY <2>1, <2>2
<1>3. CASE Start
  <2>1. ~engine /\ (~overtaken' => isr = "off")
    BY <1>3 DEF Start, CallOK
  <2> QED
    BY <1>3, <2>1 DEF Start
<1>4. CASE Abort
  BY <1>4 DEF Abort
<1>5. CASE EnableStreamIrq
  BY <1>5 DEF EnableStreamIrq
<1>6. CASE StartController
  <2>1. descs \in Nat \ {0}
    BY <1>6, Numbers DEF StartController, CallOK
  <2>2. ~busy /\ done = 0 /\ ~engine /\ 0 % descs = 0
    BY <1>6, <2>1, RemainderInRing DEF StartController, CallOK
  <2> QED
    BY <1>6, <2>2 DEF StartController
<1>7. CASE ResetController
  BY <1>7 DEF ResetController
<1>8. CASE ResetDmaInfo
  <2>1. ~engine
    BY <1>8 DEF ResetDmaInfo, CallOK
  <2> QED
    BY <1>8, <2>1 DEF ResetDmaInfo, FreeStreamInfo
<1>9. CASE OneShot
  <2>1. ~irq' /\ ~engine' /\ (~overtaken' => isr' = "off")
    BY <1>9 DEF OneShot, CallOK, Inv, IsrOK
  <2> QED
    BY <2>1
<1>10. CASE Mmap \/ VmaClose
  BY <1>10 DEF Mmap, VmaClose, FreeStreamInfo
<1>11. CASE IsrEnter \/ SlowPath \/ IsrAcknowledge \/ IsrState
  BY <1>11 DEF IsrEnter, SlowPath, IsrAcknowledge, IsrState, IsrGoto
<1>12. CASE IsrReadSequence
  BY <1>12 DEF IsrReadSequence
<1>13. CASE IsrCompute
  BY <1>13 DEF IsrCompute, Leave
<1>14. CASE IsrSync \/ IsrPublish
  BY <1>14 DEF IsrSync, IsrPublish, Publish, Leave
<1>15. CASE UNCHANGED vars
  BY <1>15 DEF vars
<1> QED
  BY <1>1, <1>2, <1>3, <1>4, <1>5, <1>6, <1>7, <1>8, <1>9, <1>10, <1>11, <1>12, <1>13,
     <1>14, <1>15 DEF Next, Continue, Handler

LEMMA StepSeenOK == Inv /\ [Next]_vars => SeenOK'
<1> SUFFICES ASSUME Inv, [Next]_vars, ~overtaken' PROVE SeenOK'
  BY DEF SeenOK
<1>0. SeenOK /\ CallOK
  BY DEF Inv
<1> USE <1>0, Numbers DEF SeenOK, Position, device, stream, counts, locals, history
<1>1. CASE DeviceBegin
  BY <1>1 DEF DeviceBegin
<1>2. CASE DeviceComplete
  BY <1>2 DEF DeviceComplete
<1>3. CASE Start
  BY <1>3 DEF Start, InitStreamInfo
<1>4. CASE Abort \/ EnableStreamIrq \/ StartController
  BY <1>4 DEF Abort, EnableStreamIrq, StartController
<1>5. CASE ResetController
  BY <1>5 DEF ResetController
<1>6. CASE ResetDmaInfo \/ OneShot
  <2>1. ~(descs' > 0) /\ UNCHANGED <<produced, seen, done, overtaken>>
    BY <1>6, Numbers DEF ResetDmaInfo, OneShot, CallOK
  <2> QED
    BY <2>1
<1>7. CASE Mmap \/ VmaClose
  BY <1>7 DEF Mmap, VmaClose, InitStreamInfo, FreeStreamInfo
<1>8. CASE IsrEnter \/ SlowPath \/ IsrAcknowledge \/ IsrState
  BY <1>8 DEF IsrEnter, SlowPath, IsrAcknowledge, IsrState, IsrGoto
<1>9. CASE IsrReadSequence
  <2>1. descs > 0 /\ call # "free" /\ ~overtaken
    BY <1>9, HandlerHasStream DEF IsrReadSequence
  <2> QED
    BY <1>9, <2>1 DEF IsrReadSequence
<1>10. CASE IsrCompute \/ IsrSync
  BY <1>10 DEF IsrCompute, IsrSync
<1>11. CASE IsrPublish
  <2>1. isr = "sync" /\ ~overtaken
    BY <1>11 DEF IsrPublish, Publish
  <2>2. /\ produced + processed <= seen /\ processed \in Nat
        /\ newProduced = produced + processed /\ ~dangling
    BY <2>1, HandlerHasStream DEF Inv, RingOK, TypeOK
  <2> QED
    BY <1>11, <2>1, <2>2 DEF IsrPublish, Publish
<1>12. CASE UNCHANGED vars
  BY <1>12 DEF vars
<1> QED
  BY <1>1, <1>2, <1>3, <1>4, <1>5, <1>6, <1>7, <1>8, <1>9, <1>10, <1>11, <1>12
  DEF Next, Continue, Handler

\* Device and calls leave the counts alone; what the handler computes from the
\* register is where the stream is.
LEMMA StepRingOK == Inv /\ [Next]_vars => RingOK'
<1> SUFFICES ASSUME Inv, [Next]_vars, descs' > 0, ~overtaken' PROVE RingOK'
  BY DEF RingOK
<1>0. RingOK /\ CallOK /\ FlagsOK
  BY TypeParts DEF Inv
<1> USE <1>0 DEF FlagsOK, device, stream, counts, locals, history
<1>1. ASSUME UNCHANGED <<descs, counts, isr, locals, seen, lapped>>, ~overtaken PROVE RingOK'
  BY <1>1 DEF RingOK
<1>2. CASE DeviceBegin \/ DeviceComplete \/ Abort \/ EnableStreamIrq \/ StartController
            \/ ResetController \/ OneShot \/ VmaClose \/ SlowPath
  BY <1>1, <1>2 DEF DeviceBegin, DeviceComplete, Abort, EnableStreamIrq, StartController,
                    ResetController, OneShot, VmaClose, FreeStreamInfo, SlowPath
<1>3. CASE Start
  <2>1. PICK r \in Rings : descs' = r.size /\ InitStreamInfo(r.size)
    BY <1>3 DEF Start
  <2>2. r.size \in Nat \ {0}
    BY SizesOK DEF Sizes
  <2>3. 0 % descs' = 0
    BY <2>1, <2>2, RemainderInRing
  <2> QED
    BY <1>3, <2>1, <2>3 DEF Start, InitStreamInfo, RingOK
<1>4. CASE ResetDmaInfo
  BY <1>4 DEF ResetDmaInfo
<1>5. CASE Mmap
  <2>1. refs # 0
    BY <1>5, Numbers DEF Mmap, CallOK
  <2> QED
    BY <1>1, <1>5, <2>1 DEF Mmap
<1>6. CASE IsrEnter \/ IsrAcknowledge \/ IsrState
  BY <1>6 DEF IsrEnter, IsrAcknowledge, IsrState, IsrGoto, RingOK
<1>7. CASE IsrReadSequence
  <2>1. reg = Position % descs /\ seen <= Position /\ descs > 0
    <3>1. descs > 0 /\ call \notin {"enable", "free"} /\ ~overtaken
      BY <1>7, HandlerHasStream DEF IsrReadSequence
    <3>2. seen <= Position /\ reg = IF engine THEN Position % descs ELSE 0
      BY <1>7, <3>1 DEF Inv, SeenOK, RegisterOK, Looking, IsrReadSequence
    <3>3. CASE ~engine
      <4>1. call = "run" /\ ~busy /\ done = 0
        BY <3>1, <3>3 DEF CallOK
      <4>2. Position = 0 /\ 0 % descs = 0
        BY <3>1, <4>1, Numbers, RemainderInRing DEF Position
      <4> QED
        BY <3>1, <3>2, <3>3, <4>2
    <3> QED
      BY <3>1, <3>2, <3>3
  <2>2. /\ writeSeq = produced % descs
        /\ lapped \/ produced = seen
        /\ isr = "read" /\ ~overtaken
    BY <1>7, <2>1 DEF RingOK, IsrReadSequence
  <2>3. /\ isr' = "compute" /\ seqNums' = reg /\ seen' = Position
        /\ lapped' = (lapped \/ Position - seen >= descs)
        /\ UNCHANGED <<descs, writeSeq, produced>>
    BY <1>7 DEF IsrReadSequence
  <2>4. lapped' \/ seen' - produced' < descs'
    <3>1. CASE lapped
      BY <2>3, <3>1
    <3>2. CASE ~lapped
      <4>1. produced = seen /\ (Position - seen >= descs \/ Position - seen < descs)
        BY <2>2, <3>2, Numbers
      <4> QED
        BY <2>3, <4>1
    <3> QED
      BY <3>1, <3>2
  <2> QED
    BY <2>1, <2>2, <2>3, <2>4 DEF RingOK
<1>8. CASE IsrCompute
  <2>1. /\ isr = "compute" /\ descs > 0 /\ ~overtaken
        /\ UNCHANGED <<descs, writeSeq, produced, seen, lapped>>
    BY <1>8, HandlerHasStream DEF IsrCompute
  <2>2. writeSeq = produced % descs /\ produced + 0 = produced
    BY <2>1, Numbers DEF RingOK
  <2>3. /\ isr' = "sync" /\ numDescs' = descs
        /\ newProduced' = produced + processed'
        /\ newSeq' = newProduced' % descs
        /\ processed' < descs /\ n' <= processed'
        /\ produced + processed' <= seen
        /\ lapped \/ produced + processed' = seen
        /\ i' = produced % descs /\ n' = 0
    BY <1>8, <2>1, Computed, Numbers
  <2> QED
    BY <2>1, <2>2, <2>3 DEF RingOK
<1>9. CASE IsrSync
  <2>0. isr = "sync" /\ ~overtaken /\ descs > 0 /\ ~(i >= descs) /\ numDescs = descs
    <3>1. isr = "sync" /\ ~overtaken
      BY <1>9 DEF IsrSync
    <3>2. i < descs /\ descs > 0
      BY <3>1, WalkInRing, HandlerHasStream
    <3> QED
      BY <3>1, <3>2, Numbers DEF RingOK, Inv, TypeOK
  <2>1. /\ isr = "sync" /\ isr' = "sync" /\ descs > 0
        /\ i' = NextPosition(i, descs) /\ n' = n + 1 /\ n < processed
        /\ UNCHANGED <<descs, writeSeq, produced, numDescs, newSeq, processed,
                       newProduced, seen, lapped>>
    BY <1>9, <2>0 DEF IsrSync
  <2>2. n \in Nat /\ processed \in Nat
    BY DEF Inv, TypeOK
  <2>3. i' = (produced + n + 1) % descs
    <3>1. i = (produced + n) % descs /\ produced + n \in Nat /\ descs \in Nat \ {0}
      <4>1. i = (produced + n) % descs
        BY <2>0, <2>1 DEF RingOK
      <4>2. produced + n \in Nat /\ descs \in Nat \ {0}
        <5>1. produced \in Nat /\ descs \in Nat /\ n \in Nat /\ descs > 0
          BY <2>1, <2>2, Numbers
        <5> QED
          BY <5>1
      <4> QED
        BY <4>1, <4>2
    <3>2. NextPosition((produced + n) % descs, descs) = (produced + n + 1) % descs
      BY <3>1, NextIsSuccessor
    <3> QED
      BY <2>1, <3>1, <3>2
  <2>4. (produced + n + 1) = produced + n' /\ n' <= processed
    BY <2>1, <2>2, Numbers
  <2> QED
    BY <2>0, <2>1, <2>3, <2>4 DEF RingOK
<1>10. CASE IsrPublish
  <2>0. isr = "sync" /\ ~overtaken
    BY <1>10 DEF IsrPublish, Publish
  <2>1. /\ isr' = "off" /\ descs > 0
        /\ writeSeq' = newSeq /\ produced' = newProduced
        /\ UNCHANGED <<descs, seen, lapped>>
    BY <1>10, <2>0, HandlerHasStream DEF IsrPublish, Publish, Leave
  <2> QED
    BY <2>0, <2>1 DEF RingOK
<1>11. CASE UNCHANGED vars
  BY <1>1, <1>11 DEF vars
<1> QED
  BY <1>2, <1>3, <1>4, <1>5, <1>6, <1>7, <1>8, <1>9, <1>10, <1>11 DEF Next, Continue, Handler

LEMMA StepSyncOK == Inv /\ [Next]_vars => SyncOK'
<1> SUFFICES ASSUME Inv, [Next]_vars, descs' > 0, ~overtaken' PROVE SyncOK'
  BY DEF SyncOK
<1>0. SyncOK /\ CallOK /\ FlagsOK /\ processed \in Nat /\ n \in Nat
  BY TypeParts DEF Inv, NumbersOK
<1> USE <1>0 DEF FlagsOK, device, stream, counts, locals, history
<1>1. ASSUME UNCHANGED <<descs, done, stale, produced, n>>, isr = "sync" <=> isr' = "sync",
             ~overtaken
      PROVE  SyncOK'
  BY <1>1 DEF SyncOK, Synced
<1>2. CASE DeviceBegin \/ Abort \/ EnableStreamIrq \/ StartController
            \/ ResetController \/ OneShot \/ VmaClose \/ SlowPath
  BY <1>1, <1>2 DEF DeviceBegin, Abort, EnableStreamIrq, StartController,
                    ResetController, OneShot, VmaClose, FreeStreamInfo, SlowPath
<1>3. CASE DeviceComplete
  <2>1. /\ engine /\ busy /\ done' = done + 1 /\ stale' = stale \cup {done % descs}
        /\ UNCHANGED <<descs, produced, n, isr, call>> /\ ~overtaken
    BY <1>3 DEF DeviceComplete
  <2>2. descs > 0 /\ Synced \in Nat /\ Synced <= done
    <3>1. descs > 0 /\ call # "free"
      BY <2>1 DEF CallOK
    <3>2. seen <= done /\ produced <= seen
      BY <2>1 DEF Inv, SeenOK
    <3>3. isr = "sync" => n <= processed /\ produced + processed <= seen
      BY <2>1, <3>1 DEF Inv, RingOK
    <3> QED
      BY <3>1, <3>2, <3>3, Numbers DEF Synced
  <2>3. Synced' = Synced
    BY <2>1 DEF Synced
  <2>4. ASSUME NEW k \in 0 .. done', k < Synced, k + descs > done'
        PROVE  k % descs \notin stale'
    <3>1. k \in 0 .. done /\ k < done /\ k + descs > done /\ done < k + descs
      <4>1. done \in Nat /\ descs \in Nat /\ Synced \in Nat /\ done' = done + 1
        BY <2>1, <2>2, Numbers
      <4>2. k \in Nat /\ k < Synced /\ Synced <= done /\ k + descs > done + 1
        BY <2>1, <2>2, <2>4, <4>1
      <4> QED
        BY <4>1, <4>2
    <3>2. k % descs # done % descs
      BY <2>2, <3>1, Numbers, DifferentPositions
    <3>3. k % descs \notin stale
      BY <2>1, <2>2, <2>4, <3>1 DEF SyncOK
    <3> QED
      BY <2>1, <3>2, <3>3
  <2> QED
    BY <2>1, <2>3, <2>4 DEF SyncOK
<1>4. CASE Start
  BY <1>4, Numbers DEF Start, InitStreamInfo, SyncOK, Synced
<1>5. CASE ResetDmaInfo
  BY <1>5 DEF ResetDmaInfo
<1>6. CASE Mmap
  <2>1. refs # 0
    BY <1>6, Numbers DEF Mmap, CallOK
  <2> QED
    BY <1>1, <1>6, <2>1 DEF Mmap
<1>7. CASE IsrEnter \/ IsrAcknowledge \/ IsrState \/ IsrReadSequence
  BY <1>1, <1>7 DEF IsrEnter, IsrAcknowledge, IsrState, IsrReadSequence, IsrGoto
<1>8. CASE IsrCompute
  <2>1. isr = "compute" /\ ~overtaken /\ UNCHANGED <<descs, done, stale, produced>>
    BY <1>8 DEF IsrCompute
  <2>2. isr' = "sync" /\ n' = 0
    BY <1>8, <2>1, Computed
  <2> QED
    BY <2>1, <2>2, Numbers DEF SyncOK, Synced
<1>9. CASE IsrSync
  <2>0. isr = "sync" /\ ~overtaken /\ descs > 0 /\ ~(i >= descs)
    <3>1. isr = "sync" /\ ~overtaken
      BY <1>9 DEF IsrSync
    <3>2. i < descs /\ descs > 0
      BY <3>1, WalkInRing, HandlerHasStream
    <3> QED
      BY <3>1, <3>2, Numbers DEF Inv, TypeOK
  <2>1. /\ isr = "sync" /\ isr' = "sync" /\ descs > 0
        /\ stale' = stale \ {i} /\ n' = n + 1
        /\ UNCHANGED <<descs, done, produced>>
    BY <1>9, <2>0 DEF IsrSync
  <2>2. i = (produced + n) % descs
    BY <2>0, <2>1 DEF Inv, RingOK
  <2>3. Synced = produced + n /\ Synced' = produced + n + 1
    BY <2>1, Numbers DEF Synced
  <2>4. ASSUME NEW k \in 0 .. done', k < produced + n + 1, k + descs > done'
        PROVE  k % descs \notin stale'
    <3>1. CASE k = produced + n
      BY <2>1, <2>2, <3>1
    <3>2. CASE k < produced + n
      BY <2>0, <2>1, <2>3, <2>4, <3>2 DEF SyncOK
    <3> QED
      BY <2>1, <2>4, <3>1, <3>2, Numbers
  <2> QED
    BY <2>0, <2>1, <2>3, <2>4 DEF SyncOK
<1>10. CASE IsrPublish
  <2>0. isr = "sync" /\ ~overtaken
    BY <1>10 DEF IsrPublish, Publish
  <2>1. /\ descs > 0 /\ ~dangling /\ newProduced = produced + processed
    BY <2>0, HandlerHasStream DEF Inv, RingOK
  <2>2. /\ isr' = "off" /\ n = processed /\ produced' = produced + processed
        /\ UNCHANGED <<descs, done, stale>>
    BY <1>10, <2>1 DEF IsrPublish, Publish, Leave
  <2>3. Synced' = Synced
    BY <2>0, <2>2, Numbers DEF Synced
  <2> QED
    BY <2>0, <2>1, <2>2, <2>3 DEF SyncOK
<1>11. CASE UNCHANGED vars
  BY <1>1, <1>11 DEF vars
<1> QED
  BY <1>2, <1>3, <1>4, <1>5, <1>6, <1>7, <1>8, <1>9, <1>10, <1>11 DEF Next, Continue, Handler

LEMMA StepInv == Inv /\ [Next]_vars => Inv'
BY StepTypeOK, StepCallOK, StepIsrOK, StepPageOK, StepRegisterOK, StepSeenOK, StepRingOK,
   StepSyncOK DEF Inv

LEMMA InvHolds == Spec => []Inv
BY InitInv, StepInv, PTL DEF Spec
-----------------------------------------------------------------------------
(* Theorems                                                                *)

\* Positions and counts stay in their ranges.
THEOREM RingTypesCorrect == Spec => []TypeOK
<1>1. Inv => TypeOK
  BY DEF Inv
<1> QED
  BY <1>1, InvHolds, PTL

\* No division by a cleared desc_size and no access to a page that is gone
\* (main.c:482), but by a handler that a cancel has overtaken: to any other the
\* stream holds both, and one that comes after disable_stream_irq does not enter.
THEOREM HandlerStaysSafe == Spec => []HandlerIsSafe
<1>1. Inv => HandlerIsSafe
  BY DEF Inv, IsrOK, HandlerIsSafe
<1> QED
  BY <1>1, InvHolds, PTL

\* produced says what the device has done, short of whole laps (main.c:518), in any
\* stream whose handlers were not overtaken.
THEOREM ProducedStaysReal == Spec => []ProducedIsReal
<1>1. Inv => ProducedIsReal
  <2> SUFFICES ASSUME Inv PROVE ProducedIsReal
    OBVIOUS
  <2> SUFFICES ASSUME ~overtaken PROVE ProducedIsReal
    BY DEF ProducedIsReal
  <2>1. produced <= done /\ produced <= seen
    BY Numbers DEF Inv, SeenOK
  <2>2. ASSUME descs > 0, isr = "off"
        PROVE  /\ writeSeq < descs /\ produced % descs = writeSeq
               /\ ~lapped => produced = seen
    BY <2>2, Numbers DEF Inv, RingOK
  <2> QED
    BY <2>1, <2>2 DEF ProducedIsReal
<1> QED
  BY <1>1, InvHolds, PTL

\* What user space is told of has been synced for the CPU (main.c:511).
THEOREM SyncComesFirst == Spec => []SyncedBeforePublished
<1>1. Inv => SyncedBeforePublished
  <2> SUFFICES ASSUME Inv, descs > 0, ~overtaken,
                      NEW k \in 0 .. done, k < produced, k + descs > done
               PROVE  k % descs \notin stale
    BY DEF SyncedBeforePublished
  <2>1. k < Synced
    BY Numbers DEF Synced, Inv, TypeOK
  <2> QED
    BY <2>1 DEF Inv, SyncOK
<1> QED
  BY <1>1, InvHolds, PTL
=============================================================================
