------------------------------ MODULE StreamRing ------------------------------
(***************************************************************************)
(* The ring of a streaming channel (main.c, request.c, dma.c): the device  *)
(* fills the buffers of a circular list of descriptors, the hard interrupt *)
(* handler reads the device's sequence number, gives the finished buffers  *)
(* to the CPU and publishes their number as `produced', in a page that     *)
(* user space has mapped.  The handler takes no lock: start, cancel and    *)
(* mmap run against it on another CPU, under tpce->mutex.                  *)
(*                                                                         *)
(* One channel.  produced counts descriptors here and bytes in the code    *)
(* (bytes_per_descriptor > 0), and is not wrapped at 2^64.                 *)
(*                                                                         *)
(* Nothing in the code waits for a handler that is running when a stream   *)
(* is cancelled: it may go on while the engine is reset, while desc_size,  *)
(* map_info and the shared page are taken away, and into the next stream.  *)
(* The history variable `overtaken' tells the streams to which this        *)
(* happens; what the code promises of the others holds without a condition *)
(* on timing.                                                              *)
(***************************************************************************)
EXTENDS Naturals

CONSTANTS
  Rings,      \* [size, every]: number of descriptors, interrupt_interval
  SeqMod,     \* values of a sequence number, 2^16 in the code
  MaxDone,    \* bound: descriptors the device completes in one stream
  MaxVmas,    \* bound: areas that map the shared page
  MaxCarried  \* bound: count that a handler carries from one stream to the next

\* Streams whose parameters were validated against bytes_per_descriptor > 0.  The
\* 16 bits of a sequence number suffice for the ring.
ASSUME StreamRingAssumption ==
  /\ SeqMod \in Nat \ {0} /\ MaxDone \in Nat /\ MaxVmas \in Nat /\ MaxCarried \in Nat
  /\ \A r \in Rings : /\ r.size \in 1 .. SeqMod /\ r.every \in 1 .. r.size
                      /\ r.size % r.every = 0

VARIABLES
  \* device
  engine,       \* it works on the ring
  busy,         \* it has begun the descriptor after those in done
  done,         \* descriptors completed since the start
  reg,          \* DESCRIPTOR_SEQUENCE_NUMBER_REG, upper half
  irq,          \* the channel's interrupt is up
  stale,        \* positions written by the device and not synced for the CPU
  \* dma_info, stream_info
  call,         \* progress of a call that starts or cancels a stream
  fast,         \* the channel's bit in fast_irq_mask
  descs, every, \* desc_size in descriptors; interval of the interrupt flags
  refs,         \* state_refs; state is NULL when it is 0
  vmas,         \* areas of user space
  produced, writeSeq, numDescMask,
  \* dma_stream_irq_handler and its locals
  isr, seqNums, numDescs, newSeq, processed, newProduced, i, n,
  dangling,     \* the page its `state' points to has been freed
  \* history
  seen,         \* descriptors completed when the handler read reg
  lapped,       \* the device went round between two of these reads
  overtaken     \* a cancel reset the engine while a handler was running

device  == <<engine, busy, done, reg, irq, stale>>
stream  == <<call, fast, descs, every, refs, vmas>>
counts  == <<produced, writeSeq, numDescMask>>
locals  == <<seqNums, numDescs, newSeq, processed, newProduced, i, n>>
history == <<seen, lapped, overtaken>>
vars == <<device, stream, counts, isr, locals, dangling, history>>

\* What reg says in terms of the whole stream: the descriptor in progress, or the
\* last one while the next has not begun.
Position == IF busy \/ done = 0 THEN done ELSE done - 1

Init ==
  /\ engine = FALSE /\ busy = FALSE /\ done = 0 /\ reg = 0 /\ irq = FALSE
  /\ stale = {}
  /\ call = "none" /\ fast = FALSE /\ descs = 0 /\ every = 0
  /\ refs = 0 /\ vmas = 0
  /\ produced = 0 /\ writeSeq = 0 /\ numDescMask = 0
  /\ isr = "off"
  /\ seqNums = 0 /\ numDescs = 0 /\ newSeq = 0 /\ processed = 0 /\ newProduced = 0
  /\ i = 0 /\ n = 0 /\ dangling = FALSE
  /\ seen = 0 /\ lapped = FALSE /\ overtaken = FALSE
-----------------------------------------------------------------------------
(* The device                                                              *)

DeviceBegin ==
  /\ engine /\ ~busy /\ done < MaxDone
  /\ busy' = TRUE
  /\ reg' = done % descs   \* descriptor k carries sequence number k
  /\ UNCHANGED <<engine, done, irq, stale, stream, counts, isr, locals, dangling, history>>

DeviceComplete ==
  /\ engine /\ busy
  /\ busy' = FALSE
  /\ done' = done + 1
  /\ stale' = stale \cup {done % descs}
  /\ irq' = (irq \/ done % every = every - 1)
  /\ UNCHANGED <<engine, reg, stream, counts, isr, locals, dangling, history>>
-----------------------------------------------------------------------------
(* Calls                                                                   *)

\* is_power_of_2 of the kernel: 0 is none.
IsPowerOfTwo(size) == size # 0 /\ size \in {2 ^ k : k \in 0 .. 16}

\* Mutant: the mask is one too large.
InitMaskIsSize(size) ==
  /\ produced' = 0 /\ writeSeq' = 0
  /\ numDescMask' = IF IsPowerOfTwo(size) THEN size ELSE 0

InitStreamInfo(size) ==
  /\ produced' = 0 /\ writeSeq' = 0
  /\ numDescMask' = IF IsPowerOfTwo(size) THEN size - 1 ELSE 0

\* init_dma_info: the size is set before the stream state is initialised.
Start ==
  /\ call = "none" /\ descs = 0
  /\ isr # "fault"             \* which is the end of the kernel
  /\ newProduced <= MaxCarried
  /\ \E r \in Rings : /\ descs' = r.size /\ every' = r.every
                      /\ InitStreamInfo(r.size)
  /\ refs' = refs + 1
  /\ call' = "enable"
  /\ done' = 0 /\ busy' = FALSE /\ stale' = {} /\ seen' = 0 /\ lapped' = FALSE
  /\ overtaken' = (isr # "off")   \* by a handler of the stream before
  /\ UNCHANGED <<engine, reg, irq, fast, vmas, isr, locals, dangling>>

EnableStreamIrq ==
  /\ call = "enable"
  /\ fast' = TRUE
  /\ call' = "run"
  /\ UNCHANGED <<device, descs, every, refs, vmas, counts, isr, locals, dangling, history>>

\* start_dma_controller, at the end of dma_start
StartController ==
  /\ call = "run"
  /\ engine' = TRUE
  /\ call' = "none"
  /\ UNCHANGED <<busy, done, reg, irq, stale, fast, descs, every, refs, vmas,
                 counts, isr, locals, dangling, history>>

\* Mutant: the handler stays in charge of the channel.
AbortInFastMask ==
  /\ call = "none" /\ engine
  /\ call' = "reset"
  /\ UNCHANGED <<device, fast, descs, every, refs, vmas, counts, isr, locals, dangling,
                 history>>

\* tpce_dma_abort: first the handler is told to keep off,
Abort ==
  /\ call = "none" /\ engine
  /\ fast' = FALSE
  /\ call' = "reset"
  /\ UNCHANGED <<device, descs, every, refs, vmas, counts, isr, locals, dangling, history>>

\* then the engine is reset, whether a handler is running or not.  Its interrupt
\* may stay up.
ResetController ==
  /\ call = "reset"
  /\ engine' = FALSE /\ busy' = FALSE /\ reg' = 0
  /\ irq' \in {irq, FALSE}
  /\ call' = "free"
  /\ overtaken' = (overtaken \/ isr # "off")
  /\ UNCHANGED <<done, stale, fast, descs, every, refs, vmas, counts, isr, locals,
                 dangling, seen, lapped>>

\* tpce_free_stream_info: the last reference frees the page, and a handler that
\* has loaded its address keeps it.
FreeStreamInfo ==
  /\ refs' = refs - 1
  /\ dangling' = (dangling \/ (refs = 1 /\ isr \in {"read", "compute", "sync"}))

\* reset_dma_info: map_info and the reference to the page are dropped,
\* desc_size is cleared.
ResetDmaInfo ==
  /\ call = "free"
  /\ FreeStreamInfo
  /\ descs' = 0
  /\ call' = "none"
  /\ UNCHANGED <<device, fast, every, vmas, counts, isr, locals, history>>

\* A one-shot on the channel leaves its last sequence number in the register;
\* its own interrupt was acknowledged before it completed.
OneShot ==
  /\ call = "none" /\ descs = 0
  /\ reg' \in 0 .. SeqMod - 1
  /\ irq' = FALSE
  /\ UNCHANGED <<engine, busy, done, stale, stream, counts, isr, locals, dangling, history>>

\* The page is made by whoever needs it first, user space or the stream.
Mmap ==
  /\ call = "none" /\ vmas < MaxVmas
  /\ vmas' = vmas + 1
  /\ refs' = refs + 1
  /\ \/ refs = 0 /\ InitStreamInfo(descs)
     \/ refs > 0 /\ UNCHANGED counts
  /\ UNCHANGED <<device, call, fast, descs, every, isr, locals, dangling, history>>

VmaClose ==
  /\ call = "none" /\ vmas > 0
  /\ vmas' = vmas - 1
  /\ FreeStreamInfo
  /\ UNCHANGED <<device, call, fast, descs, every, counts, isr, locals, history>>
-----------------------------------------------------------------------------
(* The interrupt handler, cut where it reads or writes what others touch   *)

IsrGoto(at) == isr' = at /\ UNCHANGED <<device, stream, counts, locals, dangling, history>>

\* tpce_isr with the channel in its copy of fast_irq_mask
IsrEnter == isr = "off" /\ irq /\ fast /\ IsrGoto("ack")

\* The channel is not in the mask: the tasklet acknowledges the interrupt, and
\* the work item ignores it.
SlowPath ==
  /\ isr = "off" /\ irq /\ ~fast
  /\ irq' = FALSE
  /\ UNCHANGED <<engine, busy, done, reg, stale, stream, counts, isr, locals, dangling,
                 history>>

IsrAcknowledge ==
  /\ isr = "ack"
  /\ irq' = FALSE
  /\ isr' = "state"
  /\ UNCHANGED <<engine, busy, done, reg, stale, stream, counts, locals, dangling, history>>

IsrState == isr = "state" /\ IsrGoto(IF refs = 0 THEN "off" ELSE "read")

IsrReadSequence ==
  /\ isr = "read"
  /\ seqNums' = reg
  /\ seen' = Position
  /\ lapped' = (lapped \/ Position - seen >= descs)
  /\ isr' = "compute"
  /\ UNCHANGED <<device, stream, counts, numDescs, newSeq, processed, newProduced, i, n,
                 dangling, overtaken>>

\* num_desc_mask is all ones below a power of two.
RingPosition(seq, mask, size) == IF mask # 0 THEN seq % (mask + 1) ELSE seq % size

\* Mutant: no new descriptor counts as a whole ring.
DistanceOfWholeRing(old, new, size) == IF new <= old THEN new + size - old ELSE new - old

Distance(old, new, size) == IF new < old THEN new + size - old ELSE new - old

\* The handler returns, or stops in a "fault": a division by desc_size = 0, a NULL
\* map_info, an access to the page after it was freed or outside of the list.
Leave(at) ==
  /\ isr' = at
  /\ seqNums' = 0 /\ numDescs' = 0 /\ newSeq' = 0 /\ processed' = 0 /\ newProduced' = 0
  /\ i' = 0 /\ n' = 0

IsrCompute ==
  /\ isr = "compute"
  /\ \/ /\ dangling \/ (numDescMask = 0 /\ descs = 0)
        /\ Leave("fault")
     \/ /\ ~dangling /\ (numDescMask > 0 \/ descs > 0)
        /\ LET new     == RingPosition(seqNums, numDescMask, descs)
               advance == Distance(writeSeq, new, descs)
           IN \/ /\ new + descs < writeSeq \/ advance > descs
                 /\ Leave("off")   \* "Invalid DMA sequence advance"
              \/ /\ new + descs >= writeSeq /\ advance <= descs
                 /\ isr' = "sync"
                 /\ numDescs' = descs /\ newSeq' = new
                 /\ processed' = advance /\ newProduced' = produced + advance
                 /\ i' = writeSeq /\ n' = 0 /\ UNCHANGED seqNums
  /\ UNCHANGED <<device, stream, counts, dangling, history>>

\* Mutant: the walk leaves the ring at its end.
NextWithoutWrap(k, size) == k + 1

NextPosition(k, size) == IF k + 1 = size THEN 0 ELSE k + 1

\* dma_sync_single_for_cpu reads the descriptor and map_info; the end of the ring
\* is the one read before.
IsrSync ==
  /\ isr = "sync" /\ n < processed
  /\ \/ i >= descs /\ Leave("fault") /\ UNCHANGED stale
     \/ /\ descs > 0
        /\ stale' = stale \ {i}
        /\ i' = NextPosition(i, numDescs) /\ n' = n + 1
        /\ UNCHANGED <<isr, seqNums, numDescs, newSeq, processed, newProduced>>
  /\ UNCHANGED <<engine, busy, done, reg, irq, stream, counts, dangling, history>>

\* smp_store_release: whoever reads produced also sees the synced data.
Publish ==
  /\ isr = "sync" /\ n = processed
  /\ writeSeq' = newSeq
  /\ \/ dangling /\ Leave("fault") /\ UNCHANGED produced
     \/ ~dangling /\ produced' = newProduced /\ Leave("off")
  /\ UNCHANGED <<stream, numDescMask, dangling, history>>

\* Mutant: the interrupt is acknowledged at the end.
IsrPublishThenAcknowledge ==
  Publish /\ irq' = FALSE /\ UNCHANGED <<engine, busy, done, reg, stale>>

IsrPublish == Publish /\ UNCHANGED device
-----------------------------------------------------------------------------
Handler == \/ IsrEnter \/ SlowPath \/ IsrAcknowledge \/ IsrState
           \/ IsrReadSequence \/ IsrCompute \/ IsrSync \/ IsrPublish

\* What a call that has begun does next.
Continue == EnableStreamIrq \/ StartController \/ ResetController \/ ResetDmaInfo

Next == \/ DeviceBegin \/ DeviceComplete
        \/ Start \/ Abort \/ Continue
        \/ OneShot \/ Mmap \/ VmaClose
        \/ Handler

Spec == Init /\ [][Next]_vars

\* An interrupt that is up reaches the handler, which runs to its end, and so does
\* a call.
FairSpec == Spec /\ WF_vars(Handler) /\ WF_vars(Continue)
-----------------------------------------------------------------------------
(* Properties                                                              *)

Sizes == {r.size : r \in Rings}

\* Every variable has its type.
TypeOK ==
  /\ engine \in BOOLEAN /\ busy \in BOOLEAN /\ irq \in BOOLEAN /\ fast \in BOOLEAN
  /\ done \in Nat /\ reg \in 0 .. SeqMod - 1 /\ stale \subseteq 0 .. SeqMod - 1
  /\ call \in {"none", "enable", "run", "reset", "free"}
  /\ descs \in Sizes \cup {0} /\ every \in {r.every : r \in Rings} \cup {0}
  /\ refs \in Nat /\ vmas \in 0 .. MaxVmas
  /\ produced \in Nat /\ writeSeq \in 0 .. SeqMod - 1
  /\ numDescMask \in 0 .. SeqMod - 1
  /\ isr \in {"off", "ack", "state", "read", "compute", "sync", "fault"}
  /\ seqNums \in 0 .. SeqMod - 1 /\ newSeq \in 0 .. SeqMod - 1
  /\ numDescs \in Sizes \cup {0} /\ processed \in Nat /\ newProduced \in Nat
  /\ i \in Nat /\ n \in Nat /\ dangling \in BOOLEAN
  /\ seen \in Nat /\ lapped \in BOOLEAN /\ overtaken \in BOOLEAN

\* The handler holds no lock, and yet it divides by a desc_size that a cancel has
\* cleared, or follows a pointer that one has taken away, in one case only: it was
\* running when the engine was reset.  One that comes later finds the door closed
\* (disable_stream_irq), whatever interrupt the stream has left behind.
HandlerIsSafe == isr = "fault" => overtaken

\* Not an invariant, as nothing waits for the handler that is running.
HandlerNeverFaults == isr # "fault"

\* produced never says more than the device has done, agrees with the position in
\* the ring, and is exact when the handler has looked in time: whole laps of the
\* device between two looks are the only descriptors it misses.  A handler that
\* was overtaken may leave any count, until the next stream begins without one.
ProducedIsReal ==
  ~overtaken =>
    /\ produced <= done
    /\ descs > 0 /\ isr = "off" =>
         /\ writeSeq < descs /\ produced % descs = writeSeq
         /\ produced <= seen /\ (~lapped => produced = seen)

\* Whatever produced announces has been synced for the CPU, unless the device is
\* already at work on that position again, as it is once it has lapped, or the
\* handler was overtaken.
SyncedBeforePublished ==
  descs > 0 /\ ~overtaken =>
    \A k \in 0 .. done : k < produced /\ k + descs > done => k % descs \notin stale

\* The last interrupt of a burst is not lost between the acknowledgement and the
\* read: what was completed by then is published, but for a descriptor
\* the register does not show yet, unless the stream ends or the device laps, or
\* a handler of the stream before is still running.
CatchesUp ==
  \A k \in 1 .. MaxDone :
    engine /\ done = k /\ k % every = 0
      ~> produced >= k - 1 \/ lapped \/ ~engine \/ overtaken
=============================================================================
