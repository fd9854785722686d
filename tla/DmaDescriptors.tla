----------------------------- MODULE DmaDescriptors -----------------------------
(***************************************************************************)
(* How a request becomes a list of descriptors (dma_descriptors.c,         *)
(* init_dma_info in request.c, and in dma.c the descriptor memory and its  *)
(* links): memory for the estimated number, validation, a plan, one        *)
(* descriptor after the other, control flags, links.  One channel, under   *)
(* its mutex: requests follow one another and inherit the memory.          *)
(*                                                                         *)
(* A unit of length is the channel's data_width.  A byte of the buffer has *)
(* its offset in the buffer for an address; device addresses, strides and  *)
(* bursts are left out, and the checks on them refuse at will.  The buffer *)
(* that the CPU fills (desc) and its coherent copy are told apart only in  *)
(* that the links are made in the copy (chain).                            *)
(***************************************************************************)
EXTENDS Integers, Sequences, FiniteSets, FiniteSetsExt

CONSTANTS
  Mappings,        \* [bounds, off]: offsets in the buffer at which the ranges begin
                   \* and the last ends; offset of the buffer in its page
  Page, MaxTransfer,
  StreamDesc, StreamInterval,  \* 1024 and 4 in the default streaming parameters
  Modulus,         \* 2^32, for lengths
  SizeMod,         \* 2^32 / sizeof(tpce_dma_descriptor), for numbers of them
  MaxBytes, PerDescs, Intervals,  \* values tried in the parameters
  UserLists        \* lists of descriptors made in user space

ASSUME DescriptorsAssumption ==
  /\ \A c \in {Page, MaxTransfer, StreamDesc, StreamInterval, Modulus, SizeMod} :
       c \in Nat \ {0}
  /\ MaxBytes \in Nat /\ MaxBytes < Modulus
  /\ Page <= MaxTransfer /\ Page % (StreamDesc * StreamInterval) = 0
  /\ PerDescs \subseteq Nat /\ Intervals \subseteq Nat
  /\ \A m \in Mappings :
       /\ m.bounds \in Seq(Nat) /\ Len(m.bounds) >= 2 /\ m.bounds[1] = 0
       /\ \A i, j \in DOMAIN m.bounds : i < j => m.bounds[i] < m.bounds[j]
       /\ m.bounds[Len(m.bounds)] < Modulus
       /\ m.off \in 0 .. Page - 1
       \* Ranges consist of pages, but for the ends of the buffer.
       /\ \A i \in 2 .. Len(m.bounds) - 1 : (m.bounds[i] + m.off) % Page = 0
  /\ UserLists \subseteq Seq([pos : Nat, len : Nat, irq : BOOLEAN])
  /\ \A list \in UserLists : Len(list) < SizeMod

VARIABLES
  pc, answer,    \* progress of the request; why it was refused
  req,           \* the request
  desc, size,    \* descriptor memory, and desc_size in descriptors
  num,           \* num_descriptors of the plan
  descIdx, mapIdx, bytesRem, pageRem, busAddr,  \* locals of fill_addresses
  chain          \* the descriptors the device sees

memory == <<desc, size>>
locals == <<num, descIdx, mapIdx, bytesRem, pageRem, busAddr>>
vars == <<pc, answer, req, memory, locals, chain>>

Blank == [pos |-> 0, len |-> 0, irq |-> FALSE]
Stale == [pos |-> -1, len |-> 1, irq |-> TRUE]   \* left by an earlier request
NoRequest == [kind |-> "none"]

\* desc_capacity
Capacity == Cardinality(DOMAIN desc)

Init ==
  /\ pc = "idle" /\ answer = "none" /\ req = NoRequest
  /\ desc = <<>> /\ size = 0 /\ chain = <<>>
  /\ num = 0 /\ descIdx = 0 /\ mapIdx = 0 /\ bytesRem = 0 /\ pageRem = 0 /\ busAddr = 0
-----------------------------------------------------------------------------
(* The mapping                                                             *)

NumRanges(m) == Len(m.bounds) - 1
Ranges(m) == 1 .. NumRanges(m)

Start(m, i) == m.bounds[i]
End(m, i) == m.bounds[i + 1]
RangeSize(m, i) == End(m, i) - Start(m, i)
MapSize(m) == m.bounds[Len(m.bounds)]

\* sg_dma_address knows the offset of the first entry; the macro adds it again.
RangeAddr(m, i) == Start(m, i) + (IF i = 1 THEN m.off ELSE 0)

\* Euclid's algorithm
Gcd[ab \in Nat \X Nat] ==
  IF ab[2] = 0 THEN ab[1] ELSE Gcd[<<ab[2], ab[1] % ab[2]>>]

GcdPageSizes(m) ==
  LET res[i \in Ranges(m)] ==
        IF i = 1 THEN RangeSize(m, 1)
        ELSE IF RangeSize(m, i) = RangeSize(m, i - 1) THEN res[i - 1]
        ELSE Gcd[<<res[i - 1], RangeSize(m, i)>>]
  IN  res[NumRanges(m)]
-----------------------------------------------------------------------------
(* Validation and plan                                                     *)

DivRoundUp(n, d) == (n + d - 1) \div d

IsStream(r) == r.mode = "stream"

\* tpce_dma_has_terminating_descriptor, as a number
Terminators(r) == IF IsStream(r) THEN 0 ELSE 1

\* Mutant: no spare descriptor for a buffer that begins inside a page.
NeededWithoutSpare(r) ==
  IF r.perDesc > 0 THEN r.total \div r.perDesc ELSE DivRoundUp(r.total, Page)

\* tpce_max_descriptors_needed
MaxDescriptorsNeeded(r) ==
  (IF r.perDesc > 0 THEN r.total \div r.perDesc ELSE DivRoundUp(r.total, Page))
    + Terminators(r)

\* tpce_validate_dma_params, for the fields of r
ValidParams(r) ==
  /\ r.offset <= MapSize(r.m)
  /\ (r.total + r.offset) % Modulus <= MapSize(r.m)
  /\ r.perDesc > 0 => r.perDesc <= MaxTransfer /\ GcdPageSizes(r.m) % r.perDesc = 0
  /\ r.interval > 0 =>
       (IF r.perDesc > 0 THEN r.total \div r.perDesc ELSE NumRanges(r.m)) % r.interval = 0

\* The first range that map_offset does not skip, and what it leaves of this one.
StartingIdx(r) ==
  CHOOSE i \in 1 .. NumRanges(r.m) + 1 :
    /\ \A j \in 1 .. i - 1 : End(r.m, j) <= r.offset
    /\ i \in Ranges(r.m) => r.offset < End(r.m, i)

\* Mutant: what was skipped is not taken off.
StartingOffsetOfAll(r) == r.offset

StartingOffset(r) == r.offset - Start(r.m, StartingIdx(r))

\* The bytes of the transfer in range i.
PageBytes(r, i) ==
  Max({0, Min({End(r.m, i), r.offset + r.total}) - Max({Start(r.m, i), r.offset})})

\* num_desc after the first i ranges
Planned(r) ==
  LET sum[i \in 0 .. NumRanges(r.m)] ==
        IF i = 0 THEN 0 ELSE sum[i - 1] + DivRoundUp(PageBytes(r, i), MaxTransfer)
  IN  sum

\* num_descriptors of create_descriptor_plan
NumDescriptors(r) ==
  IF r.perDesc > 0 THEN r.total \div r.perDesc ELSE Planned(r)[NumRanges(r.m)]
-----------------------------------------------------------------------------
(* Requests                                                                *)

Params(kind, m, o, t, b, mode, n) ==
  [kind |-> kind, m |-> m, offset |-> o, total |-> t, perDesc |-> b, mode |-> mode,
   interval |-> n, list |-> <<>>]

Arrives(r) ==
  /\ req' = r
  /\ pc' = "alloc"
  /\ UNCHANGED <<answer, memory, locals, chain>>

Request ==
  /\ pc = "idle"
  /\ \E m \in Mappings, o \in 0 .. MaxBytes, t \in 0 .. MaxBytes, b \in PerDescs,
        mode \in {"default", "stream"}, n \in Intervals :
       Arrives(Params("params", m, o, t, b, mode, n))

\* tpce_fill_default_dma_params
DefaultParams(m) == Params("filled", m, 0, MapSize(m), 0, "default", 0)

\* tpce_fill_streaming_dma_params
StreamingParams(m) ==
  Params("filled", m, 0, MapSize(m), StreamDesc, "stream", StreamInterval)

RequestFilled ==
  /\ pc = "idle"
  /\ \E m \in Mappings : Arrives(DefaultParams(m)) \/ Arrives(StreamingParams(m))

RequestWithDescriptors ==
  /\ pc = "idle"
  /\ \E m \in Mappings, list \in UserLists, mode \in {"default", "stream"} :
       Arrives([Params("user", m, 0, 0, 0, mode, 0) EXCEPT !.list = list])
-----------------------------------------------------------------------------
(* Memory                                                                  *)

\* The size in bytes is a u32.
DataSize(r) == (IF r.kind = "user" THEN Len(r.list) ELSE MaxDescriptorsNeeded(r)) % SizeMod
AllocSize(r) == (DataSize(r) + Terminators(r)) % SizeMod

Refused(why) == pc' = "refused" /\ answer' = why

\* At most INT_MAX bytes
LegalSizes == 1 .. SizeMod \div 2 - 1

AllocRefused ==
  /\ pc = "alloc" /\ AllocSize(req) \notin LegalSizes
  /\ Refused("size")
  /\ UNCHANGED <<req, memory, locals, chain>>

AllocReuse ==
  /\ pc = "alloc" /\ AllocSize(req) \in LegalSizes /\ AllocSize(req) <= Capacity
  /\ size' = AllocSize(req)
  /\ pc' = "check"
  /\ UNCHANGED <<answer, req, desc, locals, chain>>

\* The old memory is freed before the new one is asked for.
AllocNew ==
  /\ pc = "alloc" /\ AllocSize(req) \in LegalSizes /\ AllocSize(req) > Capacity
  /\ \/ /\ desc' = [k \in 0 .. AllocSize(req) - 1 |-> Blank]
        /\ size' = AllocSize(req)
        /\ pc' = "check" /\ UNCHANGED answer
     \/ /\ desc' = <<>> /\ size' = 0
        /\ Refused("memory")
  /\ UNCHANGED <<req, locals, chain>>
-----------------------------------------------------------------------------
(* Descriptors from user space                                             *)

\* dma_range_in_sgt
InRange(m, d) ==
  /\ d.len > 0
  /\ \E i \in Ranges(m) : d.pos >= Start(m, i) /\ d.pos + d.len <= End(m, i)

\* Refused for a bad range, or because the copy itself failed; what a part of a copy
\* left in the memory is not told apart from the whole.
CopyDescriptors ==
  /\ pc = "check" /\ req.kind = "user"
  /\ desc' = [k \in DOMAIN desc |-> IF k < Len(req.list) THEN req.list[k + 1] ELSE desc[k]]
  /\ \/ /\ \A k \in DOMAIN req.list : InRange(req.m, req.list[k])
        /\ num' = Len(req.list)
        /\ pc' = "start" /\ UNCHANGED answer
     \/ Refused("invalid") /\ UNCHANGED num
  /\ UNCHANGED <<req, size, descIdx, mapIdx, bytesRem, pageRem, busAddr, chain>>
-----------------------------------------------------------------------------
(* Descriptors made by the driver                                          *)

Refuse ==
  /\ pc = "check" /\ req.kind \in {"params", "filled"}
  /\ ~ValidParams(req) \/ req.kind = "params"   \* for a field left out here
  /\ Refused("invalid")
  /\ UNCHANGED <<req, memory, locals, chain>>

\* Mutant: the number is not compared with the memory.
PlanWithoutCheck ==
  /\ pc = "check" /\ req.kind \in {"params", "filled"} /\ ValidParams(req)
  /\ num' = NumDescriptors(req)
  /\ desc' = [k \in DOMAIN desc |-> IF k < num' THEN Blank ELSE desc[k]]
  /\ descIdx' = 0 /\ mapIdx' = StartingIdx(req) /\ bytesRem' = req.total
  /\ pc' = IF num' = 0 THEN "copy" ELSE "page"
  /\ UNCHANGED <<answer, req, size, pageRem, busAddr, chain>>

PlanDescriptors ==
  /\ pc = "check" /\ req.kind \in {"params", "filled"} /\ ValidParams(req)
  /\ num' = NumDescriptors(req)
  /\ \/ /\ num' > DataSize(req)
        /\ Refused("space")
        /\ UNCHANGED <<desc, descIdx, mapIdx, bytesRem>>
     \/ /\ num' <= DataSize(req)
        /\ desc' = [k \in DOMAIN desc |-> IF k < num' THEN Blank ELSE desc[k]]
        /\ descIdx' = 0 /\ mapIdx' = StartingIdx(req) /\ bytesRem' = req.total
        /\ pc' = IF num' = 0 THEN "copy" ELSE "page"
        /\ UNCHANGED answer
  /\ UNCHANGED <<req, size, pageRem, busAddr, chain>>

\* Next round of the outer loop, or its end.  The lengths are wrong if the loop comes
\* to a range the mapping does not have: what it reads there is undefined.
FillPage ==
  /\ pc = "page"
  /\ \/ /\ descIdx < num /\ bytesRem > 0 /\ mapIdx \in Ranges(req.m)
        /\ LET off == IF mapIdx = StartingIdx(req) THEN StartingOffset(req) ELSE 0
           IN  /\ pageRem' = Min({RangeSize(req.m, mapIdx) - off, bytesRem})
               /\ busAddr' = RangeAddr(req.m, mapIdx) + off
        /\ pc' = "desc"
     \/ /\ descIdx < num /\ bytesRem > 0 /\ mapIdx \notin Ranges(req.m)
        /\ pc' = "astray"
        /\ UNCHANGED <<pageRem, busAddr>>
     \/ /\ descIdx >= num \/ bytesRem = 0
        /\ pc' = "flags"
        /\ UNCHANGED <<pageRem, busAddr>>
  /\ UNCHANGED <<answer, req, memory, num, descIdx, mapIdx, bytesRem, chain>>

TransferLength == IF req.perDesc > 0 THEN req.perDesc ELSE Min({pageRem, MaxTransfer})

\* Mutant: the position in the buffer is not advanced.
FillInPlace ==
  /\ pc = "desc" /\ descIdx \in DOMAIN desc
  /\ desc' = [desc EXCEPT ![descIdx] =
                [pos |-> busAddr, len |-> TransferLength, irq |-> FALSE]]
  /\ pageRem' = (pageRem - TransferLength) % Modulus
  /\ bytesRem' = (bytesRem - TransferLength) % Modulus
  /\ descIdx' = descIdx + 1
  /\ \/ pageRem' > 0 /\ UNCHANGED <<pc, mapIdx>>
     \/ pageRem' = 0 /\ pc' = "page" /\ mapIdx' = mapIdx + 1
  /\ UNCHANGED <<answer, req, size, num, busAddr, chain>>

\* One round of the inner loop.
FillDescriptor ==
  /\ pc = "desc" /\ descIdx \in DOMAIN desc
  /\ desc' = [desc EXCEPT ![descIdx] =
                [pos |-> busAddr, len |-> TransferLength, irq |-> FALSE]]
  /\ busAddr' = busAddr + TransferLength
  /\ pageRem' = (pageRem - TransferLength) % Modulus
  /\ bytesRem' = (bytesRem - TransferLength) % Modulus
  /\ descIdx' = descIdx + 1
  /\ \/ pageRem' > 0 /\ UNCHANGED <<pc, mapIdx>>
     \/ pageRem' = 0 /\ pc' = "page" /\ mapIdx' = mapIdx + 1
  /\ UNCHANGED <<answer, req, size, num, chain>>

\* The assertion only warns: a round past the end of the memory writes there.
WriteOutside ==
  /\ pc = "desc" /\ descIdx \notin DOMAIN desc
  /\ pc' = "astray"
  /\ UNCHANGED <<answer, req, memory, locals, chain>>

\* Mutant: the last descriptor is that of the estimate.
RaisesIrqAtEnd(r, k) ==
  IF IsStream(r) THEN r.interval > 0 /\ k % r.interval = 0 ELSE k = num

\* Which descriptors raise an interrupt.
RaisesIrq(r, k) ==
  IF IsStream(r) THEN r.interval > 0 /\ k % r.interval = r.interval - 1 ELSE k = num - 1

FillControlFlags ==
  /\ pc = "flags"
  /\ desc' = [k \in DOMAIN desc |->
                IF k < num THEN [desc[k] EXCEPT !.irq = RaisesIrq(req, k)] ELSE desc[k]]
  /\ pc' = "copy"
  /\ UNCHANGED <<answer, req, size, locals, chain>>

\* Mutant: the estimate remains.
KeepEstimate ==
  /\ pc = "copy"
  /\ pc' = "start"
  /\ UNCHANGED <<answer, req, memory, locals, chain>>

\* desc_size is that of the estimate until now.
SetDescSize ==
  /\ pc = "copy"
  /\ size' = num + Terminators(req)
  /\ pc' = "start"
  /\ UNCHANGED <<answer, req, desc, locals, chain>>
-----------------------------------------------------------------------------
(* Start and end of the transfer                                           *)

\* Copy to the coherent buffer, then build_descriptor_links: a ring, or a list
\* that ends in a zeroed descriptor.  The device stops where own is FALSE.
Links ==
  [k \in 0 .. size - 1 |->
     IF k = size - 1 /\ ~IsStream(req)
     THEN [data |-> Blank, own |-> FALSE, next |-> 0]
     ELSE [data |-> desc[k], own |-> TRUE, next |-> IF k = size - 1 THEN 0 ELSE k + 1]]

StartChain ==
  /\ pc = "start" /\ size \in 1 .. Capacity
  /\ chain' = Links
  /\ pc' = "running"
  /\ UNCHANGED <<answer, req, memory, locals>>

\* A ring of no descriptors is closed in front of the memory.
LinkOutside ==
  /\ pc = "start" /\ size = 0
  /\ pc' = "astray"
  /\ UNCHANGED <<answer, req, memory, locals, chain>>

\* What follows a step outside is undefined, and not pursued.
GoneAstray == pc = "astray" /\ UNCHANGED vars

\* reset_dma_info after the transfer or a start that failed; a request that is
\* refused leaves desc_size behind.
Finish ==
  /\ pc \in {"start", "running", "refused"}
  /\ size' = IF pc = "refused" THEN size ELSE 0
  /\ desc' = [k \in DOMAIN desc |-> Stale]
  /\ pc' = "idle" /\ answer' = "none" /\ req' = NoRequest /\ chain' = <<>>
  /\ num' = 0 /\ descIdx' = 0 /\ mapIdx' = 0 /\ bytesRem' = 0 /\ pageRem' = 0 /\ busAddr' = 0

Next == \/ Request \/ RequestFilled \/ RequestWithDescriptors
        \/ AllocRefused \/ AllocReuse \/ AllocNew
        \/ CopyDescriptors \/ Refuse \/ PlanDescriptors
        \/ FillPage \/ FillDescriptor \/ WriteOutside
        \/ FillControlFlags \/ SetDescSize
        \/ StartChain \/ LinkOutside \/ GoneAstray \/ Finish

Spec == Init /\ [][Next]_vars
-----------------------------------------------------------------------------
(* Properties                                                              *)

Data == 0 .. num - 1
Generated == pc = "running" /\ req.kind # "user"

\* Lengths that do not wrap around, and that bytes_per_descriptor divides.  Validation
\* asks for neither: with other parameters it accepts, WritesInBounds and CoversRequest
\* are violated.
LengthsFit(r) ==
  r.kind = "params" =>
    /\ r.offset + r.total < Modulus
    /\ r.perDesc > 0 => r.total % r.perDesc = 0 /\ r.offset % r.perDesc = 0

\* Every variable has its type.
TypeOK ==
  /\ pc \in {"idle", "alloc", "check", "page", "desc", "flags", "copy", "start",
             "running", "refused", "astray"}
  /\ answer \in {"none", "size", "memory", "invalid", "space"}
  /\ Capacity \in Nat /\ DOMAIN desc = 0 .. Capacity - 1 /\ size \in 0 .. SizeMod - 1
  /\ \A k \in DOMAIN desc :
       desc[k] \in [pos : Nat \cup {-1}, len : Nat, irq : BOOLEAN]
  /\ \A v \in {num, descIdx, mapIdx, busAddr} : v \in Nat
  /\ bytesRem \in 0 .. Modulus - 1 /\ pageRem \in 0 .. Modulus - 1
  /\ \A k \in DOMAIN chain : chain[k].own \in BOOLEAN /\ chain[k].next \in DOMAIN chain

\* The generator stays inside the plan, the ranges and the memory allocated for an
\* estimate (the assertion at dma_descriptors.c:284), and the links inside the memory,
\* when the lengths fit; no plan is larger than the memory, whatever they are.
WritesInBounds ==
  /\ LengthsFit(req) =>
       /\ pc # "astray"
       /\ pc = "desc" => descIdx < num
       /\ pc = "start" => size > 0
  /\ pc \in {"desc", "start"} => num <= Capacity
  /\ pc = "start" => size <= Capacity

\* The descriptors of a transfer are the requested bytes of the buffer, in order and
\* without a gap, each in one range, if the lengths fit and the buffer begins on a page.
\* A list from user space, too, stays in the ranges of the mapping.
CoversRequest ==
  /\ Generated /\ LengthsFit(req) /\ req.m.off = 0 /\ num > 0 =>
       /\ chain[0].data.pos = req.offset
       /\ \A k \in Data \ {0} :
            chain[k].data.pos = chain[k - 1].data.pos + chain[k - 1].data.len
       /\ chain[num - 1].data.pos + chain[num - 1].data.len = req.offset + req.total
  /\ pc = "running" /\ (req.kind = "user" \/ (LengthsFit(req) /\ req.m.off = 0)) =>
       \A k \in Data : \E i \in Ranges(req.m) :
         /\ chain[k].data.pos >= Start(req.m, i)
         /\ chain[k].data.pos + chain[k].data.len <= End(req.m, i)

\* The k-th descriptor the device fetches.
Fetched[k \in Nat] == IF k = 0 THEN 0 ELSE chain[Fetched[k - 1]].next

\* The device fetches each descriptor of this request and none left in the memory by an
\* earlier one, and then stops, or begins again if it is a stream.
ChainIsClosed ==
  pc = "running" =>
    /\ {Fetched[k] : k \in Data} = Data
    /\ \A k \in Data : chain[k].own /\ chain[k].data # Stale
    /\ IF IsStream(req) THEN Fetched[num] = 0 ELSE ~chain[Fetched[num]].own

Irqs == {k \in Data : chain[k].data.irq}

\* A one-shot with anything to transfer raises an interrupt at its end, and none before
\* if no interval was asked for: the first interrupt completes it (dma.c:839-846).
\* A stream with an interval and a fixed length raises one at equal distances all
\* around the ring, as StreamRing assumes.
InterruptsComplete ==
  Generated =>
    /\ ~IsStream(req) /\ num > 0 => num - 1 \in Irqs
    /\ ~IsStream(req) /\ num > 0 /\ req.interval = 0 => Irqs = {num - 1}
    /\ IsStream(req) /\ req.perDesc > 0 /\ req.interval > 0 =>
         /\ num % req.interval = 0
         /\ Irqs = {k \in Data : (k + 1) % req.interval = 0}

\* What tpce_public.h:310 says of interrupt_interval, for both modes: every n-th
\* descriptor, and for 0 the last.  No run checks it, for it is violated: a one-shot
\* ignores its interval, and a stream whose interval is 0 raises no interrupt.
IntervalAsDocumented ==
  Generated =>
    Irqs = {k \in Data : IF req.interval = 0 THEN k = num - 1
                         ELSE (k + 1) % req.interval = 0}

\* What validation accepts has enough memory in the estimate if it is a one-shot, unless
\* its size wraps around; the parameters the code fills in by itself pass its own
\* validation, for a stream if the buffer consists of whole pages.
ReasonableIsAccepted ==
  /\ answer = "space" => IsStream(req) \/ MaxDescriptorsNeeded(req) + 1 >= SizeMod
  /\ answer = "invalid" /\ req.kind = "filled" =>
       IsStream(req) /\ \E i \in Ranges(req.m) : RangeSize(req.m, i) % Page # 0
=============================================================================
