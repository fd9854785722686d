-------------------------- MODULE DmaDescriptorsProofs --------------------------
(***************************************************************************)
(* Proofs about DmaDescriptors, for any mappings, requests and sizes.      *)
(***************************************************************************)
EXTENDS DmaDescriptors, FiniteSetTheorems, TLAPS

\* What the three ways to make a request have in common, and what each is known for.
IsRequest(r) ==
  /\ r.kind \in {"params", "filled", "user"} /\ r.mode \in {"default", "stream"}
  /\ r.m \in Mappings /\ r.list \in UserLists \cup {<<>>}
  /\ r.offset \in 0 .. Modulus - 1 /\ r.total \in 0 .. Modulus - 1
  /\ r.perDesc \in Nat /\ r.interval \in Nat
  /\ r.kind = "filled" =>
       /\ r.offset = 0 /\ r.total = MapSize(r.m)
       /\ r.perDesc = (IF IsStream(r) THEN StreamDesc ELSE 0)
       /\ r.interval = (IF IsStream(r) THEN StreamInterval ELSE 0)
  /\ r.kind = "user" => r.list \in UserLists

\* The number of descriptors is known.
Prepared == {"page", "desc", "flags", "copy", "start", "running"}

RequestOK ==
  /\ pc # "idle" => IsRequest(req)
  /\ pc \in {"page", "desc", "flags", "copy"} => req.kind # "user"

\* The memory is as large as the estimate and a terminator, and so is the plan at most.
MemoryOK ==
  /\ pc \in Prepared \cup {"check"} => AllocSize(req) \in LegalSizes /\ AllocSize(req) <= Capacity
  /\ pc = "check" => size = AllocSize(req)
  /\ pc \in {"start", "running"} => size = num + Terminators(req)
  /\ pc = "running" => size # 0

PlanOK ==
  pc \in Prepared =>
    /\ num <= DataSize(req)
    /\ IF req.kind = "user" THEN num = Len(req.list)
       ELSE num = NumDescriptors(req) /\ ValidParams(req)

\* No descriptor of the plan is an old one.
FreshOK == pc \in Prepared => \A k \in Data : desc[k].pos \in Nat

FlagsOK ==
  pc \in {"copy", "start", "running"} /\ req.kind # "user" =>
    \A k \in Data : desc[k].irq = RaisesIrq(req, k)

ChainOK == pc = "running" => chain = Links

Inv == TypeOK /\ RequestOK /\ MemoryOK /\ PlanOK /\ FreshOK /\ FlagsOK /\ ChainOK

\* How far the generator has come in the buffer
Reached == req.offset + req.total - bytesRem

Covered ==
  /\ descIdx <= num /\ bytesRem <= req.total
  /\ req.perDesc > 0 => bytesRem = req.perDesc * (num - descIdx)

\* Between two ranges
PageOK ==
  pc = "page" =>
    /\ Covered
    /\ mapIdx \in StartingIdx(req) .. NumRanges(req.m) + 1
    /\ IF mapIdx = StartingIdx(req) THEN bytesRem = req.total
       ELSE IF bytesRem > 0 THEN Reached = Start(req.m, mapIdx)
       ELSE Reached <= Start(req.m, mapIdx)
    /\ req.perDesc = 0 => descIdx = Planned(req)[mapIdx - 1]

\* Inside a range
DescOK ==
  pc = "desc" =>
    /\ Covered
    /\ mapIdx \in StartingIdx(req) .. NumRanges(req.m)
    /\ Reached >= Start(req.m, mapIdx) /\ pageRem > 0
    /\ Reached + pageRem \in {End(req.m, mapIdx), req.offset + req.total}
    /\ Reached + pageRem <= End(req.m, mapIdx) /\ pageRem <= bytesRem
    /\ busAddr = Reached + (IF mapIdx = 1 THEN req.m.off ELSE 0)
    /\ req.perDesc = 0 =>
         descIdx + DivRoundUp(pageRem, MaxTransfer) = Planned(req)[mapIdx]

\* Behind the last range
EndOK ==
  /\ pc \in {"flags", "copy", "start", "running"} /\ req.kind # "user" /\ num > 0 =>
       descIdx = num /\ bytesRem = 0
  /\ pc # "astray"

FillInv == PageOK /\ DescOK /\ EndOK

\* The generator keeps to this while the lengths fit.
GeneratorOK == LengthsFit(req) => FillInv

\* The descriptors made so far cover the buffer from the offset to what is reached.
CoverOK ==
  pc \in Prepared /\ req.kind # "user" /\ req.m.off = 0 /\ num > 0 =>
    /\ descIdx = 0 => bytesRem = req.total
    /\ descIdx > 0 =>
         /\ desc[0].pos = req.offset
         /\ desc[descIdx - 1].pos + desc[descIdx - 1].len = Reached
    /\ \A k \in 1 .. descIdx - 1 : desc[k].pos = desc[k - 1].pos + desc[k - 1].len
    /\ \A k \in 0 .. descIdx - 1 : \E i \in Ranges(req.m) :
         desc[k].pos >= Start(req.m, i) /\ desc[k].pos + desc[k].len <= End(req.m, i)

UserOK ==
  pc \in {"start", "running"} /\ req.kind = "user" =>
    \A k \in Data : InRange(req.m, desc[k])

\* A request that has been refused is still known.
AnswerOK == (answer # "none" => pc = "refused") /\ ReasonableIsAccepted
-----------------------------------------------------------------------------
(* Induction over numbers, and functions defined by recursion over them     *)

LEMMA Least ==
  ASSUME NEW T, T \subseteq Nat, T # {}
  PROVE  \E x \in T : \A y \in T : x <= y
<1> DEFINE R == OpToRel(<, Nat)
<1>1. IsWellFoundedOn(R, Nat)
  BY NatLessThanWellFounded
<1>2. R = {ss \in Nat \X Nat : ss[1] < ss[2]}
  BY DEF OpToRel
<1> HIDE DEF R
<1>3. \A x, y \in Nat : x < y => <<x, y>> \in R
  BY <1>2
<1>4. PICK x \in T : \A y \in T : <<y, x>> \notin R
  BY <1>1, WFMin
<1>5. ASSUME NEW y \in T  PROVE  x <= y
  <2>1. <<y, x>> \notin R
    BY <1>4
  <2>2. x \in Nat /\ y \in Nat
    OBVIOUS
  <2> QED BY <2>1, <2>2, <1>3
<1> QED BY <1>5

\* Induction over 0 .. n
LEMMA UpTo ==
  ASSUME NEW n \in Nat, NEW S, 0 \in S, \A i \in 0 .. n - 1 : i \in S => i + 1 \in S
  PROVE  0 .. n \subseteq S
<1> DEFINE T == (0 .. n) \ S
<1> SUFFICES ASSUME T # {}  PROVE FALSE
  OBVIOUS
<1>1. T \subseteq Nat
  OBVIOUS
<1> HIDE DEF T
<1>2. PICK x \in T : \A y \in T : x <= y
  BY <1>1, Least
<1>3. x \in 0 .. n /\ x \notin S
  BY DEF T
<1>4. x - 1 \in 0 .. n - 1 /\ x - 1 \in 0 .. n /\ ~(x <= x - 1)
  BY <1>3
<1>5. x - 1 \in S
  BY <1>2, <1>4 DEF T
<1>6. x - 1 + 1 = x
  BY <1>3
<1> QED BY <1>3, <1>4, <1>5, <1>6

\* What is iterated n times has a result at every step.
LEMMA Iteration ==
  ASSUME NEW n \in Nat, NEW h \in [1 .. n -> [Nat -> Nat]]
  PROVE  \E s \in [0 .. n -> Nat] : s[0] = 0 /\ \A i \in 1 .. n : s[i] = h[i][s[i - 1]]
<1> DEFINE Iter(k, s) == /\ s \in [0 .. k -> Nat] /\ s[0] = 0
                         /\ \A i \in 1 .. k : s[i] = h[i][s[i - 1]]
           S == {k \in 0 .. n : \E s : Iter(k, s)}
<1>1. 0 \in S
  <2> DEFINE s == [i \in 0 .. 0 |-> 0]
  <2>1. Iter(0, s)
    OBVIOUS
  <2> HIDE DEF s, Iter
  <2> QED BY <2>1
<1>2. ASSUME NEW k \in 0 .. n - 1, k \in S  PROVE k + 1 \in S
  <2>1. PICK s : Iter(k, s)
    BY <1>2
  <2> DEFINE t == [i \in 0 .. k + 1 |-> IF i = k + 1 THEN h[k + 1][s[k]] ELSE s[i]]
  <2>2. k + 1 \in 1 .. n /\ k \in 0 .. k
    OBVIOUS
  <2>3. h[k + 1][s[k]] \in Nat
    <3>1. s[k] \in Nat  BY <2>1, <2>2
    <3>2. h[k + 1] \in [Nat -> Nat]  BY <2>2
    <3> QED BY <3>1, <3>2
  <2>4. t \in [0 .. k + 1 -> Nat]
    <3>1. ASSUME NEW i \in 0 .. k + 1, i # k + 1  PROVE s[i] \in Nat
      <4>1. s \in [0 .. k -> Nat]
        BY <2>1
      <4>2. i \in 0 .. k
        BY <3>1
      <4> QED BY <4>1, <4>2
    <3> QED BY <2>3, <3>1
  <2>5. t[0] = 0
    BY <2>1
  <2>6. \A i \in 1 .. k + 1 : t[i] = h[i][t[i - 1]]
    <3> TAKE i \in 1 .. k + 1
    <3>1. CASE i = k + 1
      <4>1. t[i] = h[k + 1][s[k]] /\ t[i - 1] = s[k]
        BY <3>1
      <4> QED BY <4>1, <3>1
    <3>2. CASE i # k + 1
      <4>1. i \in 1 .. k
        BY <3>2
      <4>2. i - 1 \in 0 .. k + 1 /\ i - 1 # k + 1
        BY <4>1
      <4>3. t[i] = s[i] /\ t[i - 1] = s[i - 1]
        BY <3>2, <4>2
      <4>4. s[i] = h[i][s[i - 1]]
        BY <4>1, <2>1
      <4> HIDE DEF t
      <4> QED BY <4>3, <4>4
    <3> QED BY <3>1, <3>2
  <2>7. Iter(k + 1, t)
    BY <2>4, <2>5, <2>6
  <2>8. k + 1 \in 0 .. n
    OBVIOUS
  <2> HIDE DEF t, Iter
  <2> QED BY <2>7, <2>8
<1> HIDE DEF S
<1>3. 0 .. n \subseteq S
  BY <1>1, <1>2, UpTo
<1>4. n \in S
  BY <1>3
<1> QED BY <1>4 DEF S

-----------------------------------------------------------------------------
(* The mapping and the plan                                                 *)

LEMMA MaxOfTwo ==
  ASSUME NEW a \in Int, NEW b \in Int
  PROVE  Max({a, b}) = IF a >= b THEN a ELSE b
<1> DEFINE m == IF a >= b THEN a ELSE b
<1>1. m \in {a, b} /\ \A y \in {a, b} : m >= y
  OBVIOUS
<1>2. \A x \in {a, b} : (\A y \in {a, b} : x >= y) => x = m
  OBVIOUS
<1> HIDE DEF m
<1>3. Max({a, b}) = m
  BY <1>1, <1>2 DEF Max
<1> QED BY <1>3 DEF m

LEMMA MinOfTwo ==
  ASSUME NEW a \in Int, NEW b \in Int
  PROVE  Min({a, b}) = IF a <= b THEN a ELSE b
<1> DEFINE m == IF a <= b THEN a ELSE b
<1>1. m \in {a, b} /\ \A y \in {a, b} : m <= y
  OBVIOUS
<1>2. \A x \in {a, b} : (\A y \in {a, b} : x <= y) => x = m
  OBVIOUS
<1> HIDE DEF m
<1>3. Min({a, b}) = m
  BY <1>1, <1>2 DEF Min
<1> QED BY <1>3 DEF m

\* Ranges follow one another without a gap, from 0 to the size of the mapping.
LEMMA MappingFacts ==
  ASSUME NEW m \in Mappings
  PROVE  /\ NumRanges(m) \in Nat \ {0} /\ m.off \in Nat
         /\ MapSize(m) \in Nat /\ MapSize(m) < Modulus
         /\ \A i \in 1 .. NumRanges(m) + 1 : Start(m, i) \in Nat
         /\ \A i \in Ranges(m) :
              End(m, i) \in Nat /\ End(m, i) = Start(m, i + 1) /\ Start(m, i) < End(m, i)
         /\ \A i, j \in 1 .. NumRanges(m) + 1 : i < j => Start(m, i) < Start(m, j)
         /\ Start(m, 1) = 0 /\ Start(m, NumRanges(m) + 1) = MapSize(m)
<1>1. /\ m.bounds \in Seq(Nat) /\ Len(m.bounds) >= 2 /\ m.bounds[1] = 0
      /\ \A i, j \in DOMAIN m.bounds : i < j => m.bounds[i] < m.bounds[j]
      /\ m.bounds[Len(m.bounds)] < Modulus
      /\ m.off \in 0 .. Page - 1
  BY DescriptorsAssumption
<1>2. m.off \in Nat /\ Page \in Nat
  BY <1>1, DescriptorsAssumption
<1> DEFINE b == m.bounds
<1>3. Len(b) \in Nat /\ DOMAIN b = 1 .. Len(b) /\ \A i \in 1 .. Len(b) : b[i] \in Nat
  BY <1>1
<1>4. NumRanges(m) \in Nat \ {0} /\ NumRanges(m) + 1 = Len(b)
  BY <1>1, <1>3 DEF NumRanges
<1>5. \A i, j \in 1 .. Len(b) : i < j => b[i] < b[j]
  BY <1>1, <1>3
<1>6. ASSUME NEW i \in 1 .. NumRanges(m)
      PROVE  b[i + 1] \in Nat /\ b[i] < b[i + 1]
  <2>1. i \in 1 .. Len(b) /\ i + 1 \in 1 .. Len(b) /\ i < i + 1
    BY <1>4
  <2> QED BY <2>1, <1>3, <1>5
<1>7. Len(b) \in 1 .. Len(b)
  BY <1>1, <1>3
<1> QED
  BY <1>1, <1>2, <1>3, <1>4, <1>5, <1>6, <1>7 DEF Start, End, MapSize, Ranges

\* The range that map_offset leads into; NumRanges + 1 if it is the size.
LEMMA StartingFacts ==
  ASSUME NEW r, r.m \in Mappings, r.offset \in Nat
  PROVE  /\ StartingIdx(r) \in 1 .. NumRanges(r.m) + 1
         /\ \A j \in Ranges(r.m) : j < StartingIdx(r) => End(r.m, j) <= r.offset
         /\ StartingIdx(r) \in Ranges(r.m) => r.offset < End(r.m, StartingIdx(r))
         /\ Start(r.m, StartingIdx(r)) <= r.offset
         /\ StartingOffset(r) \in Nat
<1> DEFINE n == NumRanges(r.m)
           T == {i \in 1 .. n + 1 : i \in Ranges(r.m) => r.offset < End(r.m, i)}
           Right(i) == /\ \A j \in 1 .. i - 1 : End(r.m, j) <= r.offset
                       /\ i \in Ranges(r.m) => r.offset < End(r.m, i)
<1>1. n \in Nat \ {0} /\ Ranges(r.m) = 1 .. n
  BY MappingFacts DEF Ranges
<1>m. /\ \A i \in 1 .. n + 1 : Start(r.m, i) \in Nat
      /\ \A i \in 1 .. n : End(r.m, i) \in Nat /\ End(r.m, i) = Start(r.m, i + 1)
      /\ Start(r.m, 1) = 0
  BY MappingFacts DEF Ranges
<1> HIDE DEF n
<1>2. T \subseteq Nat /\ n + 1 \in T
  BY <1>1
<1>3. PICK x \in T : \A y \in T : x <= y
  BY <1>2, Least
<1>4. x \in 1 .. n + 1
  OBVIOUS
<1>5. ASSUME NEW j \in 1 .. x - 1  PROVE End(r.m, j) <= r.offset
  <2>1. j \in 1 .. n /\ ~(x <= j)
    BY <1>1, <1>4
  <2>2. j \notin T
    BY <2>1, <1>3
  <2> QED BY <2>1, <2>2, <1>1, <1>m
<1>6. Right(x)
  BY <1>5
<1> DEFINE s == StartingIdx(r)
<1>7. s \in 1 .. n + 1 /\ Right(s)
  <2> HIDE DEF T, Right
  <2>1. s = CHOOSE i \in 1 .. n + 1 : Right(i)
    BY DEF StartingIdx, Right, n
  <2> HIDE DEF s
  <2> QED BY <2>1, <1>4, <1>6
<1> HIDE DEF s
<1>8. ASSUME NEW j \in Ranges(r.m), j < s  PROVE End(r.m, j) <= r.offset
  <2>1. j \in 1 .. s - 1
    BY <1>8, <1>1, <1>7
  <2> QED BY <2>1, <1>7
<1>9. Start(r.m, s) \in Nat /\ Start(r.m, s) <= r.offset
  <2>1. CASE s = 1
    BY <2>1, <1>m, <1>1
  <2>2. CASE s # 1
    <3>1. s - 1 \in 1 .. n /\ s - 1 \in 1 .. s - 1 /\ s - 1 + 1 = s
      BY <2>2, <1>1, <1>7
    <3>2. End(r.m, s - 1) <= r.offset
      BY <3>1, <1>7
    <3>3. End(r.m, s - 1) = Start(r.m, s) /\ Start(r.m, s) \in Nat
      BY <3>1, <1>m, <1>7
    <3> QED BY <3>2, <3>3
  <2> QED BY <2>1, <2>2
<1>10. r.offset - Start(r.m, s) \in Nat
  BY <1>9
<1> QED BY <1>7, <1>8, <1>9, <1>10 DEF StartingOffset, n, s

LEMMA DivRoundUpFacts ==
  ASSUME NEW n \in Nat, NEW d \in Nat \ {0}
  PROVE  /\ DivRoundUp(n, d) \in Nat
         /\ (DivRoundUp(n, d) = 0) <=> (n = 0)
         /\ n > d => DivRoundUp(n, d) = DivRoundUp(n - d, d) + 1
         /\ n \in 1 .. d => DivRoundUp(n, d) = 1
<1>1. PICK q \in Int, x \in Int : n + d - 1 = q * d + x /\ 0 <= x /\ x < d /\ q = (n + d - 1) \div d
  OBVIOUS
<1> QED BY <1>1 DEF DivRoundUp

LEMMA PageBytesFacts ==
  ASSUME NEW r, r.m \in Mappings, r.offset \in Nat, r.total \in Nat, NEW i \in Ranges(r.m)
  PROVE  /\ PageBytes(r, i) \in Nat
         /\ Start(r.m, i) >= r.offset + r.total \/ End(r.m, i) <= r.offset \/ r.total = 0
              => PageBytes(r, i) = 0
         /\ \A p \in Nat :
              /\ \/ p = Start(r.m, i) /\ p >= r.offset
                 \/ p = r.offset /\ p >= Start(r.m, i)
              /\ p < End(r.m, i) /\ p < r.offset + r.total
              => PageBytes(r, i) = (IF End(r.m, i) <= r.offset + r.total
                                    THEN End(r.m, i) - p ELSE r.offset + r.total - p)
<1> DEFINE s == Start(r.m, i)
           e == End(r.m, i)
           lo == IF s >= r.offset THEN s ELSE r.offset
           hi == IF e <= r.offset + r.total THEN e ELSE r.offset + r.total
<1>1. s \in Nat /\ e \in Nat /\ s < e
  <2>1. i \in 1 .. NumRanges(r.m) + 1
    BY MappingFacts DEF Ranges
  <2> QED BY <2>1, MappingFacts
<1>2. PageBytes(r, i) = Max({0, Min({e, r.offset + r.total}) - Max({s, r.offset})})
  BY DEF PageBytes
<1> HIDE DEF s, e
<1>3. Min({e, r.offset + r.total}) = hi /\ Max({s, r.offset}) = lo
  <2>1. r.offset + r.total \in Int
    OBVIOUS
  <2> QED BY <1>1, <2>1, MinOfTwo, MaxOfTwo
<1>4. hi - lo \in Int
  BY <1>1
<1>5. PageBytes(r, i) = IF 0 >= hi - lo THEN 0 ELSE hi - lo
  <2> DEFINE x == hi - lo
  <2>1. PageBytes(r, i) = Max({0, x}) /\ x \in Int
    BY <1>2, <1>3, <1>4
  <2> HIDE DEF x
  <2>2. PageBytes(r, i) = IF 0 >= x THEN 0 ELSE x
    BY <2>1, MaxOfTwo
  <2> QED BY <2>2 DEF x
<1> QED
  BY <1>1, <1>5 DEF s, e

\* The recursion that defines Planned has a solution.
LEMMA PlannedFacts ==
  ASSUME NEW r, r.m \in Mappings, r.offset \in Nat, r.total \in Nat
  PROVE  /\ Planned(r) \in [0 .. NumRanges(r.m) -> Nat]
         /\ Planned(r)[0] = 0
         /\ \A i \in Ranges(r.m) :
              Planned(r)[i] = Planned(r)[i - 1] + DivRoundUp(PageBytes(r, i), MaxTransfer)
<1> DEFINE n == NumRanges(r.m)
           d(i) == DivRoundUp(PageBytes(r, i), MaxTransfer)
           Def(s) == s = [i \in 0 .. n |-> IF i = 0 THEN 0 ELSE s[i - 1] + d(i)]
<1>1. n \in Nat /\ Ranges(r.m) = 1 .. n
  BY MappingFacts DEF Ranges
<1>2. Planned(r) = CHOOSE s : Def(s)
  BY DEF Planned
<1>3. ASSUME NEW i \in 1 .. n  PROVE d(i) \in Nat
  BY <1>1, PageBytesFacts, DivRoundUpFacts, DescriptorsAssumption
<1> HIDE DEF n, d
<1> DEFINE h == [i \in 1 .. n |-> [x \in Nat |-> x + d(i)]]
<1>4. h \in [1 .. n -> [Nat -> Nat]]
  BY <1>3
<1>5. PICK s \in [0 .. n -> Nat] : s[0] = 0 /\ \A i \in 1 .. n : s[i] = s[i - 1] + d(i)
  <2>1. \A i \in 1 .. n, x \in Nat : h[i][x] = x + d(i)
    OBVIOUS
  <2> HIDE DEF h
  <2>2. PICK s \in [0 .. n -> Nat] : s[0] = 0 /\ \A i \in 1 .. n : s[i] = h[i][s[i - 1]]
    BY <1>1, <1>4, Iteration
  <2>3. ASSUME NEW i \in 1 .. n  PROVE s[i] = s[i - 1] + d(i)
    <3>1. s[i - 1] \in Nat
      BY <1>1
    <3>2. s[i] = h[i][s[i - 1]]
      BY <2>2
    <3> QED BY <2>1, <3>1, <3>2
  <2> QED BY <2>2, <2>3
<1>6. Def(s)
  <2>1. \A i \in 0 .. n : s[i] = IF i = 0 THEN 0 ELSE s[i - 1] + d(i)
    BY <1>1, <1>5
  <2> QED BY <2>1
<1> DEFINE p == Planned(r)
<1>7. Def(p)
  <2> HIDE DEF Def
  <2> QED BY <1>2, <1>6
<1> HIDE DEF p
<1>8. DOMAIN p = 0 .. n /\ p = [i \in 0 .. n |-> p[i]] /\ p[0] = 0
  BY <1>1, <1>7
<1>9. \A i \in 1 .. n : p[i] = p[i - 1] + d(i)
  BY <1>1, <1>7
<1>10. \A i \in 0 .. n : p[i] \in Nat
  <2> DEFINE S == {i \in Nat : i \in 0 .. n => p[i] \in Nat}
  <2>1. 0 \in S
    BY <1>8
  <2>2. \A i \in 0 .. n - 1 : i \in S => i + 1 \in S
    <3> SUFFICES ASSUME NEW i \in 0 .. n - 1, p[i] \in Nat  PROVE p[i + 1] \in Nat
      BY <1>1
    <3>1. i + 1 \in 1 .. n /\ i + 1 - 1 = i
      BY <1>1
    <3>2. d(i + 1) \in Nat
      BY <3>1, <1>3
    <3> QED BY <3>1, <3>2, <1>9
  <2> HIDE DEF S
  <2>3. 0 .. n \subseteq S
    BY <1>1, <2>1, <2>2, UpTo
  <2> QED BY <2>3 DEF S
<1>11. p \in [0 .. n -> Nat]
  BY <1>8, <1>10
<1> QED BY <1>1, <1>8, <1>9, <1>11 DEF p, n, d

LEMMA PlannedGrows ==
  ASSUME NEW r, r.m \in Mappings, r.offset \in Nat, r.total \in Nat,
         NEW i \in 0 .. NumRanges(r.m)
  PROVE  Planned(r)[i] \in Nat /\ Planned(r)[i] <= Planned(r)[NumRanges(r.m)]
<1> DEFINE n == NumRanges(r.m)
           p == Planned(r)
           S == {k \in Nat : k \in 0 .. n - i => p[i] <= p[i + k]}
<1>1. n \in Nat /\ Ranges(r.m) = 1 .. n
  BY MappingFacts DEF Ranges
<1>2. p \in [0 .. n -> Nat] /\ \A j \in 1 .. n : p[j - 1] <= p[j]
  <2>1. ASSUME NEW j \in 1 .. n
        PROVE  DivRoundUp(PageBytes(r, j), MaxTransfer) \in Nat
    BY <1>1, PageBytesFacts, DivRoundUpFacts, DescriptorsAssumption
  <2>2. p \in [0 .. n -> Nat]
    BY PlannedFacts
  <2>3. ASSUME NEW j \in 1 .. n  PROVE p[j - 1] <= p[j]
    <3>1. p[j] = p[j - 1] + DivRoundUp(PageBytes(r, j), MaxTransfer)
      BY <1>1, PlannedFacts
    <3>2. j - 1 \in 0 .. n /\ j \in 0 .. n
      BY <1>1
    <3>3. p[j - 1] \in Nat
      BY <2>2, <3>2
    <3> HIDE DEF p
    <3> QED BY <2>1, <3>1, <3>3
  <2> QED BY <2>2, <2>3
<1> HIDE DEF n, p
<1>3. i \in 0 .. n
  BY DEF n
<1>4. 0 \in S
  BY <1>1, <1>2, <1>3
<1>5. \A k \in 0 .. n - i - 1 : k \in S => k + 1 \in S
  <2> SUFFICES ASSUME NEW k \in 0 .. n - i - 1, p[i] <= p[i + k]  PROVE p[i] <= p[i + k + 1]
    BY <1>1, <1>3
  <2>1. i + k + 1 \in 1 .. n /\ i + k + 1 - 1 = i + k /\ i + k \in 0 .. n /\ i + k + 1 \in 0 .. n
    BY <1>1, <1>3
  <2>2. p[i + k] <= p[i + k + 1]
    BY <2>1, <1>2
  <2>3. p[i] \in Nat /\ p[i + k] \in Nat /\ p[i + k + 1] \in Nat
    BY <2>1, <1>2, <1>3
  <2> QED BY <2>2, <2>3
<1>6. n - i \in Nat
  BY <1>1, <1>3
<1> HIDE DEF S
<1>7. 0 .. n - i \subseteq S
  BY <1>4, <1>5, <1>6, UpTo
<1>8. n - i \in S /\ i + (n - i) = n
  BY <1>1, <1>3, <1>6, <1>7
<1>9. p[i] <= p[n]
  BY <1>6, <1>8 DEF S
<1> QED BY <1>9, <1>2, <1>3 DEF n, p

\* Ranges without bytes of the transfer add nothing.
LEMMA PlannedFlat ==
  ASSUME NEW r, r.m \in Mappings, r.offset \in Nat, r.total \in Nat,
         NEW k \in 0 .. NumRanges(r.m), NEW i \in 0 .. k,
         \A j \in i + 1 .. k : PageBytes(r, j) = 0
  PROVE  Planned(r)[k] = Planned(r)[i]
<1> DEFINE n == NumRanges(r.m)
           p == Planned(r)
           S == {x \in Nat : x \in 0 .. k - i => p[i + x] = p[i]}
<1>1. n \in Nat /\ Ranges(r.m) = 1 .. n /\ k \in 0 .. n
  BY MappingFacts DEF Ranges
<1>2. ASSUME NEW j \in i + 1 .. k  PROVE p[j] = p[j - 1] /\ p[j] \in Nat
  <2>1. j \in Ranges(r.m) /\ j \in 0 .. n /\ j - 1 \in 0 .. n
    BY <1>1
  <2>2. p[j] = p[j - 1] + DivRoundUp(0, MaxTransfer)
    BY <2>1, PlannedFacts
  <2>3. DivRoundUp(0, MaxTransfer) = 0
    BY DivRoundUpFacts, DescriptorsAssumption
  <2>4. p \in [0 .. n -> Nat]
    BY PlannedFacts
  <2>5. p[j] \in Nat /\ p[j - 1] \in Nat
    BY <2>1, <2>4
  <2> HIDE DEF p
  <2> QED BY <2>2, <2>3, <2>5
<1> HIDE DEF n, p
<1>3. 0 \in S
  BY <1>1
<1>4. \A x \in 0 .. k - i - 1 : x \in S => x + 1 \in S
  <2> SUFFICES ASSUME NEW x \in 0 .. k - i - 1, p[i + x] = p[i]  PROVE p[i + x + 1] = p[i]
    BY <1>1
  <2>1. i + x + 1 \in i + 1 .. k /\ i + x + 1 - 1 = i + x
    BY <1>1
  <2> QED BY <2>1, <1>2
<1>5. k - i \in Nat
  BY <1>1
<1> HIDE DEF S
<1>6. 0 .. k - i \subseteq S
  BY <1>3, <1>4, <1>5, UpTo
<1>7. k - i \in S /\ i + (k - i) = k
  BY <1>1, <1>5, <1>6
<1> QED BY <1>5, <1>7 DEF S, n, p

-----------------------------------------------------------------------------
(* The greatest common divisor of the ranges                                *)

Divisors(n) == {d \in Nat \ {0} : \E q \in Nat : n = d * q}

LEMMA Divisible ==
  ASSUME NEW n \in Nat, NEW d \in Nat \ {0}
  PROVE  n % d = 0 <=> d \in Divisors(n)
<1>1. ASSUME n % d = 0  PROVE d \in Divisors(n)
  <2>1. n \div d \in Nat
    OBVIOUS
  <2>2. n = d * (n \div d)
    BY <1>1, SMTT(60)
  <2> QED BY <2>1, <2>2 DEF Divisors
<1>2. ASSUME d \in Divisors(n)  PROVE n % d = 0
  <2>1. PICK q \in Nat : n = d * q
    BY <1>2 DEF Divisors
  <2>2. (d * q + 0) % d = 0
    OBVIOUS
  <2> QED BY <2>1, <2>2
<1> QED BY <1>1, <1>2

LEMMA DivisorsOfZero == Divisors(0) = Nat \ {0}
<1>1. ASSUME NEW d \in Nat \ {0}  PROVE 0 = d * 0
  OBVIOUS
<1> QED BY <1>1 DEF Divisors

LEMMA DivisorsDetermine ==
  ASSUME NEW a \in Nat, NEW b \in Nat, Divisors(a) = Divisors(b)
  PROVE  a = b
<1>1. ASSUME NEW x \in Nat, NEW y \in Nat \ {0}, Divisors(x) = Divisors(y)  PROVE x # 0
  <2>1. SUFFICES ASSUME x = 0  PROVE FALSE
    OBVIOUS
  <2>2. y + 1 \in Divisors(y)
    BY <1>1, <2>1, DivisorsOfZero
  <2>3. PICK q \in Nat : y = (y + 1) * q
    BY <2>2 DEF Divisors
  <2>4. q = 0 \/ (y + 1) * q >= y + 1
    OBVIOUS
  <2> QED BY <2>3, <2>4
<1>2. ASSUME NEW x \in Nat \ {0}, NEW y \in Nat \ {0}, x \in Divisors(y)  PROVE x <= y
  <2>1. PICK q \in Nat : y = x * q
    BY <1>2 DEF Divisors
  <2>2. q # 0
    BY <2>1
  <2>3. x * q >= x
    BY <2>2
  <2> QED BY <2>1, <2>3
<1>3. \A x \in Nat \ {0} : x \in Divisors(x)
  <2>1. \A x \in Nat \ {0} : x = x * 1
    OBVIOUS
  <2> QED BY <2>1 DEF Divisors
<1>4. CASE a = 0 \/ b = 0
  <2>1. a = 0 /\ b = 0
    BY <1>1, <1>4
  <2> QED BY <2>1
<1>5. CASE a # 0 /\ b # 0
  <2>1. a <= b /\ b <= a
    BY <1>2, <1>3, <1>5
  <2> QED BY <2>1
<1> QED BY <1>4, <1>5

\* The step of Euclid's algorithm
LEMMA EuclidStep ==
  ASSUME NEW a \in Nat, NEW b \in Nat \ {0}
  PROVE  a % b \in 0 .. b - 1 /\ Divisors(b) \cap Divisors(a % b) = Divisors(a) \cap Divisors(b)
<1>1. PICK k \in Nat, x \in 0 .. b - 1 : a = k * b + x /\ a % b = x
  <2>1. a \div b \in Nat /\ a % b \in 0 .. b - 1
    OBVIOUS
  <2>2. PICK k \in Nat, x \in 0 .. b - 1 : k = a \div b /\ x = a % b
    BY <2>1
  <2>3. a = k * b + x
    BY <2>2, SMTT(60)
  <2> QED BY <2>2, <2>3
<1>2. ASSUME NEW d \in Divisors(b), d \in Divisors(x)  PROVE d \in Divisors(a)
  <2>1. PICK p \in Nat : b = d * p
    BY DEF Divisors
  <2>2. PICK q \in Nat : x = d * q
    BY <1>2 DEF Divisors
  <2>3. k * p + q \in Nat /\ d \in Nat \ {0}
    BY DEF Divisors
  <2>4. k * (d * p) + d * q = d * (k * p + q)
    BY <2>3
  <2>5. a = d * (k * p + q)
    BY <1>1, <2>1, <2>2, <2>4
  <2> QED BY <2>3, <2>5 DEF Divisors
<1>3. ASSUME NEW d \in Divisors(b), d \in Divisors(a)  PROVE d \in Divisors(x)
  <2>1. PICK p \in Nat : b = d * p
    BY DEF Divisors
  <2>2. PICK q \in Nat : a = d * q
    BY <1>3 DEF Divisors
  <2>3. d \in Nat \ {0}
    BY DEF Divisors
  <2>4. d * q = k * (d * p) + x
    BY <1>1, <2>1, <2>2
  <2>5. k * (d * p) = d * (k * p) /\ k * p \in Nat
    BY <2>3
  <2> DEFINE y == k * p
  <2>6. x = d * q - d * y /\ y \in Nat
    BY <2>3, <2>4, <2>5
  <2> HIDE DEF y
  <2>7. d * q - d * y = d * (q - y)
    BY <2>3, <2>6
  <2>8. q - y \in Nat
    <3>1. SUFFICES ASSUME q - y < 0  PROVE FALSE
      BY <2>6
    <3>2. d * (q - y) < 0
      BY <2>3, <2>6, <3>1
    <3> QED BY <2>6, <2>7, <3>2
  <2> QED BY <2>3, <2>6, <2>7, <2>8 DEF Divisors
<1> QED BY <1>1, <1>2, <1>3

\* Euclid's algorithm has a result, and this is the greatest common divisor.
LEMMA GcdDivisors ==
  ASSUME NEW a \in Nat, NEW b \in Nat
  PROVE  Gcd[<<a, b>>] \in Nat /\ Divisors(Gcd[<<a, b>>]) = Divisors(a) \cap Divisors(b)
<1> DEFINE Of(S) == CHOOSE g \in Nat : Divisors(g) = S
           Def(g) == g = [p \in Nat \X Nat |-> IF p[2] = 0 THEN p[1] ELSE g[<<p[2], p[1] % p[2]>>]]
           w == [p \in Nat \X Nat |-> Of(Divisors(p[1]) \cap Divisors(p[2]))]
<1>1. ASSUME NEW x \in Nat  PROVE Of(Divisors(x) \cap Divisors(0)) = x
  <2>1. Divisors(x) \cap Divisors(0) = Divisors(x)
    BY DivisorsOfZero DEF Divisors
  <2>2. \A g \in Nat : Divisors(g) = Divisors(x) => g = x
    BY DivisorsDetermine
  <2> QED BY <2>1, <2>2
<1>2. ASSUME NEW x \in Nat, NEW y \in Nat
      PROVE  w[<<x, y>>] = IF y = 0 THEN x ELSE w[<<y, x % y>>]
  <2> HIDE DEF Of
  <2>1. w[<<x, y>>] = Of(Divisors(x) \cap Divisors(y))
    OBVIOUS
  <2>2. CASE y = 0
    BY <2>1, <2>2, <1>1
  <2>3. CASE y # 0
    <3>1. x % y \in Nat /\ Divisors(y) \cap Divisors(x % y) = Divisors(x) \cap Divisors(y)
      <4>1. y \in Nat \ {0}
        BY <2>3
      <4>2. Divisors(y) \cap Divisors(x % y) = Divisors(x) \cap Divisors(y)
        BY <4>1, EuclidStep
      <4>3. x % y \in Nat
        BY <4>1
      <4> QED BY <4>2, <4>3
    <3>2. w[<<y, x % y>>] = Of(Divisors(y) \cap Divisors(x % y))
      BY <3>1
    <3> QED BY <2>1, <2>3, <3>1, <3>2
  <2> QED BY <2>2, <2>3
<1>3. Def(w)
  <2> DEFINE e(p) == IF p[2] = 0 THEN p[1] ELSE w[<<p[2], p[1] % p[2]>>]
  <2>1. \A p \in Nat \X Nat : w[p] = e(p)
    <3> HIDE DEF w
    <3>1. \A p \in Nat \X Nat : p = <<p[1], p[2]>> /\ p[1] \in Nat /\ p[2] \in Nat
      OBVIOUS
    <3> QED BY <3>1, <1>2
  <2>2. w = [p \in Nat \X Nat |-> w[p]]
    OBVIOUS
  <2>3. w = [p \in Nat \X Nat |-> e(p)]
    <3> HIDE DEF w, e
    <3> QED BY <2>1, <2>2
  <2> QED BY <2>3
<1> DEFINE f == Gcd
<1>4. f = CHOOSE g : Def(g)
  BY DEF Gcd
<1>5. Def(f)
  <2> HIDE DEF w, Def, f
  <2> QED BY <1>3, <1>4
<1> HIDE DEF f
<1>6. \A x, y \in Nat : f[<<x, y>>] = IF y = 0 THEN x ELSE f[<<y, x % y>>]
  BY <1>5
<1> DEFINE Right(x, y) == f[<<x, y>>] \in Nat /\ Divisors(f[<<x, y>>]) = Divisors(x) \cap Divisors(y)
           T == {y \in Nat : \E x \in Nat : ~Right(x, y)}
<1>7. T = {}
  <2> SUFFICES ASSUME T # {}  PROVE FALSE
    OBVIOUS
  <2>1. T \subseteq Nat
    OBVIOUS
  <2> HIDE DEF T
  <2>2. PICK y \in T : \A z \in T : y <= z
    BY <2>1, Least
  <2>3. PICK x \in Nat : y \in Nat /\ ~Right(x, y)
    BY DEF T
  <2>4. CASE y = 0
    <3>1. f[<<x, y>>] = x /\ Divisors(x) \cap Divisors(0) = Divisors(x)
      BY <2>3, <2>4, <1>6, DivisorsOfZero DEF Divisors
    <3> QED BY <2>3, <2>4, <3>1
  <2>5. CASE y # 0
    <3> DEFINE r == x % y
    <3>1. r \in 0 .. y - 1 /\ Divisors(y) \cap Divisors(r) = Divisors(x) \cap Divisors(y)
      BY <2>3, <2>5, EuclidStep
    <3>2. f[<<x, y>>] = f[<<y, r>>]
      BY <2>3, <2>5, <1>6
    <3> HIDE DEF r
    <3>3. r \in Nat /\ ~(y <= r)
      BY <3>1, <2>3
    <3>4. r \notin T
      BY <2>2, <3>3
    <3>5. Right(y, r)
      BY <2>3, <3>3, <3>4 DEF T
    <3> QED BY <2>3, <3>1, <3>2, <3>5
  <2> QED BY <2>4, <2>5
<1>8. Right(a, b)
  BY <1>7
<1> QED BY <1>8 DEF f

LEMMA DivisorsOfSum ==
  ASSUME NEW x \in Nat, NEW y \in Nat, NEW d \in Divisors(y)
  PROVE  d \in Divisors(x + y) <=> d \in Divisors(x)
<1>1. PICK q \in Nat : y = d * q
  BY DEF Divisors
<1>2. d \in Nat \ {0}
  BY DEF Divisors
<1>3. ASSUME d \in Divisors(x)  PROVE d \in Divisors(x + y)
  <2>1. PICK p \in Nat : x = d * p
    BY <1>3 DEF Divisors
  <2>2. x + y = d * (p + q) /\ p + q \in Nat
    BY <1>1, <1>2, <2>1
  <2> QED BY <1>2, <2>2 DEF Divisors
<1>4. ASSUME d \in Divisors(x + y)  PROVE d \in Divisors(x)
  <2>1. PICK p \in Nat : x + y = d * p
    BY <1>4 DEF Divisors
  <2>2. x = d * p - d * q
    BY <1>1, <1>2, <2>1
  <2>3. x = d * (p - q)
    BY <1>2, <2>2
  <2>4. p - q \in Nat
    <3>1. SUFFICES ASSUME p - q < 0  PROVE FALSE
      OBVIOUS
    <3>2. d * (p - q) < 0
      BY <1>2, <3>1
    <3> QED BY <2>3, <3>2
  <2> QED BY <1>2, <2>3, <2>4 DEF Divisors
<1> QED BY <1>3, <1>4

LEMMA GcdOfPages ==
  ASSUME NEW m \in Mappings
  PROVE  /\ GcdPageSizes(m) \in Nat
         /\ \A d \in Nat \ {0} : d \in Divisors(GcdPageSizes(m)) <=>
              \A i \in Ranges(m) : d \in Divisors(RangeSize(m, i))
<1> DEFINE n == NumRanges(m)
           w(i) == RangeSize(m, i)
           step(i, x) == IF i = 1 THEN w(1)
                         ELSE IF w(i) = w(i - 1) THEN x ELSE Gcd[<<x, w(i)>>]
           Def(f) == f = [i \in Ranges(m) |-> step(i, f[i - 1])]
<1>1. n \in Nat \ {0} /\ Ranges(m) = 1 .. n /\ 1 \in 1 .. n /\ n \in 1 .. n
  BY MappingFacts DEF Ranges
<1>2. \A i \in 1 .. n : w(i) \in Nat
  <2>1. ASSUME NEW i \in 1 .. n  PROVE End(m, i) - Start(m, i) \in Nat
    <3>1. i \in Ranges(m) /\ i \in 1 .. n + 1
      BY <1>1
    <3>2. Start(m, i) \in Nat /\ End(m, i) \in Nat /\ Start(m, i) < End(m, i)
      BY <3>1, MappingFacts
    <3> QED BY <3>2
  <2> QED BY <2>1 DEF RangeSize
<1>3. GcdPageSizes(m) = (CHOOSE f : Def(f))[n]
  BY DEF GcdPageSizes
<1> HIDE DEF n, w
<1>4. \A i \in 1 .. n, x \in Nat : step(i, x) \in Nat
  BY <1>1, <1>2, GcdDivisors
<1>s. /\ \A x : step(1, x) = w(1)
      /\ \A i, x : i # 1 /\ w(i) = w(i - 1) => step(i, x) = x
      /\ \A i, x : i # 1 /\ w(i) # w(i - 1) => step(i, x) = Gcd[<<x, w(i)>>]
  OBVIOUS
<1> HIDE DEF step
<1> DEFINE h == [i \in 1 .. n |-> [x \in Nat |-> step(i, x)]]
<1>5. h \in [1 .. n -> [Nat -> Nat]]
  BY <1>4
<1>6. \A i \in 1 .. n, x \in Nat : h[i][x] = step(i, x)
  OBVIOUS
<1> HIDE DEF h
<1>7. PICK s \in [0 .. n -> Nat] : s[0] = 0 /\ \A i \in 1 .. n : s[i] = h[i][s[i - 1]]
  BY <1>1, <1>5, Iteration
<1>8. \A i \in 1 .. n : s[i] = step(i, s[i - 1])
  <2>1. \A i \in 1 .. n : s[i - 1] \in Nat
    BY <1>1, <1>7
  <2> QED BY <1>6, <1>7, <2>1
<1> DEFINE f1 == [i \in 1 .. n |-> s[i]]
<1>9. Def(f1)
  <2>1. ASSUME NEW i \in 1 .. n  PROVE f1[i] = step(i, f1[i - 1])
    <3>1. CASE i = 1
      BY <1>1, <1>8, <1>s, <3>1
    <3>2. CASE i # 1
      <4>1. i - 1 \in 1 .. n
        BY <1>1, <3>2
      <4> QED BY <1>8, <4>1
    <3> QED BY <3>1, <3>2
  <2> HIDE DEF f1
  <2>2. f1 = [i \in 1 .. n |-> f1[i]]
    BY DEF f1
  <2> QED BY <1>1, <2>1, <2>2
<1> DEFINE res == CHOOSE f : Def(f)
<1>10. Def(res)
  <2> HIDE DEF f1, Def
  <2> QED BY <1>9
<1>11. \A i \in 1 .. n : res[i] = step(i, res[i - 1])
  <2> HIDE DEF res
  <2> QED BY <1>1, <1>10
<1> HIDE DEF res, f1
<1> DEFINE Common(i) == {d \in Nat \ {0} : \A j \in 1 .. i : d \in Divisors(w(j))}
           Right(i) == res[i] \in Nat /\ Divisors(res[i]) = Common(i)
           S == {i \in Nat : i + 1 \in 1 .. n => Right(i + 1)}
<1>d. \A x \in Nat : Divisors(x) \subseteq Nat \ {0}
  BY DEF Divisors
<1>c. Common(1) = Divisors(w(1))
  BY <1>1, <1>2, <1>d
<1>e. ASSUME NEW k \in 2 .. n
      PROVE  Common(k) = Common(k - 1) \cap Divisors(w(k))
  <2>1. 1 .. k = (1 .. k - 1) \cup {k} /\ k \in 1 .. n
    OBVIOUS
  <2>2. ASSUME NEW d  PROVE d \in Common(k) <=> d \in Common(k - 1) \cap Divisors(w(k))
    BY <2>1
  <2> HIDE DEF Common
  <2> QED BY <2>2
<1>f. ASSUME NEW k \in 2 .. n
      PROVE  Common(k - 1) \subseteq Divisors(w(k - 1))
  <2>1. k - 1 \in 1 .. k - 1
    OBVIOUS
  <2> QED BY <2>1
<1> HIDE DEF Common
<1>12. Right(1)
  <2>1. res[1] = w(1)
    BY <1>1, <1>11, <1>s
  <2>2. w(1) \in Nat
    BY <1>1, <1>2
  <2> QED BY <2>1, <2>2, <1>c
<1>13. ASSUME NEW k \in 2 .. n, Right(k - 1)  PROVE Right(k)
  <2>1. k \in 1 .. n /\ k # 1
    OBVIOUS
  <2>2. w(k) \in Nat /\ res[k - 1] \in Nat
    BY <1>2, <1>13, <2>1
  <2>3. CASE w(k) = w(k - 1)
    <3>1. res[k] = res[k - 1]
      BY <1>11, <1>s, <2>1, <2>3
    <3>2. Common(k - 1) \subseteq Divisors(w(k))
      BY <1>f, <2>3
    <3> QED BY <1>13, <1>e, <3>1, <3>2
  <2>4. CASE w(k) # w(k - 1)
    <3>1. res[k] = Gcd[<<res[k - 1], w(k)>>]
      BY <1>11, <1>s, <2>1, <2>4
    <3>2. res[k] \in Nat /\ Divisors(res[k]) = Divisors(res[k - 1]) \cap Divisors(w(k))
      BY <3>1, <2>2, GcdDivisors
    <3> QED BY <1>13, <1>e, <3>2
  <2> QED BY <2>3, <2>4
<1> HIDE DEF Right
<1>14. 0 \in S
  BY <1>12
<1>15. ASSUME NEW i \in 0 .. (n - 1) - 1, i \in S  PROVE i + 1 \in S
  <2>1. i \in Nat /\ i + 1 \in Nat /\ i + 1 \in 1 .. n /\ i + 2 \in 2 .. n
        /\ i + 2 - 1 = i + 1 /\ i + 1 + 1 = i + 2
    BY <1>1
  <2>2. Right(i + 2)
    <3>1. Right(i + 1)
      BY <1>15, <2>1
    <3> DEFINE k == i + 2
    <3>2. k \in 2 .. n /\ Right(k - 1)
      BY <2>1, <3>1
    <3> HIDE DEF k
    <3>3. Right(k)
      BY <1>13, <3>2
    <3> QED BY <3>3 DEF k
  <2>3. Right(i + 1 + 1)
    BY <2>1, <2>2
  <2> QED BY <2>1, <2>3
<1>16. n - 1 \in Nat /\ n - 1 + 1 = n /\ n - 1 \in 0 .. n - 1
  BY <1>1
<1>17. Right(n)
  <2> HIDE DEF S
  <2>1. 0 .. n - 1 \subseteq S
    BY <1>14, <1>15, <1>16, UpTo
  <2>2. n - 1 \in S
    BY <1>16, <2>1
  <2>3. n - 1 + 1 \in 1 .. n => Right(n - 1 + 1)
    BY <2>2 DEF S
  <2> QED BY <1>1, <1>16, <2>3
<1>18. GcdPageSizes(m) = res[n]
  BY <1>3 DEF res
<1> QED BY <1>1, <1>17, <1>18 DEF Right, Common, w

\* What divides all ranges divides their bounds.
LEMMA BoundsDivisible ==
  ASSUME NEW m \in Mappings, NEW d \in Nat \ {0},
         \A i \in Ranges(m) : d \in Divisors(RangeSize(m, i))
  PROVE  \A i \in 1 .. NumRanges(m) + 1 : d \in Divisors(Start(m, i))
<1> DEFINE n == NumRanges(m)
           S == {i \in Nat : i + 1 \in 1 .. n + 1 => d \in Divisors(Start(m, i + 1))}
<1>1. n \in Nat /\ Ranges(m) = 1 .. n
  BY MappingFacts DEF Ranges
<1>2. 0 \in S
  <2>1. Start(m, 0 + 1) = 0 /\ d \in Divisors(0)
    BY MappingFacts, DivisorsOfZero
  <2> QED BY <2>1
<1>3. \A i \in 0 .. n - 1 : i \in S => i + 1 \in S
  <2> SUFFICES ASSUME NEW i \in 0 .. n - 1, i \in S  PROVE i + 1 \in S
    OBVIOUS
  <2>1. i + 1 \in Ranges(m) /\ i + 1 \in 1 .. n + 1 /\ i + 1 \in Nat
    BY <1>1
  <2>2. /\ Start(m, i + 1) \in Nat /\ End(m, i + 1) \in Nat
        /\ End(m, i + 1) = Start(m, i + 1 + 1) /\ Start(m, i + 1) < End(m, i + 1)
    BY <2>1, MappingFacts
  <2>3. d \in Divisors(Start(m, i + 1)) /\ d \in Divisors(RangeSize(m, i + 1))
    BY <2>1
  <2> DEFINE a == Start(m, i + 1)
             e == End(m, i + 1)
  <2>4. e - a \in Nat /\ a \in Nat /\ a + (e - a) = e
    BY <2>2
  <2>5. d \in Divisors(e - a)
    BY <2>3 DEF RangeSize
  <2> HIDE DEF a, e
  <2>6. d \in Divisors(a + (e - a))
    BY <2>3, <2>4, <2>5, DivisorsOfSum DEF a
  <2>7. d \in Divisors(Start(m, i + 1 + 1))
    BY <2>2, <2>4, <2>6 DEF e
  <2> QED BY <2>1, <2>7
<1> HIDE DEF S
<1>4. 0 .. n \subseteq S
  BY <1>1, <1>2, <1>3, UpTo
<1>5. ASSUME NEW i \in 1 .. n + 1  PROVE d \in Divisors(Start(m, i))
  <2>1. i - 1 \in S /\ i - 1 + 1 = i
    BY <1>1, <1>4
  <2> QED BY <2>1 DEF S
<1> QED BY <1>5

-----------------------------------------------------------------------------
(* Memory                                                                   *)

LEMMA Remainder ==
  ASSUME NEW a \in Nat, NEW d \in Nat \ {0}
  PROVE  /\ a % d \in 0 .. d - 1
         /\ a < d => a % d = a
         /\ a = d => a % d = 0
OBVIOUS

LEMMA MemorySize ==
  ASSUME NEW n \in Nat
  PROVE  Cardinality(0 .. n - 1) = n
BY FS_Interval

LEMMA RequestFacts ==
  ASSUME NEW r, IsRequest(r)
  PROVE  /\ r.offset \in Nat /\ r.total \in Nat /\ r.perDesc \in Nat /\ r.interval \in Nat
         /\ r.m \in Mappings /\ r.list \in Seq([pos : Nat, len : Nat, irq : BOOLEAN])
         /\ r.kind = "user" => Len(r.list) < SizeMod
<1>1. Modulus \in Nat
  BY DescriptorsAssumption
<1>2. /\ UserLists \subseteq Seq([pos : Nat, len : Nat, irq : BOOLEAN])
      /\ \A list \in UserLists : Len(list) < SizeMod
  BY DescriptorsAssumption
<1>3. /\ r.offset \in 0 .. Modulus - 1 /\ r.total \in 0 .. Modulus - 1
      /\ r.perDesc \in Nat /\ r.interval \in Nat /\ r.m \in Mappings
      /\ r.list \in UserLists \cup {<<>>}
      /\ r.kind = "user" => r.list \in UserLists
  BY DEF IsRequest
<1>4. r.list \in Seq([pos : Nat, len : Nat, irq : BOOLEAN])
  <2> DEFINE D == [pos : Nat, len : Nat, irq : BOOLEAN]
  <2> HIDE DEF D
  <2>1. <<>> \in Seq(D)
    OBVIOUS
  <2>2. UserLists \subseteq Seq(D)
    BY <1>2 DEF D
  <2>3. r.list \in Seq(D)
    BY <1>3, <2>1, <2>2
  <2> QED BY <2>3 DEF D
<1>5. r.kind = "user" => Len(r.list) < SizeMod
  BY <1>2, <1>3
<1>6. r.offset \in Nat /\ r.total \in Nat
  BY <1>1, <1>3
<1> QED BY <1>3, <1>4, <1>5, <1>6

LEMMA Division ==
  ASSUME NEW a \in Nat, NEW d \in Nat, d > 0
  PROVE  a \div d \in Nat
OBVIOUS

\* A legal size has not wrapped around when the terminator was added.
LEMMA SizeFacts ==
  ASSUME NEW r, IsRequest(r)
  PROVE  /\ Terminators(r) \in {0, 1} /\ NumDescriptors(r) \in Nat
         /\ DataSize(r) \in 0 .. SizeMod - 1
         /\ r.kind = "user" => DataSize(r) = Len(r.list)
         /\ AllocSize(r) \in 0 .. SizeMod - 1
         /\ AllocSize(r) \in LegalSizes =>
              AllocSize(r) > 0 /\ AllocSize(r) = DataSize(r) + Terminators(r)
<1>1. SizeMod \in Nat \ {0} /\ Page \in Nat \ {0} /\ MaxTransfer \in Nat \ {0}
  BY DescriptorsAssumption
<1>2. Terminators(r) \in {0, 1}
  BY DEF Terminators
<1>3. r.perDesc > 0 => r.total \div r.perDesc \in Nat
  BY RequestFacts, Division
<1>4. MaxDescriptorsNeeded(r) \in Nat
  <2>1. DivRoundUp(r.total, Page) \in Nat
    BY <1>1, RequestFacts, DivRoundUpFacts
  <2> QED BY <1>2, <1>3, <2>1 DEF MaxDescriptorsNeeded
<1>5. Len(r.list) \in Nat
  BY RequestFacts
<1>6. NumDescriptors(r) \in Nat
  <2>1. NumRanges(r.m) \in 0 .. NumRanges(r.m)
    BY RequestFacts, MappingFacts
  <2>2. Planned(r)[NumRanges(r.m)] \in Nat
    BY <2>1, RequestFacts, PlannedFacts
  <2> QED BY <2>2, <1>3 DEF NumDescriptors
<1>7. /\ DataSize(r) \in 0 .. SizeMod - 1
      /\ r.kind = "user" => DataSize(r) = Len(r.list)
  BY <1>1, <1>4, <1>5, RequestFacts, Remainder DEF DataSize
<1>8. DataSize(r) + Terminators(r) \in Nat /\ DataSize(r) + Terminators(r) <= SizeMod
  BY <1>1, <1>2, <1>7
<1>9. /\ AllocSize(r) \in 0 .. SizeMod - 1
      /\ AllocSize(r) = DataSize(r) + Terminators(r) \/ AllocSize(r) = 0
  BY <1>1, <1>8, Remainder DEF AllocSize
<1>10. 0 \notin LegalSizes /\ \A s \in 0 .. SizeMod - 1 : s \in LegalSizes => s > 0
  BY DEF LegalSizes
<1> QED BY <1>2, <1>6, <1>7, <1>9, <1>10

-----------------------------------------------------------------------------
(* The invariant                                                            *)

\* The memory that a step keeps, changes or replaces
LEMMA CapacityKept ==
  ASSUME DOMAIN desc' = DOMAIN desc
  PROVE  Capacity' = Capacity
BY DEF Capacity

\* A step outside changes nothing but the progress, in the model.
LEMMA StrayStep ==
  ASSUME WriteOutside \/ LinkOutside
  PROVE  /\ pc \in {"desc", "start"} /\ pc' = "astray"
         /\ UNCHANGED <<answer, req, desc, size, num, descIdx, mapIdx, bytesRem, pageRem,
                       busAddr, chain>>
BY DEF WriteOutside, LinkOutside, memory, locals

LEMMA RequestStep ==
  ASSUME Inv, [Next]_vars
  PROVE  RequestOK'
<1> USE DEF Inv, RequestOK
<1>1. CASE Request
  <2>1. PICK m \in Mappings, o \in 0 .. MaxBytes, t \in 0 .. MaxBytes, b \in PerDescs,
             mode \in {"default", "stream"}, n \in Intervals :
          Arrives(Params("params", m, o, t, b, mode, n))
    BY <1>1 DEF Request
  <2>2. /\ o \in 0 .. Modulus - 1 /\ t \in 0 .. Modulus - 1 /\ b \in Nat /\ n \in Nat
    BY DescriptorsAssumption
  <2>3. IsRequest(Params("params", m, o, t, b, mode, n))
    BY <2>1, <2>2 DEF IsRequest, Params
  <2> QED BY <2>1, <2>3 DEF Arrives
<1>2. CASE RequestFilled
  <2>1. PICK m \in Mappings : Arrives(DefaultParams(m)) \/ Arrives(StreamingParams(m))
    BY <1>2 DEF RequestFilled
  <2>2. /\ MapSize(m) \in 0 .. Modulus - 1 /\ 0 \in 0 .. Modulus - 1
        /\ StreamDesc \in Nat /\ StreamInterval \in Nat
    BY MappingFacts, DescriptorsAssumption
  <2>3. IsRequest(DefaultParams(m)) /\ IsRequest(StreamingParams(m))
    BY <2>2 DEF IsRequest, DefaultParams, StreamingParams, Params, IsStream
  <2> QED BY <2>1, <2>3 DEF Arrives
<1>3. CASE RequestWithDescriptors
  <2>1. PICK m \in Mappings, list \in UserLists, mode \in {"default", "stream"} :
          Arrives([Params("user", m, 0, 0, 0, mode, 0) EXCEPT !.list = list])
    BY <1>3 DEF RequestWithDescriptors
  <2>2. 0 \in 0 .. Modulus - 1
    BY DescriptorsAssumption
  <2>3. IsRequest([Params("user", m, 0, 0, 0, mode, 0) EXCEPT !.list = list])
    BY <2>2 DEF IsRequest, Params
  <2> QED BY <2>1, <2>3 DEF Arrives
<1>4. CASE AllocRefused \/ AllocReuse \/ AllocNew \/ CopyDescriptors \/ Refuse
  BY <1>4 DEF AllocRefused, AllocReuse, AllocNew, CopyDescriptors, Refuse, Refused
<1>5. CASE PlanDescriptors \/ FillPage \/ FillDescriptor
  BY <1>5 DEF PlanDescriptors, FillPage, FillDescriptor, Refused
<1>6. CASE FillControlFlags \/ SetDescSize \/ StartChain \/ Finish \/ UNCHANGED vars
  BY <1>6 DEF FillControlFlags, SetDescSize, StartChain, Finish, vars
<1>7. CASE WriteOutside \/ LinkOutside
  BY <1>7, StrayStep
<1> QED BY <1>1, <1>2, <1>3, <1>4, <1>5, <1>6, <1>7 DEF Next, GoneAstray

\* What the request asks for, while it is served
LEMMA Served ==
  ASSUME Inv, pc \in Prepared \cup {"check"}
  PROVE  /\ IsRequest(req) /\ AllocSize(req) > 0 /\ AllocSize(req) <= Capacity
         /\ Terminators(req) \in {0, 1} /\ NumDescriptors(req) \in Nat
         /\ DataSize(req) \in Nat /\ AllocSize(req) = DataSize(req) + Terminators(req)
         /\ Capacity \in Nat /\ DOMAIN desc = 0 .. Capacity - 1 /\ num \in Nat
         /\ pc # "check" => num + Terminators(req) <= Capacity
         /\ pc # "check" => Data \subseteq DOMAIN desc
<1>1. IsRequest(req)
  BY DEF Inv, RequestOK, Prepared
<1>2. AllocSize(req) \in LegalSizes /\ AllocSize(req) <= Capacity
  BY DEF Inv, MemoryOK
<1>3. /\ AllocSize(req) > 0 /\ Terminators(req) \in {0, 1} /\ NumDescriptors(req) \in Nat
      /\ DataSize(req) \in Nat /\ AllocSize(req) = DataSize(req) + Terminators(req)
  BY <1>1, <1>2, SizeFacts
<1>4. Capacity \in Nat /\ DOMAIN desc = 0 .. Capacity - 1 /\ num \in Nat
  BY DEF Inv, TypeOK
<1>5. pc # "check" => num <= DataSize(req)
  BY DEF Inv, PlanOK
<1>6. pc # "check" => num + Terminators(req) <= Capacity
  BY <1>2, <1>3, <1>4, <1>5
<1>7. pc # "check" => Data \subseteq DOMAIN desc
  BY <1>3, <1>4, <1>6 DEF Data
<1> QED BY <1>1, <1>2, <1>3, <1>4, <1>6, <1>7

Descriptor == [pos : Nat \cup {-1}, len : Nat, irq : BOOLEAN]

LEMMA TypeStep ==
  ASSUME Inv, [Next]_vars
  PROVE  TypeOK'
<1> DEFINE Memory == /\ Capacity \in Nat /\ DOMAIN desc = 0 .. Capacity - 1
                     /\ \A k \in DOMAIN desc : desc[k] \in Descriptor
           Size == size \in 0 .. SizeMod - 1
           Progress == /\ pc \in {"idle", "alloc", "check", "page", "desc", "flags", "copy",
                                  "start", "running", "refused", "astray"}
                       /\ answer \in {"none", "size", "memory", "invalid", "space"}
           Locals == /\ num \in Nat /\ descIdx \in Nat /\ mapIdx \in Nat /\ busAddr \in Nat
                     /\ bytesRem \in 0 .. Modulus - 1 /\ pageRem \in 0 .. Modulus - 1
           Chain == \A k \in DOMAIN chain :
                      chain[k].own \in BOOLEAN /\ chain[k].next \in DOMAIN chain
<1>1. Memory /\ Size /\ Progress /\ Locals /\ Chain
  BY DEF Inv, TypeOK, Descriptor
<1>2. /\ SizeMod \in Nat \ {0} /\ Modulus \in Nat \ {0} /\ MaxTransfer \in Nat \ {0}
      /\ 0 \in 0 .. SizeMod - 1 /\ 0 \in 0 .. Modulus - 1
  <2>1. SizeMod \in Nat \ {0} /\ Modulus \in Nat \ {0} /\ MaxTransfer \in Nat \ {0}
    BY DescriptorsAssumption
  <2> QED BY <2>1
<1>3. ASSUME Memory', Size', Progress', Locals', Chain'  PROVE TypeOK'
  BY <1>3 DEF TypeOK, Descriptor
<1> DEFINE Goal == Memory' /\ Size' /\ Progress' /\ Locals' /\ Chain'
<1>4. ASSUME UNCHANGED desc  PROVE Memory'
  BY <1>1, <1>4, CapacityKept
<1>5. ASSUME UNCHANGED <<num, descIdx, mapIdx, busAddr, bytesRem, pageRem>>  PROVE Locals'
  BY <1>1, <1>5
<1>6. ASSUME NEW f, NEW n \in Nat, desc' = f, DOMAIN f = 0 .. n - 1,
             \A k \in 0 .. n - 1 : f[k] \in Descriptor
      PROVE  Memory'
  <2>1. Capacity' = n
    BY <1>6, MemorySize DEF Capacity
  <2> QED BY <1>6, <2>1
<1>7. CASE Request \/ RequestFilled \/ RequestWithDescriptors
  <2>1. pc' = "alloc" /\ UNCHANGED <<answer, memory, locals, chain>>
    BY <1>7 DEF Request, RequestFilled, RequestWithDescriptors, Arrives
  <2>2. UNCHANGED <<answer, desc, size, num, descIdx, mapIdx, busAddr, bytesRem, pageRem, chain>>
    BY <2>1 DEF memory, locals
  <2>3. Memory' /\ Locals'
    BY <2>2, <1>4, <1>5
  <2>4. Size' /\ Progress' /\ Chain'
    BY <1>1, <2>1, <2>2
  <2> QED BY <2>3, <2>4, <1>3
<1>8. CASE AllocRefused \/ Refuse
  <2>1. pc' = "refused" /\ answer' \in {"size", "invalid"} /\ UNCHANGED <<memory, locals, chain>>
    BY <1>8 DEF AllocRefused, Refuse, Refused
  <2>2. UNCHANGED <<desc, size, num, descIdx, mapIdx, busAddr, bytesRem, pageRem, chain>>
    BY <2>1 DEF memory, locals
  <2>3. Memory' /\ Locals'
    BY <2>2, <1>4, <1>5
  <2>4. Size' /\ Progress' /\ Chain'
    BY <1>1, <2>1, <2>2
  <2> QED BY <2>3, <2>4, <1>3
<1>9. CASE AllocReuse \/ AllocNew
  <2>1. IsRequest(req)
    BY <1>9 DEF Inv, RequestOK, AllocReuse, AllocNew
  <2>2. AllocSize(req) \in 0 .. SizeMod - 1
    BY <2>1, SizeFacts
  <2>3. AllocSize(req) \in Nat
    BY <1>2, <2>2
  <2>4. UNCHANGED <<num, descIdx, mapIdx, busAddr, bytesRem, pageRem, chain>>
    BY <1>9 DEF AllocReuse, AllocNew, locals
  <2>5. Size' /\ Progress'
    BY <1>1, <1>2, <1>9, <2>2 DEF AllocReuse, AllocNew, Refused
  <2>6. Memory'
    <3>1. CASE UNCHANGED desc
      BY <3>1, <1>4
    <3>2. CASE desc' = [k \in 0 .. AllocSize(req) - 1 |-> Blank]
      <4>1. Blank \in Descriptor
        BY DEF Blank, Descriptor
      <4> QED BY <2>3, <3>2, <4>1, <1>6
    <3>3. CASE desc' = <<>>
      <4>1. DOMAIN <<>> = 0 .. 0 - 1 /\ \A k \in 0 .. 0 - 1 : <<>>[k] \in Descriptor
        OBVIOUS
      <4> HIDE DEF Memory
      <4> QED BY <3>3, <4>1, <1>6
    <3> QED BY <1>9, <3>1, <3>2, <3>3 DEF AllocReuse, AllocNew
  <2>7. Locals' /\ Chain'
    BY <1>1, <2>4, <1>5
  <2> QED BY <2>5, <2>6, <2>7, <1>3
<1>10. CASE CopyDescriptors
  <2>1. req.list \in Seq([pos : Nat, len : Nat, irq : BOOLEAN])
    BY <1>10, RequestFacts DEF Inv, RequestOK, CopyDescriptors
  <2>2. Len(req.list) \in Nat
    BY <2>1
  <2>3. \A k \in 1 .. Len(req.list) : req.list[k] \in Descriptor
    <3>1. \A k \in 1 .. Len(req.list) : req.list[k] \in [pos : Nat, len : Nat, irq : BOOLEAN]
      <4> DEFINE D == [pos : Nat, len : Nat, irq : BOOLEAN]
                 list == req.list
      <4>1. list \in Seq(D)
        BY <2>1
      <4> HIDE DEF D, list
      <4>2. \A k \in 1 .. Len(list) : list[k] \in D
        BY <4>1
      <4> QED BY <4>2 DEF D, list
    <3>2. [pos : Nat, len : Nat, irq : BOOLEAN] \subseteq Descriptor
      BY DEF Descriptor
    <3> QED BY <3>1, <3>2
  <2>4. desc' = [k \in DOMAIN desc |-> IF k < Len(req.list) THEN req.list[k + 1] ELSE desc[k]]
    BY <1>10 DEF CopyDescriptors
  <2>5. Memory'
    <3>1. \A k \in 0 .. Capacity - 1 : k < Len(req.list) => k + 1 \in 1 .. Len(req.list)
      BY <2>2, <1>1
    <3>2. \A k \in 0 .. Capacity - 1 :
            (IF k < Len(req.list) THEN req.list[k + 1] ELSE desc[k]) \in Descriptor
      BY <3>1, <2>3, <1>1
    <3> DEFINE f == [k \in DOMAIN desc |->
                      IF k < Len(req.list) THEN req.list[k + 1] ELSE desc[k]]
    <3>3. DOMAIN f = 0 .. Capacity - 1 /\ \A k \in 0 .. Capacity - 1 : f[k] \in Descriptor
      BY <3>2, <1>1
    <3>4. desc' = f /\ Capacity \in Nat
      BY <2>4, <1>1
    <3> HIDE DEF f, Memory
    <3> QED BY <3>3, <3>4, <1>6
  <2>6. UNCHANGED <<size, descIdx, mapIdx, busAddr, bytesRem, pageRem, chain>> /\ num' \in Nat
    BY <1>1, <1>10, <2>2 DEF CopyDescriptors
  <2>7. Progress'
    BY <1>1, <1>10 DEF CopyDescriptors, Refused
  <2>8. Size' /\ Locals' /\ Chain'
    BY <1>1, <2>6
  <2> QED BY <2>5, <2>7, <2>8, <1>3
<1>11. CASE PlanDescriptors
  <2>1. IsRequest(req) /\ NumDescriptors(req) \in Nat
    BY <1>11, Served DEF PlanDescriptors, Prepared
  <2>2. UNCHANGED <<req, size, pageRem, busAddr, chain>> /\ num' = NumDescriptors(req)
    BY <1>11 DEF PlanDescriptors
  <2>3. \/ UNCHANGED desc
        \/ desc' = [k \in DOMAIN desc |-> IF k < num' THEN Blank ELSE desc[k]]
    BY <1>11 DEF PlanDescriptors
  <2>4. Memory'
    <3>1. Blank \in Descriptor
      BY DEF Blank, Descriptor
    <3>2. \A k \in 0 .. Capacity - 1 : (IF k < num' THEN Blank ELSE desc[k]) \in Descriptor
      BY <3>1, <1>1
    <3> QED BY <2>3, <3>2, <1>1, <1>4, <1>6
  <2>5. StartingIdx(req) \in Nat /\ req.total \in 0 .. Modulus - 1
    <3>1. StartingIdx(req) \in 1 .. NumRanges(req.m) + 1 /\ NumRanges(req.m) \in Nat
      BY <2>1, RequestFacts, StartingFacts, MappingFacts
    <3> QED BY <3>1, <2>1 DEF IsRequest
  <2>6. descIdx' \in Nat /\ mapIdx' \in Nat /\ bytesRem' \in 0 .. Modulus - 1
    BY <1>1, <1>11, <2>5 DEF PlanDescriptors
  <2>7. Progress'
    BY <1>1, <1>11 DEF PlanDescriptors, Refused
  <2>8. Size' /\ Locals' /\ Chain'
    BY <1>1, <2>1, <2>2, <2>6
  <2> QED BY <2>4, <2>7, <2>8, <1>3
<1>12. CASE FillPage
  <2>1. IsRequest(req)
    BY <1>12, Served DEF FillPage, Prepared
  <2>2. UNCHANGED <<answer, desc, size, num, descIdx, mapIdx, bytesRem, chain>>
    BY <1>12 DEF FillPage, memory
  <2>3. pageRem' \in 0 .. Modulus - 1 /\ busAddr' \in Nat
    <3>1. CASE mapIdx \in Ranges(req.m) /\ bytesRem > 0 /\
               LET off == IF mapIdx = StartingIdx(req) THEN StartingOffset(req) ELSE 0
               IN  /\ pageRem' = Min({RangeSize(req.m, mapIdx) - off, bytesRem})
                   /\ busAddr' = RangeAddr(req.m, mapIdx) + off
      <4> DEFINE off == IF mapIdx = StartingIdx(req) THEN StartingOffset(req) ELSE 0
                 s == Start(req.m, mapIdx)
                 e == End(req.m, mapIdx)
      <4>1. /\ s \in Nat /\ e \in Nat /\ s < e /\ req.m.off \in Nat
            /\ Start(req.m, mapIdx) \in Nat
        <5>1. mapIdx \in 1 .. NumRanges(req.m) + 1
          BY <2>1, <3>1, RequestFacts, MappingFacts DEF Ranges
        <5> QED BY <5>1, <2>1, <3>1, RequestFacts, MappingFacts
      <4>2. off \in Nat /\ off < e - s
        <5>1. CASE mapIdx = StartingIdx(req)
          <6>1. req.offset < e /\ s <= req.offset /\ off = req.offset - s /\ req.offset \in Nat
            BY <2>1, <3>1, <5>1, RequestFacts, StartingFacts DEF StartingOffset
          <6> HIDE DEF off, s, e
          <6> QED BY <4>1, <6>1
        <5>2. CASE mapIdx # StartingIdx(req)
          BY <5>2, <4>1
        <5> QED BY <5>1, <5>2
      <4>3. RangeSize(req.m, mapIdx) = e - s
        BY DEF RangeSize
      <4>4. RangeAddr(req.m, mapIdx) \in Nat
        BY <4>1 DEF RangeAddr
      <4>5. pageRem' = Min({e - s - off, bytesRem}) /\ busAddr' = RangeAddr(req.m, mapIdx) + off
        BY <3>1, <4>3
      <4> HIDE DEF off, s, e
      <4>6. e - s - off \in Int /\ e - s - off > 0 /\ bytesRem \in Int
        BY <4>1, <4>2, <1>1, <1>2
      <4>7. pageRem' = IF e - s - off <= bytesRem THEN e - s - off ELSE bytesRem
        <5> DEFINE x == e - s - off
        <5>1. pageRem' = Min({x, bytesRem}) /\ x \in Int /\ bytesRem \in Int
          BY <4>5, <4>6
        <5> HIDE DEF x
        <5>2. pageRem' = IF x <= bytesRem THEN x ELSE bytesRem
          BY <5>1, MinOfTwo
        <5> QED BY <5>2 DEF x
      <4>8. pageRem' \in 0 .. Modulus - 1
        BY <4>6, <4>7, <1>1, <1>2
      <4>9. busAddr' \in Nat
        BY <4>2, <4>4, <4>5
      <4> QED BY <4>8, <4>9
    <3>2. CASE UNCHANGED <<pageRem, busAddr>>
      BY <1>1, <3>2
    <3> QED BY <1>12, <3>1, <3>2 DEF FillPage
  <2>4. Progress'
    BY <1>1, <1>12 DEF FillPage
  <2>5. Memory'
    BY <2>2, <1>4
  <2>6. Size' /\ Locals' /\ Chain'
    BY <1>1, <2>2, <2>3
  <2> QED BY <2>4, <2>5, <2>6, <1>3
<1>13. CASE FillDescriptor
  <2>1. IsRequest(req)
    BY <1>13, Served DEF FillDescriptor, Prepared
  <2>2. TransferLength \in Nat
    <3>1. pageRem \in Int /\ MaxTransfer \in Int /\ pageRem >= 0
      BY <1>1, <1>2
    <3>2. Min({pageRem, MaxTransfer}) \in Nat
      BY <3>1, <1>2, MinOfTwo
    <3> QED BY <2>1, <3>2, RequestFacts DEF TransferLength
  <2>3. /\ desc' = [desc EXCEPT ![descIdx] =
                      [pos |-> busAddr, len |-> TransferLength, irq |-> FALSE]]
        /\ busAddr' = busAddr + TransferLength /\ descIdx' = descIdx + 1
        /\ pageRem' = (pageRem - TransferLength) % Modulus
        /\ bytesRem' = (bytesRem - TransferLength) % Modulus
        /\ mapIdx' \in {mapIdx, mapIdx + 1}
        /\ UNCHANGED <<answer, size, num, chain>>
    BY <1>13 DEF FillDescriptor
  <2>4. Memory'
    <3>1. [pos |-> busAddr, len |-> TransferLength, irq |-> FALSE] \in Descriptor
      BY <1>1, <2>2 DEF Descriptor
    <3>2. DOMAIN desc' = 0 .. Capacity - 1
      BY <1>1, <2>3
    <3>3. \A k \in 0 .. Capacity - 1 : desc'[k] \in Descriptor
      BY <1>1, <2>3, <3>1
    <3> QED BY <3>2, <3>3, <1>1, <1>6
  <2>5. pageRem' \in 0 .. Modulus - 1 /\ bytesRem' \in 0 .. Modulus - 1
    <3>1. \A x \in Int : x % Modulus \in 0 .. Modulus - 1
      BY <1>2
    <3>2. pageRem - TransferLength \in Int /\ bytesRem - TransferLength \in Int
      BY <1>1, <1>2, <2>2
    <3> QED BY <2>3, <3>1, <3>2
  <2>6. Progress'
    BY <1>1, <1>13 DEF FillDescriptor
  <2>7. Size' /\ Locals' /\ Chain'
    BY <1>1, <2>2, <2>3, <2>5
  <2> QED BY <2>4, <2>6, <2>7, <1>3
<1>14. CASE FillControlFlags
  <2>1. /\ desc' = [k \in DOMAIN desc |-> IF k < num
                      THEN [desc[k] EXCEPT !.irq = RaisesIrq(req, k)] ELSE desc[k]]
        /\ UNCHANGED <<answer, size, num, descIdx, mapIdx, busAddr, bytesRem, pageRem, chain>>
    BY <1>14 DEF FillControlFlags, locals
  <2>2. Memory'
    <3>1. \A k : RaisesIrq(req, k) \in BOOLEAN
      BY DEF RaisesIrq
    <3>2. \A k \in 0 .. Capacity - 1 :
            [desc[k] EXCEPT !.irq = RaisesIrq(req, k)] \in Descriptor
      BY <3>1, <1>1 DEF Descriptor
    <3>3. \A k \in 0 .. Capacity - 1 :
            (IF k < num THEN [desc[k] EXCEPT !.irq = RaisesIrq(req, k)] ELSE desc[k])
              \in Descriptor
      BY <3>2, <1>1
    <3> DEFINE new(k) == IF k < num THEN [desc[k] EXCEPT !.irq = RaisesIrq(req, k)] ELSE desc[k]
    <3>4. desc' = [k \in DOMAIN desc |-> new(k)]
      BY <2>1
    <3>5. \A k \in 0 .. Capacity - 1 : new(k) \in Descriptor
      BY <3>3
    <3> HIDE DEF new
    <3> DEFINE f == [k \in DOMAIN desc |-> new(k)]
    <3>6. DOMAIN f = 0 .. Capacity - 1 /\ \A k \in 0 .. Capacity - 1 : f[k] \in Descriptor
      BY <3>5, <1>1
    <3>7. desc' = f /\ Capacity \in Nat
      BY <3>4, <1>1
    <3> HIDE DEF f, Memory
    <3> QED BY <3>6, <3>7, <1>6
  <2>3. Progress'
    BY <1>1, <1>14 DEF FillControlFlags
  <2>4. Size' /\ Locals' /\ Chain'
    BY <1>1, <2>1
  <2> QED BY <2>2, <2>3, <2>4, <1>3
<1>15. CASE SetDescSize
  <2>1. size' = num + Terminators(req) /\ pc' = "start"
        /\ UNCHANGED <<answer, desc, num, descIdx, mapIdx, busAddr, bytesRem, pageRem, chain>>
    BY <1>15 DEF SetDescSize, locals
  <2>2. size' \in 0 .. SizeMod - 1
    <3>1. num <= DataSize(req) /\ num \in Nat
      BY <1>1, <1>15 DEF Inv, PlanOK, SetDescSize, Prepared
    <3>2. /\ Terminators(req) \in {0, 1} /\ DataSize(req) \in Nat
          /\ AllocSize(req) = DataSize(req) + Terminators(req)
          /\ AllocSize(req) \in 0 .. SizeMod - 1
      BY <1>15, Served, SizeFacts DEF SetDescSize, Prepared
    <3> QED BY <2>1, <3>1, <3>2, <1>2
  <2>3. Memory'
    BY <2>1, <1>4
  <2>4. Size' /\ Progress' /\ Locals' /\ Chain'
    BY <1>1, <2>1, <2>2
  <2> QED BY <2>3, <2>4, <1>3
<1>16. CASE StartChain
  <2>1. /\ size \in 1 .. Capacity /\ chain' = Links /\ pc' = "running"
        /\ UNCHANGED <<answer, desc, size, num, descIdx, mapIdx, busAddr, bytesRem, pageRem>>
    BY <1>16 DEF StartChain, locals, memory
  <2>2. size \in Nat /\ size > 0
    BY <1>1, <2>1
  <2>3. Chain'
    <3>1. DOMAIN chain' = 0 .. size - 1
      BY <2>1 DEF Links
    <3>2. ASSUME NEW k \in 0 .. size - 1
          PROVE  chain'[k].own \in BOOLEAN /\ chain'[k].next \in 0 .. size - 1
      BY <2>1, <2>2 DEF Links
    <3> QED BY <3>1, <3>2
  <2>4. Memory'
    BY <2>1, <1>4
  <2>5. Size' /\ Progress' /\ Locals'
    BY <1>1, <2>1
  <2> QED BY <2>3, <2>4, <2>5, <1>3
<1>17. CASE Finish
  <2>1. /\ desc' = [k \in DOMAIN desc |-> Stale] /\ size' \in {0, size}
        /\ pc' = "idle" /\ answer' = "none" /\ chain' = <<>>
        /\ num' = 0 /\ descIdx' = 0 /\ mapIdx' = 0 /\ bytesRem' = 0 /\ pageRem' = 0
        /\ busAddr' = 0
    BY <1>17 DEF Finish
  <2>2. Memory'
    <3>1. Stale \in Descriptor
      BY DEF Stale, Descriptor
    <3> QED BY <2>1, <3>1, <1>1, <1>6
  <2>3. Size' /\ Progress' /\ Locals' /\ Chain'
    BY <1>1, <1>2, <2>1
  <2> QED BY <2>2, <2>3, <1>3
<1>18. CASE UNCHANGED vars
  <2>1. UNCHANGED <<pc, answer, desc, size, num, descIdx, mapIdx, busAddr, bytesRem, pageRem, chain>>
    BY <1>18 DEF vars, memory, locals
  <2>2. Memory' /\ Locals'
    BY <2>1, <1>4, <1>5
  <2>3. Size' /\ Progress' /\ Chain'
    BY <1>1, <2>1
  <2> QED BY <2>2, <2>3, <1>3
<1>19. CASE WriteOutside \/ LinkOutside
  <2>1. /\ pc' = "astray"
        /\ UNCHANGED <<answer, desc, size, num, descIdx, mapIdx, busAddr, bytesRem, pageRem, chain>>
    BY <1>19, StrayStep
  <2>2. Memory' /\ Locals'
    BY <2>1, <1>4, <1>5
  <2>3. Size' /\ Progress' /\ Chain'
    BY <1>1, <2>1
  <2> QED BY <2>2, <2>3, <1>3
<1> QED
  BY <1>7, <1>8, <1>9, <1>10, <1>11, <1>12, <1>13, <1>14, <1>15, <1>16, <1>17, <1>18, <1>19
  DEF Next, GoneAstray

\* What the steps of a request in progress have in common
LEMMA Frame ==
  ASSUME Inv, [Next]_vars
  PROVE  /\ pc' \in Prepared \cup {"check"} => req' = req
         /\ pc' \in Prepared => pc \in Prepared \cup {"check"} /\ DOMAIN desc' = DOMAIN desc
         /\ pc' \in Prepared /\ pc = "check" => PlanDescriptors \/ CopyDescriptors
         /\ pc' \in Prepared /\ pc # "check" => num' = num
<1> USE DEF Prepared
<1>1. CASE Request \/ RequestFilled \/ RequestWithDescriptors
  BY <1>1 DEF Request, RequestFilled, RequestWithDescriptors, Arrives
<1>2. CASE AllocRefused \/ Refuse \/ Finish
  BY <1>2 DEF AllocRefused, Refuse, Refused, Finish
<1>3. CASE AllocReuse \/ AllocNew
  BY <1>3 DEF AllocReuse, AllocNew, Refused
<1>4. CASE CopyDescriptors \/ PlanDescriptors
  BY <1>4 DEF CopyDescriptors, PlanDescriptors, Refused
<1>5. CASE FillPage \/ FillDescriptor
  BY <1>5 DEF FillPage, FillDescriptor, memory
<1>6. CASE FillControlFlags \/ SetDescSize \/ StartChain \/ UNCHANGED vars
  BY <1>6 DEF FillControlFlags, SetDescSize, StartChain, vars, memory, locals
<1>7. CASE WriteOutside \/ LinkOutside
  BY <1>7, StrayStep
<1> QED BY <1>1, <1>2, <1>3, <1>4, <1>5, <1>6, <1>7 DEF Next, GoneAstray

LEMMA MemoryStep ==
  ASSUME Inv, [Next]_vars
  PROVE  MemoryOK'
<1>1. ASSUME pc' \in Prepared
      PROVE  AllocSize(req') \in LegalSizes /\ AllocSize(req') <= Capacity'
  <2>1. pc \in Prepared \cup {"check"} /\ DOMAIN desc' = DOMAIN desc /\ req' = req
    BY <1>1, Frame
  <2>2. AllocSize(req) \in LegalSizes /\ AllocSize(req) <= Capacity
    BY <2>1 DEF Inv, MemoryOK
  <2> QED BY <2>1, <2>2, CapacityKept
<1>2. ASSUME pc' = "check"
      PROVE  /\ AllocSize(req') \in LegalSizes /\ AllocSize(req') <= Capacity'
             /\ size' = AllocSize(req')
  <2>1. CASE UNCHANGED vars
    <3>1. pc = "check" /\ UNCHANGED <<req, size, desc>>
      BY <1>2, <2>1 DEF vars, memory
    <3>2. Capacity' = Capacity
      BY <3>1, CapacityKept
    <3> QED BY <3>1, <3>2 DEF Inv, MemoryOK
  <2>2. CASE AllocReuse
    <3>1. UNCHANGED <<req, desc>> /\ AllocSize(req) \in LegalSizes
          /\ AllocSize(req) <= Capacity /\ size' = AllocSize(req)
      BY <2>2 DEF AllocReuse
    <3>2. Capacity' = Capacity
      BY <3>1, CapacityKept
    <3> QED BY <3>1, <3>2
  <2>3. CASE AllocNew
    <3>1. /\ req' = req /\ AllocSize(req) \in LegalSizes /\ size' = AllocSize(req)
          /\ desc' = [k \in 0 .. AllocSize(req) - 1 |-> Blank] /\ pc = "alloc"
      BY <1>2, <2>3 DEF AllocNew, Refused
    <3>2. AllocSize(req) \in Nat
      <4>1. AllocSize(req) \in 0 .. SizeMod - 1 /\ SizeMod \in Nat
        BY <3>1, SizeFacts, DescriptorsAssumption DEF Inv, RequestOK
      <4> QED BY <4>1
    <3>3. Capacity' = AllocSize(req)
      BY <3>1, <3>2, MemorySize DEF Capacity
    <3> QED BY <3>1, <3>2, <3>3
  <2>4. CASE Request \/ RequestFilled \/ RequestWithDescriptors \/ AllocRefused \/ Refuse
             \/ CopyDescriptors \/ PlanDescriptors
    BY <1>2, <2>4 DEF Request, RequestFilled, RequestWithDescriptors, Arrives, AllocRefused,
                      Refuse, CopyDescriptors, PlanDescriptors, Refused
  <2>5. CASE FillPage \/ FillDescriptor \/ FillControlFlags \/ SetDescSize \/ StartChain \/ Finish
    BY <1>2, <2>5 DEF FillPage, FillDescriptor, FillControlFlags, SetDescSize, StartChain, Finish
  <2>6. CASE WriteOutside \/ LinkOutside
    BY <1>2, <2>6, StrayStep
  <2> QED BY <2>1, <2>2, <2>3, <2>4, <2>5, <2>6 DEF Next, GoneAstray
<1>3. ASSUME pc' \in {"start", "running"}  PROVE size' = num' + Terminators(req')
  <2>1. CASE CopyDescriptors
    <3>1. /\ num' = Len(req.list) /\ size' = size /\ req' = req
          /\ pc = "check" /\ req.kind = "user"
      BY <1>3, <2>1 DEF CopyDescriptors, Refused
    <3>2. IsRequest(req) /\ AllocSize(req) = DataSize(req) + Terminators(req)
      BY <3>1, Served
    <3>3. DataSize(req) = Len(req.list)
      BY <3>1, <3>2, SizeFacts
    <3>4. size = AllocSize(req)
      BY <3>1 DEF Inv, MemoryOK
    <3> QED BY <3>1, <3>2, <3>3, <3>4
  <2>2. CASE SetDescSize
    BY <2>2 DEF SetDescSize, locals
  <2>3. CASE StartChain
    BY <2>3 DEF StartChain, memory, locals, Inv, MemoryOK
  <2>4. CASE UNCHANGED vars
    BY <1>3, <2>4 DEF vars, memory, locals, Inv, MemoryOK
  <2>5. CASE Request \/ RequestFilled \/ RequestWithDescriptors \/ AllocRefused \/ Refuse
             \/ AllocReuse \/ AllocNew \/ PlanDescriptors
    BY <1>3, <2>5 DEF Request, RequestFilled, RequestWithDescriptors, Arrives, AllocRefused,
                      Refuse, AllocReuse, AllocNew, PlanDescriptors, Refused
  <2>6. CASE FillPage \/ FillDescriptor \/ FillControlFlags \/ Finish
    BY <1>3, <2>6 DEF FillPage, FillDescriptor, FillControlFlags, Finish
  <2>7. CASE WriteOutside \/ LinkOutside
    BY <1>3, <2>7, StrayStep
  <2> QED BY <2>1, <2>2, <2>3, <2>4, <2>5, <2>6, <2>7 DEF Next, GoneAstray
<1>4. ASSUME pc' = "running"  PROVE size' # 0
  <2>1. CASE StartChain
    BY <2>1 DEF StartChain, memory, Inv, TypeOK
  <2>2. CASE UNCHANGED vars
    BY <1>4, <2>2 DEF vars, memory, Inv, MemoryOK
  <2>3. CASE Request \/ RequestFilled \/ RequestWithDescriptors \/ AllocRefused \/ Refuse
             \/ AllocReuse \/ AllocNew \/ CopyDescriptors \/ PlanDescriptors
    BY <1>4, <2>3 DEF Request, RequestFilled, RequestWithDescriptors, Arrives, AllocRefused,
                      Refuse, AllocReuse, AllocNew, CopyDescriptors, PlanDescriptors, Refused
  <2>4. CASE FillPage \/ FillDescriptor \/ FillControlFlags \/ SetDescSize \/ Finish
    BY <1>4, <2>4 DEF FillPage, FillDescriptor, FillControlFlags, SetDescSize, Finish
  <2>5. CASE WriteOutside \/ LinkOutside
    BY <1>4, <2>5, StrayStep
  <2> QED BY <2>1, <2>2, <2>3, <2>4, <2>5 DEF Next, GoneAstray
<1> QED BY <1>1, <1>2, <1>3, <1>4 DEF MemoryOK, Prepared

LEMMA PlanStep ==
  ASSUME Inv, [Next]_vars
  PROVE  PlanOK'
<1> SUFFICES ASSUME pc' \in Prepared
             PROVE  /\ num' <= DataSize(req')
                    /\ IF req'.kind = "user" THEN num' = Len(req'.list)
                       ELSE num' = NumDescriptors(req') /\ ValidParams(req')
  BY DEF PlanOK
<1>1. pc \in Prepared \cup {"check"} /\ req' = req
  BY Frame
<1>2. CASE pc # "check"
  BY <1>1, <1>2, Frame DEF Inv, PlanOK
<1>3. CASE CopyDescriptors
  <2>1. num' = Len(req.list) /\ pc = "check" /\ req.kind = "user"
    BY <1>3 DEF CopyDescriptors, Refused, Prepared
  <2>2. DataSize(req) = Len(req.list) /\ DataSize(req) \in Nat
    BY <2>1, Served, SizeFacts
  <2> QED BY <1>1, <2>1, <2>2
<1>4. CASE PlanDescriptors
  BY <1>1, <1>4 DEF PlanDescriptors, Refused, Prepared
<1> QED BY <1>1, <1>2, <1>3, <1>4, Frame

LEMMA FreshStep ==
  ASSUME Inv, [Next]_vars
  PROVE  FreshOK'
<1> SUFFICES ASSUME pc' \in Prepared, NEW k \in 0 .. num' - 1
             PROVE  desc'[k].pos \in Nat
  BY DEF FreshOK, Data
<1>1. pc \in Prepared \cup {"check"} /\ DOMAIN desc' = DOMAIN desc /\ req' = req
  BY Frame
<1>2. k \in DOMAIN desc /\ k \in Nat /\ k < num'
  <2>1. TypeOK' /\ MemoryOK' /\ PlanOK' /\ RequestOK'
    BY TypeStep, MemoryStep, PlanStep, RequestStep
  <2>2. IsRequest(req') /\ AllocSize(req') \in LegalSizes /\ AllocSize(req') <= Capacity'
        /\ num' <= DataSize(req') /\ num' \in Nat
        /\ Capacity' \in Nat /\ DOMAIN desc' = 0 .. Capacity' - 1
    BY <2>1 DEF RequestOK, MemoryOK, PlanOK, TypeOK, Prepared
  <2>3. DataSize(req') \in Nat /\ Terminators(req') \in {0, 1}
        /\ AllocSize(req') = DataSize(req') + Terminators(req')
    <3>1. DataSize(req') \in 0 .. SizeMod - 1 /\ SizeMod \in Nat
      BY <2>2, SizeFacts, DescriptorsAssumption
    <3>2. Terminators(req') \in {0, 1} /\ AllocSize(req') = DataSize(req') + Terminators(req')
      BY <2>2, SizeFacts
    <3> QED BY <3>1, <3>2
  <2>4. k \in Nat /\ k < num' /\ k \in 0 .. Capacity' - 1
    <3> DEFINE n == num'
               c == Capacity'
               d == DataSize(req')
               a == AllocSize(req')
               t == Terminators(req')
    <3>1. n <= d /\ a <= c /\ a = d + t /\ n \in Nat /\ d \in Nat /\ c \in Nat /\ t \in {0, 1}
      BY <2>2, <2>3
    <3>2. k \in 0 .. n - 1
      OBVIOUS
    <3> HIDE DEF n, c, d, a, t
    <3>3. k \in Nat /\ k < n /\ k \in 0 .. c - 1
      BY <3>1, <3>2
    <3> QED BY <3>3 DEF n, c
  <2> QED BY <1>1, <2>2, <2>4
<1>3. \A i \in DOMAIN desc :
        desc[i] \in [pos : Nat \cup {-1}, len : Nat, irq : BOOLEAN] /\ busAddr \in Nat
  BY DEF Inv, TypeOK
<1>4. ASSUME pc # "check"  PROVE desc[k].pos \in Nat
  <2>1. k \in Data /\ pc \in Prepared
    BY <1>1, <1>4, <1>2, Frame DEF Data
  <2> QED BY <2>1 DEF Inv, FreshOK
<1>5. CASE UNCHANGED desc /\ pc # "check"
  BY <1>4, <1>5
<1>6. CASE CopyDescriptors
  <2>1. /\ desc' = [i \in DOMAIN desc |->
                      IF i < Len(req.list) THEN req.list[i + 1] ELSE desc[i]]
        /\ num' = Len(req.list) /\ pc = "check"
    BY <1>6 DEF CopyDescriptors, Refused, Prepared
  <2>2. desc'[k] = req.list[k + 1] /\ k + 1 \in 1 .. Len(req.list)
    BY <1>2, <2>1
  <2>3. req.list[k + 1] \in [pos : Nat, len : Nat, irq : BOOLEAN]
    <3> DEFINE D == [pos : Nat, len : Nat, irq : BOOLEAN]
               list == req.list
    <3>1. list \in Seq(D)
      BY <2>1, Served, RequestFacts
    <3>2. k + 1 \in 1 .. Len(list)
      BY <2>2
    <3> HIDE DEF D, list
    <3>3. list[k + 1] \in D
      BY <3>1, <3>2
    <3> QED BY <3>3 DEF D, list
  <2> QED BY <2>2, <2>3
<1>7. CASE PlanDescriptors
  BY <1>2, <1>7 DEF PlanDescriptors, Refused, Prepared, Blank
<1>8. CASE FillDescriptor
  <2>1. /\ desc' = [desc EXCEPT ![descIdx] =
                      [pos |-> busAddr, len |-> TransferLength, irq |-> FALSE]]
        /\ descIdx \in DOMAIN desc /\ pc # "check"
    BY <1>8 DEF FillDescriptor
  <2> QED BY <1>2, <1>3, <1>4, <2>1
<1>9. CASE FillControlFlags
  <2>1. /\ desc' = [i \in DOMAIN desc |->
                      IF i < num THEN [desc[i] EXCEPT !.irq = RaisesIrq(req, i)] ELSE desc[i]]
        /\ pc # "check"
    BY <1>9 DEF FillControlFlags
  <2>2. desc'[k].pos = desc[k].pos
    BY <1>2, <1>3, <2>1
  <2> QED BY <1>4, <2>1, <2>2
<1>10. CASE FillPage \/ SetDescSize \/ StartChain \/ UNCHANGED vars
  <2>1. UNCHANGED desc /\ pc # "check"
    BY <1>10, Frame DEF FillPage, SetDescSize, StartChain, vars, memory, PlanDescriptors,
                        CopyDescriptors, Prepared
  <2> QED BY <2>1, <1>5
<1>11. CASE Request \/ RequestFilled \/ RequestWithDescriptors \/ AllocRefused \/ Refuse
            \/ AllocReuse \/ AllocNew \/ Finish
  BY <1>11 DEF Request, RequestFilled, RequestWithDescriptors, Arrives, AllocRefused,
               Refuse, AllocReuse, AllocNew, Finish, Refused, Prepared
<1>12. CASE WriteOutside \/ LinkOutside
  BY <1>12, StrayStep DEF Prepared
<1> QED
  BY <1>6, <1>7, <1>8, <1>9, <1>10, <1>11, <1>12 DEF Next, GoneAstray

LEMMA FlagsStep ==
  ASSUME Inv, [Next]_vars
  PROVE  FlagsOK'
<1> SUFFICES ASSUME pc' \in {"copy", "start", "running"}, req'.kind # "user",
                    NEW k \in 0 .. num' - 1
             PROVE  desc'[k].irq = RaisesIrq(req, k)'
  BY DEF FlagsOK, Data
<1>1. pc \in Prepared \cup {"check"} /\ DOMAIN desc' = DOMAIN desc /\ req' = req
  BY Frame DEF Prepared
<1>2. CASE PlanDescriptors
  <2>1. num' = 0
    BY <1>2 DEF PlanDescriptors, Refused
  <2> QED BY <2>1
<1>3. CASE FillControlFlags
  <2>1. /\ desc' = [i \in DOMAIN desc |->
                      IF i < num THEN [desc[i] EXCEPT !.irq = RaisesIrq(req, i)] ELSE desc[i]]
        /\ num' = num /\ pc = "flags"
    BY <1>3 DEF FillControlFlags, locals
  <2>2. k \in DOMAIN desc /\ k < num
    <3>1. num \in Nat /\ Data \subseteq DOMAIN desc
      BY <2>1, Served DEF Prepared
    <3> QED BY <2>1, <3>1 DEF Data
  <2>3. desc[k] \in [pos : Nat \cup {-1}, len : Nat, irq : BOOLEAN]
    BY <2>2 DEF Inv, TypeOK
  <2>4. desc'[k].irq = RaisesIrq(req, k)
    BY <2>1, <2>2, <2>3
  <2> QED BY <1>1, <2>1, <2>4 DEF RaisesIrq
<1>4. CASE SetDescSize \/ StartChain \/ UNCHANGED vars
  <2>1. UNCHANGED <<desc, num>> /\ pc \in {"copy", "start", "running"}
    BY <1>4 DEF SetDescSize, StartChain, vars, memory, locals
  <2>2. desc[k].irq = RaisesIrq(req, k)
    BY <1>1, <2>1 DEF Inv, FlagsOK, Data
  <2> QED BY <1>1, <2>1, <2>2 DEF RaisesIrq
<1>5. CASE Request \/ RequestFilled \/ RequestWithDescriptors \/ AllocRefused \/ Refuse
           \/ AllocReuse \/ AllocNew \/ CopyDescriptors
  BY <1>1, <1>5 DEF Request, RequestFilled, RequestWithDescriptors, Arrives, AllocRefused,
                    Refuse, AllocReuse, AllocNew, CopyDescriptors, Refused
<1>6. CASE FillPage \/ FillDescriptor \/ Finish
  BY <1>6 DEF FillPage, FillDescriptor, Finish
<1>7. CASE WriteOutside \/ LinkOutside
  BY <1>7, StrayStep
<1> QED BY <1>2, <1>3, <1>4, <1>5, <1>6, <1>7 DEF Next, GoneAstray

LEMMA ChainStep ==
  ASSUME Inv, [Next]_vars
  PROVE  ChainOK'
<1> SUFFICES ASSUME pc' = "running"  PROVE chain' = Links'
  BY DEF ChainOK
<1>1. CASE StartChain
  BY <1>1 DEF StartChain, Links, memory
<1>2. CASE UNCHANGED vars
  BY <1>2 DEF vars, memory, Links, Inv, ChainOK
<1>3. CASE Request \/ RequestFilled \/ RequestWithDescriptors \/ AllocRefused \/ Refuse
           \/ AllocReuse \/ AllocNew \/ CopyDescriptors \/ PlanDescriptors
  BY <1>3 DEF Request, RequestFilled, RequestWithDescriptors, Arrives, AllocRefused,
              Refuse, AllocReuse, AllocNew, CopyDescriptors, PlanDescriptors, Refused
<1>4. CASE FillPage \/ FillDescriptor \/ FillControlFlags \/ SetDescSize \/ Finish
  BY <1>4 DEF FillPage, FillDescriptor, FillControlFlags, SetDescSize, Finish
<1>5. CASE WriteOutside \/ LinkOutside
  BY <1>5, StrayStep
<1> QED BY <1>1, <1>2, <1>3, <1>4, <1>5 DEF Next, GoneAstray

LEMMA Initially ==
  ASSUME Init
  PROVE  Inv
<1> USE DEF Init
<1>1. Capacity = 0 /\ DOMAIN desc = 0 .. 0 - 1
  <2>1. DOMAIN desc = 0 .. 0 - 1
    OBVIOUS
  <2> QED BY <2>1, MemorySize DEF Capacity
<1>2. 0 \in 0 .. SizeMod - 1 /\ 0 \in 0 .. Modulus - 1
  <2>1. SizeMod \in Nat \ {0} /\ Modulus \in Nat \ {0}
    BY DescriptorsAssumption
  <2> QED BY <2>1
<1>3. TypeOK
  BY <1>1, <1>2 DEF TypeOK
<1> QED BY <1>3 DEF Inv, RequestOK, MemoryOK, PlanOK, FreshOK, FlagsOK, ChainOK, Prepared

LEMMA InvHolds == Spec => []Inv
<1>1. Inv /\ [Next]_vars => Inv'
  BY RequestStep, TypeStep, MemoryStep, PlanStep, FreshStep, FlagsStep, ChainStep DEF Inv
<1> QED BY Initially, <1>1, PTL DEF Spec

\* Every variable has its type, whatever validation lets through.
THEOREM DescriptorTypesCorrect == Spec => []TypeOK
<1>1. Inv => TypeOK
  BY DEF Inv
<1> QED BY InvHolds, <1>1, PTL

-----------------------------------------------------------------------------
(* The walk of the device                                                   *)

LEMMA NextInRing ==
  ASSUME NEW n \in Nat \ {0}, NEW k \in Nat
  PROVE  /\ k % n \in 0 .. n - 1
         /\ (k + 1) % n = IF k % n = n - 1 THEN 0 ELSE (k % n) + 1
<1>1. PICK q \in Nat, x \in 0 .. n - 1 : k = q * n + x /\ k % n = x
  <2>1. k \div n \in Nat /\ k % n \in 0 .. n - 1
    OBVIOUS
  <2>2. PICK q \in Nat, x \in 0 .. n - 1 : q = k \div n /\ x = k % n
    BY <2>1
  <2>3. k = q * n + x
    BY <2>2, SMTT(60)
  <2> QED BY <2>2, <2>3
<1>2. \A p \in Nat, y \in 0 .. n - 1 : (p * n + y) % n = y
  OBVIOUS
<1>3. CASE x = n - 1
  <2>1. k + 1 = (q + 1) * n + 0 /\ q + 1 \in Nat /\ 0 \in 0 .. n - 1
    BY <1>1, <1>3
  <2>2. (k + 1) % n = 0
    BY <2>1, <1>2
  <2> QED BY <1>1, <1>3, <2>2
<1>4. CASE x # n - 1
  <2>1. k + 1 = q * n + (x + 1) /\ x + 1 \in 0 .. n - 1
    BY <1>1, <1>4
  <2>2. (k + 1) % n = x + 1
    BY <2>1, <1>1, <1>2
  <2> QED BY <1>1, <1>4, <2>2
<1> QED BY <1>3, <1>4

\* The device goes through the memory from the first descriptor to the last one, and
\* from there to the first.
LEMMA FetchedInOrder ==
  ASSUME size \in Nat \ {0}, chain = Links
  PROVE  /\ \A k \in 0 .. size - 1 : Fetched[k] = k
         /\ Fetched[size] = 0
<1> DEFINE Def(f) == f = [k \in Nat |-> IF k = 0 THEN 0 ELSE chain[f[k - 1]].next]
           w == [k \in Nat |-> k % size]
<1>1. \A k \in 0 .. size - 1 : chain[k].next = IF k = size - 1 THEN 0 ELSE k + 1
  BY DEF Links
<1>2. Def(w)
  <2>1. ASSUME NEW k \in Nat
        PROVE  k % size = IF k = 0 THEN 0 ELSE chain[w[k - 1]].next
    <3>1. CASE k = 0
      BY <3>1
    <3>2. CASE k # 0
      <4>1. k - 1 \in Nat /\ k - 1 + 1 = k
        BY <3>2
      <4>2. (k - 1) % size \in 0 .. size - 1 /\ k % size =
              IF (k - 1) % size = size - 1 THEN 0 ELSE ((k - 1) % size) + 1
        BY <4>1, NextInRing
      <4>3. w[k - 1] = (k - 1) % size
        BY <4>1
      <4> HIDE DEF w
      <4> QED BY <3>2, <4>2, <4>3, <1>1
    <3> QED BY <3>1, <3>2
  <2> DEFINE e(k) == IF k = 0 THEN 0 ELSE chain[w[k - 1]].next
  <2>2. w = [k \in Nat |-> e(k)]
    BY <2>1
  <2> QED BY <2>2
<1> DEFINE f == Fetched
<1>3. f = CHOOSE g : Def(g)
  BY DEF Fetched
<1>4. Def(f)
  <2> HIDE DEF w, Def, f
  <2> QED BY <1>2, <1>3
<1> HIDE DEF f
<1>5. f[0] = 0 /\ \A k \in Nat : f[k + 1] = chain[f[k]].next
  BY <1>4
<1>6. \A k \in 0 .. size - 1 : f[k] = k
  <2> DEFINE S == {k \in Nat : k \in 0 .. size - 1 => f[k] = k}
  <2>1. 0 \in S
    BY <1>5
  <2>2. \A k \in 0 .. (size - 1) - 1 : k \in S => k + 1 \in S
    <3> SUFFICES ASSUME NEW k \in 0 .. (size - 1) - 1, f[k] = k  PROVE f[k + 1] = k + 1
      OBVIOUS
    <3>1. k \in Nat /\ k \in 0 .. size - 1 /\ k # size - 1
      OBVIOUS
    <3> QED BY <3>1, <1>1, <1>5
  <2>3. size - 1 \in Nat
    OBVIOUS
  <2> HIDE DEF S
  <2>4. 0 .. size - 1 \subseteq S
    BY <2>1, <2>2, <2>3, UpTo
  <2> QED BY <2>4 DEF S
<1>7. f[size] = 0
  <2>1. size - 1 \in Nat /\ size - 1 + 1 = size /\ size - 1 \in 0 .. size - 1
    OBVIOUS
  <2>2. f[size - 1] = size - 1
    BY <2>1, <1>6
  <2>3. f[size - 1 + 1] = chain[f[size - 1]].next
    BY <2>1, <1>5
  <2> QED BY <2>1, <2>2, <2>3, <1>1
<1> QED BY <1>6, <1>7 DEF f

LEMMA Running ==
  ASSUME Inv, pc = "running"
  PROVE  /\ size \in Nat \ {0} /\ chain = Links
         /\ num \in Nat /\ size = num + Terminators(req) /\ Terminators(req) \in {0, 1}
         /\ Data \subseteq 0 .. size - 1
<1>1. num \in Nat /\ Terminators(req) \in {0, 1} /\ chain = Links
  BY Served DEF Prepared, Inv, ChainOK
<1>2. size = num + Terminators(req)
  BY DEF Inv, MemoryOK
<1>3. size # 0
  BY DEF Inv, MemoryOK
<1> QED BY <1>1, <1>2, <1>3 DEF Data

\* The descriptors the device fetches are those of this request, each of them once, and
\* after them nothing, or the first one again (build_descriptor_links).
THEOREM ChainsAreClosed == Spec => []ChainIsClosed
<1>1. ASSUME Inv, pc = "running"
      PROVE  /\ {Fetched[k] : k \in Data} = Data
             /\ \A k \in Data : chain[k].own /\ chain[k].data # Stale
             /\ IF IsStream(req) THEN Fetched[num] = 0 ELSE ~chain[Fetched[num]].own
  <2>1. /\ size \in Nat \ {0} /\ chain = Links /\ num \in Nat
        /\ size = num + Terminators(req) /\ Terminators(req) \in {0, 1}
        /\ Data \subseteq 0 .. size - 1
    BY <1>1, Running
  <2>2. (\A k \in 0 .. size - 1 : Fetched[k] = k) /\ Fetched[size] = 0
    BY <2>1, FetchedInOrder
  <2>3. {Fetched[k] : k \in Data} = Data
    BY <2>1, <2>2
  <2>4. ASSUME NEW k \in Data  PROVE chain[k].own /\ chain[k].data # Stale
    <3>1. k \in 0 .. size - 1 /\ (k = size - 1 => IsStream(req))
      BY <2>1 DEF Data, Terminators
    <3>2. chain[k].own /\ chain[k].data = desc[k]
      BY <2>1, <3>1 DEF Links
    <3>3. desc[k].pos \in Nat
      BY <1>1 DEF Inv, FreshOK, Prepared
    <3>4. Stale.pos \notin Nat
      BY DEF Stale
    <3> QED BY <3>2, <3>3, <3>4
  <2>5. CASE IsStream(req)
    <3>1. size = num
      BY <2>1, <2>5 DEF Terminators
    <3> QED BY <2>2, <2>3, <2>4, <2>5, <3>1
  <2>6. CASE ~IsStream(req)
    <3>1. num = size - 1 /\ num \in 0 .. size - 1
      BY <2>1, <2>6 DEF Terminators
    <3>2. Fetched[num] = num
      BY <2>2, <3>1
    <3>3. ~chain[num].own
      BY <2>1, <2>6, <3>1 DEF Links
    <3> QED BY <2>3, <2>4, <2>6, <3>2, <3>3
  <2> QED BY <2>5, <2>6
<1>2. Inv => ChainIsClosed
  BY <1>1 DEF ChainIsClosed
<1> QED BY InvHolds, <1>2, PTL

LEMMA EveryInterval ==
  ASSUME NEW k \in Nat, NEW n \in Nat \ {0}
  PROVE  k % n = n - 1 <=> (k + 1) % n = 0
<1>1. /\ k % n \in 0 .. n - 1
      /\ (k + 1) % n = IF k % n = n - 1 THEN 0 ELSE (k % n) + 1
  BY NextInRing
<1> DEFINE x == k % n
           y == (k + 1) % n
<1> HIDE DEF x, y
<1>2. x = n - 1 <=> y = 0
  BY <1>1 DEF x, y
<1> QED BY <1>2 DEF x, y

\* A one-shot interrupts at its end, and only there if it has no interval; a stream at
\* equal distances all around its ring (fill_control_flags).
THEOREM InterruptsAreComplete == Spec => []InterruptsComplete
<1>1. ASSUME Inv, Generated
      PROVE  /\ ~IsStream(req) /\ num > 0 => num - 1 \in Irqs
             /\ ~IsStream(req) /\ num > 0 /\ req.interval = 0 => Irqs = {num - 1}
             /\ IsStream(req) /\ req.perDesc > 0 /\ req.interval > 0 =>
                  /\ num % req.interval = 0
                  /\ Irqs = {k \in Data : (k + 1) % req.interval = 0}
  <2>1. pc = "running" /\ req.kind # "user"
    BY <1>1 DEF Generated
  <2>2. /\ size \in Nat \ {0} /\ chain = Links /\ num \in Nat
        /\ size = num + Terminators(req) /\ Terminators(req) \in {0, 1}
        /\ Data \subseteq 0 .. size - 1
    BY <1>1, <2>1, Running
  <2>3. ASSUME NEW k \in Data  PROVE chain[k].data.irq = RaisesIrq(req, k)
    <3>1. k \in 0 .. size - 1 /\ (k = size - 1 => IsStream(req))
      BY <2>2 DEF Data, Terminators
    <3>2. chain[k].data = desc[k]
      BY <2>2, <3>1 DEF Links
    <3> QED BY <1>1, <2>1, <3>2 DEF Inv, FlagsOK
  <2>4. Irqs = {k \in Data : RaisesIrq(req, k)}
    BY <2>3 DEF Irqs
  <2>5. CASE ~IsStream(req)
    <3>1. Irqs = {k \in Data : k = num - 1}
      BY <2>4, <2>5 DEF RaisesIrq
    <3>2. num > 0 => Irqs = {num - 1}
      BY <2>2, <3>1 DEF Data
    <3> QED BY <2>5, <3>2
  <2>6. CASE IsStream(req) /\ req.perDesc > 0 /\ req.interval > 0
    <3>1. num = req.total \div req.perDesc /\ ValidParams(req)
      BY <1>1, <2>1, <2>6 DEF Inv, PlanOK, Prepared, NumDescriptors
    <3>2. num % req.interval = 0
      BY <2>6, <3>1 DEF ValidParams
    <3>3. req.interval \in Nat \ {0}
      BY <1>1, <2>1, <2>6, RequestFacts DEF Inv, RequestOK
    <3>4. Irqs = {k \in Data : k % req.interval = req.interval - 1}
      BY <2>4, <2>6 DEF RaisesIrq
    <3>5. \A k \in Data : k % req.interval = req.interval - 1 <=> (k + 1) % req.interval = 0
      <4>1. Data \subseteq Nat
        BY <2>2 DEF Data
      <4> QED BY <4>1, <3>3, EveryInterval
    <3> QED BY <2>6, <3>2, <3>4, <3>5
  <2> QED BY <2>5, <2>6
<1>2. Inv => InterruptsComplete
  BY <1>1 DEF InterruptsComplete
<1> QED BY InvHolds, <1>2, PTL

-----------------------------------------------------------------------------
(* Filling                                                                  *)

LEMMA DivisorsOfProduct ==
  ASSUME NEW d \in Nat \ {0}, NEW q \in Nat
  PROVE  d \in Divisors(d * q)
BY DEF Divisors

LEMMA AtLeastDivisor ==
  ASSUME NEW n \in Nat \ {0}, NEW d \in Divisors(n)
  PROVE  d <= n
<1>1. d \in Nat \ {0}
  BY DEF Divisors
<1>2. PICK q \in Nat : n = d * q
  BY DEF Divisors
<1>3. q # 0
  BY <1>1, <1>2
<1>4. q >= 1 /\ d * q >= d
  <2>1. q - 1 \in Nat /\ d * q = d + d * (q - 1)
    BY <1>1, <1>3
  <2>2. d * (q - 1) >= 0
    BY <1>1, <2>1
  <2> QED BY <2>1, <2>2, <1>1
<1> QED BY <1>2, <1>4

\* What a request is known for when validation has passed, with the parameters it
\* misses left out: the transfer is inside the mapping, and a fixed length fits
\* its ranges.
LEMMA Accepted ==
  ASSUME NEW r, LengthsFit(r), IsRequest(r), r.kind # "user", ValidParams(r)
  PROVE  /\ r.offset + r.total <= MapSize(r.m)
         /\ r.perDesc > 0 =>
              /\ r.perDesc \in Divisors(r.offset) \cap Divisors(r.total)
              /\ \A i \in 1 .. NumRanges(r.m) + 1 : r.perDesc \in Divisors(Start(r.m, i))
              /\ r.total = r.perDesc * NumDescriptors(r)
<1>1. /\ r.offset \in Nat /\ r.total \in Nat /\ r.perDesc \in Nat /\ r.m \in Mappings
      /\ r.kind \in {"params", "filled"}
  BY RequestFacts DEF IsRequest
<1>2. /\ MapSize(r.m) \in Nat /\ MapSize(r.m) < Modulus /\ NumRanges(r.m) \in Nat \ {0}
      /\ Modulus \in Nat \ {0} /\ Start(r.m, NumRanges(r.m) + 1) = MapSize(r.m)
  BY <1>1, MappingFacts, DescriptorsAssumption
<1>3. /\ r.kind = "params" => r.offset + r.total < Modulus
      /\ r.kind = "filled" => r.offset = 0 /\ r.total = MapSize(r.m)
  BY DEF IsRequest, LengthsFit
<1>4. (r.total + r.offset) % Modulus <= MapSize(r.m)
  BY DEF ValidParams
<1>5. r.offset + r.total <= MapSize(r.m)
  <2>1. r.offset + r.total < Modulus
    BY <1>1, <1>2, <1>3
  <2>2. (r.total + r.offset) % Modulus = r.offset + r.total
    <3>1. r.total + r.offset \in Nat /\ r.total + r.offset = r.offset + r.total
      BY <1>1
    <3> QED BY <2>1, <3>1, <1>2, Remainder
  <2> QED BY <1>4, <2>2
<1>6. ASSUME r.perDesc > 0
      PROVE  /\ r.perDesc \in Divisors(r.offset) \cap Divisors(r.total)
             /\ \A i \in 1 .. NumRanges(r.m) + 1 : r.perDesc \in Divisors(Start(r.m, i))
             /\ r.total = r.perDesc * NumDescriptors(r)
  <2> DEFINE d == r.perDesc
  <2>1. d \in Nat \ {0}
    BY <1>1, <1>6
  <2>2. GcdPageSizes(r.m) % d = 0
    BY <1>6 DEF ValidParams
  <2>3. d \in Divisors(GcdPageSizes(r.m))
    BY <1>1, <2>1, <2>2, GcdOfPages, Divisible
  <2>4. \A i \in Ranges(r.m) : d \in Divisors(RangeSize(r.m, i))
    BY <1>1, <2>1, <2>3, GcdOfPages
  <2>5. \A i \in 1 .. NumRanges(r.m) + 1 : d \in Divisors(Start(r.m, i))
    BY <1>1, <2>1, <2>4, BoundsDivisible
  <2>6. d \in Divisors(r.offset) /\ d \in Divisors(r.total)
    <3>1. CASE r.kind = "params"
      <4>1. r.total % d = 0 /\ r.offset % d = 0
        BY <1>6, <3>1 DEF IsRequest, LengthsFit
      <4> QED BY <1>1, <2>1, <4>1, Divisible
    <3>2. CASE r.kind = "filled"
      <4>1. NumRanges(r.m) + 1 \in 1 .. NumRanges(r.m) + 1
        BY <1>2
      <4>2. d \in Divisors(MapSize(r.m))
        BY <1>2, <2>5, <4>1
      <4> QED BY <1>3, <2>1, <3>2, <4>2, DivisorsOfZero
    <3> QED BY <1>1, <3>1, <3>2
  <2>7. r.total = d * NumDescriptors(r)
    <3>1. PICK q \in Nat : r.total = d * q
      BY <2>6 DEF Divisors
    <3>2. (d * q) \div d = q
      BY <2>1, SMTT(60)
    <3>3. NumDescriptors(r) = r.total \div d
      BY <1>6 DEF NumDescriptors
    <3> QED BY <3>1, <3>2, <3>3
  <2> QED BY <2>5, <2>6, <2>7
<1> QED BY <1>5, <1>6

\* A transfer that is not empty begins in a range.
LEMMA NotBehind ==
  ASSUME NEW r, LengthsFit(r), IsRequest(r), r.kind # "user", ValidParams(r), r.total > 0
  PROVE  StartingIdx(r) \in Ranges(r.m)
<1>1. /\ r.offset \in Nat /\ r.total \in Nat /\ r.m \in Mappings
      /\ r.offset + r.total <= MapSize(r.m)
  BY RequestFacts, Accepted
<1>2. /\ MapSize(r.m) \in Nat /\ NumRanges(r.m) \in Nat
      /\ Start(r.m, NumRanges(r.m) + 1) = MapSize(r.m)
  BY <1>1, MappingFacts
<1>3. /\ StartingIdx(r) \in 1 .. NumRanges(r.m) + 1
      /\ Start(r.m, StartingIdx(r)) <= r.offset
  BY <1>1, StartingFacts
<1>4. StartingIdx(r) # NumRanges(r.m) + 1
  BY <1>1, <1>2, <1>3
<1> QED BY <1>2, <1>3, <1>4 DEF Ranges

\* So there is something to do if there is anything to transfer.
LEMMA SomeDescriptor ==
  ASSUME NEW r, LengthsFit(r), IsRequest(r), r.kind # "user", ValidParams(r), r.total > 0
  PROVE  NumDescriptors(r) > 0
<1>1. /\ r.offset \in Nat /\ r.total \in Nat /\ r.m \in Mappings /\ r.perDesc \in Nat
      /\ NumDescriptors(r) \in Nat
  BY RequestFacts, SizeFacts
<1>2. CASE r.perDesc > 0
  <2>1. r.total = r.perDesc * NumDescriptors(r)
    BY <1>2, Accepted
  <2>2. NumDescriptors(r) # 0
    BY <1>1, <2>1
  <2> QED BY <1>1, <2>2
<1>3. CASE ~(r.perDesc > 0)
  <2> DEFINE i == StartingIdx(r)
             p == Planned(r)
             c == PageBytes(r, i)
  <2>1. i \in Ranges(r.m) /\ r.offset + r.total <= MapSize(r.m)
    BY NotBehind, Accepted
  <2>2. /\ Start(r.m, i) <= r.offset /\ r.offset < End(r.m, i)
        /\ Start(r.m, i) \in Nat /\ End(r.m, i) \in Nat
    <3>1. i \in 1 .. NumRanges(r.m) + 1
      BY <1>1, <2>1, MappingFacts DEF Ranges
    <3> QED BY <1>1, <2>1, <3>1, StartingFacts, MappingFacts
  <2>3. i \in 0 .. NumRanges(r.m) /\ i - 1 \in 0 .. NumRanges(r.m)
    BY <1>1, <2>1, MappingFacts DEF Ranges
  <2>4. c = IF End(r.m, i) <= r.offset + r.total
            THEN End(r.m, i) - r.offset ELSE r.offset + r.total - r.offset
    BY <1>1, <2>1, <2>2, PageBytesFacts
  <2>5. p[i] = p[i - 1] + DivRoundUp(c, MaxTransfer)
    BY <1>1, <2>1, PlannedFacts
  <2>6. /\ p[i] \in Nat /\ p[i - 1] \in Nat /\ p[i] <= p[NumRanges(r.m)]
        /\ NumDescriptors(r) = p[NumRanges(r.m)]
    BY <1>1, <1>3, <2>3, PlannedGrows DEF NumDescriptors
  <2>7. c \in Nat /\ c # 0
    <3> HIDE DEF c, i
    <3> QED BY <1>1, <2>2, <2>4
  <2>8. DivRoundUp(c, MaxTransfer) \in Nat /\ DivRoundUp(c, MaxTransfer) # 0
    <3> HIDE DEF c
    <3> QED BY <2>7, DivRoundUpFacts, DescriptorsAssumption
  <2> HIDE DEF p, c, i
  <2> QED BY <1>1, <2>5, <2>6, <2>8
<1> QED BY <1>2, <1>3

\* What the generator works with
LEMMA Filling ==
  ASSUME LengthsFit(req), Inv, pc \in {"page", "desc", "flags"}
  PROVE  /\ IsRequest(req) /\ req.kind # "user" /\ ValidParams(req)
         /\ req.offset \in Nat /\ req.total \in Nat /\ req.perDesc \in Nat /\ req.m \in Mappings
         /\ num = NumDescriptors(req) /\ num \in Nat
         /\ descIdx \in Nat /\ mapIdx \in Nat /\ busAddr \in Nat
         /\ bytesRem \in 0 .. Modulus - 1 /\ pageRem \in 0 .. Modulus - 1
         /\ NumRanges(req.m) \in Nat \ {0}
         /\ Ranges(req.m) = 1 .. NumRanges(req.m)
         /\ StartingIdx(req) \in 1 .. NumRanges(req.m) + 1
         /\ MaxTransfer \in Nat \ {0} /\ Modulus \in Nat \ {0}
         /\ MapSize(req.m) \in Nat /\ req.offset + req.total <= MapSize(req.m)
<1>1. IsRequest(req) /\ req.kind # "user"
  BY DEF Inv, RequestOK
<1>2. num = NumDescriptors(req) /\ ValidParams(req)
  BY <1>1 DEF Inv, PlanOK, Prepared
<1>3. /\ descIdx \in Nat /\ mapIdx \in Nat /\ busAddr \in Nat
      /\ bytesRem \in 0 .. Modulus - 1 /\ pageRem \in 0 .. Modulus - 1 /\ num \in Nat
  BY DEF Inv, TypeOK
<1>4. req.offset \in Nat /\ req.total \in Nat /\ req.perDesc \in Nat /\ req.m \in Mappings
  BY <1>1, RequestFacts
<1>5. /\ NumRanges(req.m) \in Nat \ {0} /\ MapSize(req.m) \in Nat
      /\ Ranges(req.m) = 1 .. NumRanges(req.m)
  BY <1>4, MappingFacts DEF Ranges
<1>6. StartingIdx(req) \in 1 .. NumRanges(req.m) + 1
  BY <1>4, StartingFacts
<1>7. MaxTransfer \in Nat \ {0} /\ Modulus \in Nat \ {0}
  BY DescriptorsAssumption
<1>8. req.offset + req.total <= MapSize(req.m)
  BY <1>1, <1>2, Accepted
<1> QED BY <1>1, <1>2, <1>3, <1>4, <1>5, <1>6, <1>7, <1>8

\* What is left to do begins in the range the generator is at.
LEMMA AtRange ==
  ASSUME LengthsFit(req), Inv, FillInv, pc = "page", bytesRem > 0
  PROVE  /\ mapIdx \in Ranges(req.m) /\ mapIdx \in StartingIdx(req) .. NumRanges(req.m)
         /\ Start(req.m, mapIdx) \in Nat /\ End(req.m, mapIdx) \in Nat
         /\ Reached \in Nat /\ Reached + bytesRem = req.offset + req.total
         /\ Start(req.m, mapIdx) <= Reached /\ Reached < End(req.m, mapIdx)
         /\ Reached = Start(req.m, mapIdx)
              + (IF mapIdx = StartingIdx(req) THEN StartingOffset(req) ELSE 0)
         /\ PageBytes(req, mapIdx) = (IF End(req.m, mapIdx) - Reached <= bytesRem
                                      THEN End(req.m, mapIdx) - Reached ELSE bytesRem)
<1> DEFINE o == req.offset
           total == req.total
           n == NumRanges(req.m)
           first == StartingIdx(req)
           i == mapIdx
           s == Start(req.m, i)
           e == End(req.m, i)
           p == Reached
<1>1. /\ o \in Nat /\ total \in Nat /\ n \in Nat \ {0} /\ Ranges(req.m) = 1 .. n
      /\ first \in 1 .. n + 1 /\ req.m \in Mappings
      /\ bytesRem \in Nat /\ MapSize(req.m) \in Nat /\ o + total <= MapSize(req.m)
  BY Filling
<1>2. /\ bytesRem <= total /\ i \in first .. n + 1
      /\ i = first => bytesRem = total
      /\ i # first => p = s
  BY DEF FillInv, PageOK, Covered
<1>3. p = o + total - bytesRem
  BY DEF Reached
<1>4. /\ \A j \in 1 .. n + 1 : Start(req.m, j) \in Nat
      /\ \A j \in 1 .. n : End(req.m, j) \in Nat /\ End(req.m, j) = Start(req.m, j + 1)
                           /\ Start(req.m, j) < End(req.m, j)
      /\ Start(req.m, n + 1) = MapSize(req.m)
  BY <1>1, MappingFacts
<1>5. /\ Start(req.m, first) <= o /\ StartingOffset(req) = o - Start(req.m, first)
      /\ first \in 1 .. n => o < End(req.m, first)
  BY <1>1, StartingFacts DEF StartingOffset
<1>6. first .. n + 1 \subseteq 1 .. n + 1 /\ \A j \in first .. n + 1 : j # n + 1 => j \in first .. n
      /\ first .. n \subseteq 1 .. n
  BY <1>1
<1>7. i \in 1 .. n + 1 /\ s \in Nat
  BY <1>2, <1>4, <1>6
<1>8. p \in Nat /\ p + bytesRem = o + total /\ p >= o
  <2> HIDE DEF o, total, p
  <2> QED BY <1>1, <1>2, <1>3
<1>9. i = first => p = o
  <2> HIDE DEF o, total, p, i, first
  <2> QED BY <1>1, <1>2, <1>3
<1>10. s <= p
  BY <1>2, <1>5, <1>7, <1>9
<1>11. i # n + 1
  <2>1. i = n + 1 => s = MapSize(req.m)
    BY <1>4
  <2> HIDE DEF o, total, p, i, n, s
  <2> QED BY <2>1, <1>1, <1>8, <1>10
<1>12. i \in first .. n /\ i \in 1 .. n
  BY <1>2, <1>6, <1>11
<1>13. e \in Nat /\ s < e
  BY <1>4, <1>12
<1>14. p < e
  <2>1. i = first => p < e
    BY <1>5, <1>9, <1>12
  <2>2. i # first => p < e
    BY <1>2, <1>13
  <2> QED BY <2>1, <2>2
<1>15. p = s + (IF i = first THEN StartingOffset(req) ELSE 0)
  <2>1. i = first => p = s + StartingOffset(req)
    <3>1. i = first => StartingOffset(req) = o - s
      BY <1>5
    <3> HIDE DEF p, o, s, i, first
    <3> QED BY <1>1, <1>7, <1>9, <3>1
  <2>2. i # first => p = s + 0
    BY <1>2, <1>7
  <2> QED BY <2>1, <2>2
<1>16. PageBytes(req, i) = IF e <= o + total THEN e - p ELSE o + total - p
  <2>1. \/ p = s /\ p >= o
        \/ p = o /\ p >= s
    BY <1>2, <1>8, <1>9, <1>10
  <2>2. p < o + total
    <3> HIDE DEF p, o, total
    <3> QED BY <1>1, <1>8
  <2>3. i \in Ranges(req.m)
    BY <1>1, <1>12
  <2> HIDE DEF p
  <2> QED BY <1>1, <1>8, <1>14, <2>1, <2>2, <2>3, PageBytesFacts
<1>17. PageBytes(req, i) = IF e - p <= bytesRem THEN e - p ELSE bytesRem
  <2> HIDE DEF p, o, total, e
  <2>1. e <= o + total <=> e - p <= bytesRem
    BY <1>1, <1>8, <1>13
  <2>2. o + total - p = bytesRem
    BY <1>1, <1>8
  <2> QED BY <1>16, <2>1, <2>2
<1> QED BY <1>1, <1>7, <1>8, <1>10, <1>12, <1>13, <1>14, <1>15, <1>17

\* The plan has exactly as many descriptors as the ranges need.
LEMMA PlanExact ==
  ASSUME LengthsFit(req), Inv, FillInv, pc = "page"
  PROVE  descIdx = num <=> bytesRem = 0
<1> DEFINE b == req.perDesc
           n == NumRanges(req.m)
           p == Planned(req)
           i == mapIdx
<1>1. /\ IsRequest(req) /\ req.m \in Mappings /\ req.offset \in Nat /\ req.total \in Nat
      /\ b \in Nat /\ n \in Nat \ {0} /\ Ranges(req.m) = 1 .. n
      /\ bytesRem \in Nat /\ num \in Nat /\ descIdx \in Nat /\ num = NumDescriptors(req)
      /\ StartingIdx(req) \in 1 .. n + 1
  BY Filling
<1>2. /\ bytesRem <= req.total /\ i \in StartingIdx(req) .. n + 1
      /\ b > 0 => bytesRem = b * (num - descIdx)
      /\ b = 0 => descIdx = p[i - 1]
  BY DEF FillInv, PageOK, Covered
<1>3. i \in 1 .. n + 1 /\ i - 1 \in 0 .. n
  BY <1>1, <1>2
<1>4. CASE b > 0
  <2>1. \A x \in Int : b * x = 0 <=> x = 0
    BY <1>1, <1>4
  <2> DEFINE x == num - descIdx
  <2>2. x \in Int /\ bytesRem = b * x /\ (x = 0 <=> descIdx = num)
    BY <1>1, <1>2, <1>4
  <2> HIDE DEF x, b
  <2> QED BY <2>1, <2>2
<1>5. ASSUME b = 0, bytesRem = 0  PROVE descIdx = num
  <2>1. Reached = req.offset + req.total
    BY <1>1, <1>5 DEF Reached
  <2>2. ASSUME NEW j \in i .. n  PROVE PageBytes(req, j) = 0
    <3>1. j \in Ranges(req.m) /\ j \in 1 .. n + 1
      BY <1>1, <1>3
    <3>2. Start(req.m, j) >= req.offset + req.total \/ req.total = 0
      <4>1. CASE i = StartingIdx(req)
        BY <1>5, <4>1 DEF FillInv, PageOK
      <4>2. CASE i # StartingIdx(req)
        <5>1. Reached <= Start(req.m, i)
          BY <1>5, <4>2 DEF FillInv, PageOK
        <5>2. Start(req.m, i) \in Nat /\ Start(req.m, j) \in Nat
          BY <1>1, <1>3, <3>1, MappingFacts
        <5>3. Start(req.m, i) <= Start(req.m, j)
          <6>1. i = j \/ i < j
            BY <1>1, <1>3
          <6> QED BY <1>1, <1>3, <3>1, <5>2, <6>1, MappingFacts
        <5> QED BY <1>1, <2>1, <5>1, <5>2, <5>3
      <4> QED BY <4>1, <4>2
    <3> QED BY <1>1, <3>1, <3>2, PageBytesFacts
  <2>3. (i - 1) + 1 = i /\ i - 1 \in 0 .. n /\ n \in 0 .. n
    BY <1>1, <1>3
  <2>4. p[n] = p[i - 1]
    <3> DEFINE k == i - 1
    <3>1. k \in 0 .. n /\ \A j \in k + 1 .. n : PageBytes(req, j) = 0
      BY <2>2, <2>3
    <3> HIDE DEF k
    <3>2. p[n] = p[k]
      BY <1>1, <2>3, <3>1, PlannedFlat
    <3> QED BY <3>2 DEF k
  <2>5. num = p[n]
    BY <1>1, <1>5 DEF NumDescriptors
  <2> QED BY <1>2, <1>5, <2>4, <2>5
<1>6. ASSUME b = 0, bytesRem > 0  PROVE descIdx # num
  <2> DEFINE c == PageBytes(req, i)
  <2>1. /\ i \in 1 .. n /\ Reached \in Nat /\ End(req.m, i) \in Nat /\ Reached < End(req.m, i)
        /\ c = IF End(req.m, i) - Reached <= bytesRem THEN End(req.m, i) - Reached ELSE bytesRem
    BY <1>1, <1>6, AtRange
  <2>2. c \in Nat /\ c # 0
    <3> DEFINE e == End(req.m, i)
               r == Reached
    <3> HIDE DEF c, e, r
    <3>1. /\ r \in Nat /\ e \in Nat /\ r < e
          /\ c = IF e - r <= bytesRem THEN e - r ELSE bytesRem
      BY <2>1 DEF e, r
    <3> QED BY <1>1, <1>6, <3>1
  <2>3. DivRoundUp(c, MaxTransfer) \in Nat /\ DivRoundUp(c, MaxTransfer) # 0
    <3> HIDE DEF c
    <3> QED BY <2>2, DivRoundUpFacts, DescriptorsAssumption
  <2>4. p[i] = p[i - 1] + DivRoundUp(c, MaxTransfer)
    BY <1>1, <2>1, PlannedFacts
  <2>5. i \in 0 .. n
    BY <2>1
  <2>6. p[i] <= p[n] /\ p[i] \in Nat /\ p[i - 1] \in Nat
    BY <1>1, <1>3, <2>5, PlannedGrows
  <2>7. num = p[n]
    BY <1>1, <1>6 DEF NumDescriptors
  <2> HIDE DEF c, p
  <2> QED BY <1>1, <1>2, <1>6, <2>3, <2>4, <2>6, <2>7
<1> QED BY <1>1, <1>4, <1>5, <1>6

LEMMA PlanFills ==
  ASSUME LengthsFit(req), Inv, PlanDescriptors
  PROVE  FillInv'
<1>1. pc = "check" /\ IsRequest(req) /\ NumDescriptors(req) \in Nat
  BY Served DEF PlanDescriptors, Prepared
<1>2. req' = req /\ num' = NumDescriptors(req) /\ ValidParams(req) /\ req.kind # "user"
  BY DEF PlanDescriptors
<1>3. CASE pc' = "refused"
  BY <1>3 DEF FillInv, PageOK, DescOK, EndOK
<1>4. CASE num' = 0 /\ pc' = "copy"
  BY <1>4 DEF FillInv, PageOK, DescOK, EndOK
<1>5. CASE /\ pc' = "page" /\ descIdx' = 0 /\ mapIdx' = StartingIdx(req)
           /\ bytesRem' = req.total
  <2> DEFINE n == NumRanges(req.m)
             first == StartingIdx(req)
  <2>1. /\ req.m \in Mappings /\ req.offset \in Nat /\ req.total \in Nat /\ req.perDesc \in Nat
        /\ n \in Nat \ {0} /\ Ranges(req.m) = 1 .. n
    BY <1>1, RequestFacts, MappingFacts DEF Ranges
  <2>2. first \in 1 .. n + 1 /\ \A j \in Ranges(req.m) : j < first => End(req.m, j) <= req.offset
    BY <2>1, StartingFacts
  <2>3. Covered'
    <3>1. req.perDesc > 0 => req.total = req.perDesc * NumDescriptors(req)
      BY <1>1, <1>2, Accepted
    <3>2. NumDescriptors(req) - 0 = NumDescriptors(req) /\ 0 <= NumDescriptors(req)
      BY <1>1
    <3> QED BY <1>2, <1>5, <2>1, <3>1, <3>2 DEF Covered
  <2>4. Planned(req)[first - 1] = 0
    <3> DEFINE k == first - 1
    <3>1. k \in 0 .. n /\ 0 \in 0 .. k /\ \A j \in 0 + 1 .. k : j \in 1 .. n /\ j < first
      BY <2>1, <2>2
    <3>2. \A j \in 0 + 1 .. k : PageBytes(req, j) = 0
      BY <2>1, <2>2, <3>1, PageBytesFacts
    <3> HIDE DEF k
    <3>3. Planned(req)[k] = Planned(req)[0]
      BY <2>1, <3>1, <3>2, PlannedFlat
    <3> QED BY <2>1, <3>3, PlannedFacts DEF k
  <2>5. first \in first .. n + 1
    BY <2>1, <2>2
  <2>6. PageOK'
    BY <1>2, <1>5, <2>3, <2>4, <2>5 DEF PageOK
  <2> QED BY <1>5, <2>6 DEF FillInv, DescOK, EndOK
<1> QED BY <1>3, <1>4, <1>5 DEF PlanDescriptors, Refused

LEMMA PageFills ==
  ASSUME LengthsFit(req), Inv, FillInv, FillPage
  PROVE  FillInv'
<1>1. pc = "page" /\ UNCHANGED <<req, num, descIdx, mapIdx, bytesRem>>
  BY DEF FillPage
<1>2. Covered /\ mapIdx \in StartingIdx(req) .. NumRanges(req.m) + 1
      /\ (req.perDesc = 0 => descIdx = Planned(req)[mapIdx - 1])
  BY <1>1 DEF FillInv, PageOK
<1>3. /\ req.m \in Mappings /\ req.offset \in Nat /\ req.total \in Nat /\ num \in Nat
      /\ bytesRem \in Nat /\ descIdx \in Nat
  BY <1>1, Filling
<1>4. Covered' /\ Reached' = Reached
  BY <1>1, <1>2 DEF Covered, Reached
<1>5. CASE /\ bytesRem > 0 /\ pc' = "desc"
           /\ LET off == IF mapIdx = StartingIdx(req) THEN StartingOffset(req) ELSE 0
              IN  /\ pageRem' = Min({RangeSize(req.m, mapIdx) - off, bytesRem})
                  /\ busAddr' = RangeAddr(req.m, mapIdx) + off
  <2> DEFINE off == IF mapIdx = StartingIdx(req) THEN StartingOffset(req) ELSE 0
             s == Start(req.m, mapIdx)
             e == End(req.m, mapIdx)
             p == Reached
             t == req.offset + req.total
             x == IF mapIdx = 1 THEN req.m.off ELSE 0
  <2>1. /\ mapIdx \in Ranges(req.m) /\ mapIdx \in StartingIdx(req) .. NumRanges(req.m)
        /\ s \in Nat /\ e \in Nat /\ p \in Nat /\ p + bytesRem = t
        /\ s <= p /\ p < e /\ p = s + off
        /\ PageBytes(req, mapIdx) = (IF e - p <= bytesRem THEN e - p ELSE bytesRem)
    BY <1>1, <1>5, AtRange
  <2>2. off \in Nat
    BY <1>3, StartingFacts
  <2>3. t \in Nat /\ x \in Nat
    BY <1>3, MappingFacts
  <2>4. pageRem' = Min({(e - s) - off, bytesRem}) /\ busAddr' = (s + x) + off
    BY <1>5 DEF RangeSize, RangeAddr
  <2> HIDE DEF off, s, e, p, t, x
  <2>5. (e - s) - off = e - p /\ (s + x) + off = p + x /\ e - p \in Nat
    BY <2>1, <2>2, <2>3
  <2>6. pageRem' = IF e - p <= bytesRem THEN e - p ELSE bytesRem
    <3> DEFINE z == e - p
    <3>1. pageRem' = Min({z, bytesRem}) /\ z \in Int /\ bytesRem \in Int
      BY <1>3, <2>4, <2>5
    <3> HIDE DEF z
    <3>2. pageRem' = IF z <= bytesRem THEN z ELSE bytesRem
      BY <3>1, MinOfTwo
    <3> QED BY <3>2 DEF z
  <2>7. /\ pageRem' > 0 /\ pageRem' \in Nat /\ pageRem' <= bytesRem /\ p + pageRem' <= e
        /\ p + pageRem' \in {e, t}
    <3> DEFINE z == pageRem'
    <3>1. z = IF e - p <= bytesRem THEN e - p ELSE bytesRem
      BY <2>6
    <3> HIDE DEF z
    <3>2. z > 0 /\ z \in Nat /\ z <= bytesRem /\ p + z <= e
      BY <1>3, <1>5, <2>1, <3>1
    <3>3. p + z \in {e, t}
      BY <1>3, <2>1, <2>3, <3>1
    <3> QED BY <3>2, <3>3 DEF z
  <2>8. busAddr' = p + x
    BY <2>4, <2>5
  <2>9. ASSUME req.perDesc = 0
        PROVE  descIdx + DivRoundUp(pageRem', MaxTransfer) = Planned(req)[mapIdx]
    <3>1. PageBytes(req, mapIdx) = pageRem'
      BY <2>1, <2>6
    <3>2. Planned(req)[mapIdx] = Planned(req)[mapIdx - 1]
                                   + DivRoundUp(PageBytes(req, mapIdx), MaxTransfer)
      BY <1>3, <2>1, PlannedFacts
    <3> QED BY <1>2, <2>9, <3>1, <3>2
  <2>10. DescOK'
    <3>1. mapIdx' = mapIdx /\ req' = req /\ descIdx' = descIdx /\ bytesRem' = bytesRem
      BY <1>1
    <3>2. /\ Reached' >= Start(req.m, mapIdx) /\ pageRem' > 0
          /\ Reached' + pageRem' \in {End(req.m, mapIdx), req.offset + req.total}
          /\ Reached' + pageRem' <= End(req.m, mapIdx) /\ pageRem' <= bytesRem
          /\ busAddr' = Reached' + (IF mapIdx = 1 THEN req.m.off ELSE 0)
      BY <1>4, <2>1, <2>7, <2>8 DEF p, s, e, t, x
    <3> QED BY <1>4, <2>1, <2>9, <3>1, <3>2 DEF DescOK
  <2> QED BY <1>5, <2>10 DEF FillInv, PageOK, EndOK
<1>6. CASE descIdx < num /\ bytesRem > 0 /\ mapIdx \notin Ranges(req.m)
  BY <1>1, <1>6, AtRange
<1>7. CASE pc' = "flags" /\ (descIdx >= num \/ bytesRem = 0)
  <2>1. descIdx <= num
    BY <1>2 DEF Covered
  <2>2. descIdx >= num => descIdx = num
    BY <1>3, <2>1
  <2>3. descIdx = num /\ bytesRem = 0
    BY <1>1, <1>7, <2>2, PlanExact
  <2> QED BY <1>1, <1>7, <2>3 DEF FillInv, PageOK, DescOK, EndOK
<1> QED BY <1>5, <1>6, <1>7 DEF FillPage

\* A descriptor takes something, and no more than is left of the range; with a fixed
\* length, ranges end where descriptors do.
LEMMA LengthFits ==
  ASSUME LengthsFit(req), Inv, FillInv, pc = "desc"
  PROVE  /\ descIdx < num /\ TransferLength \in Nat
         /\ 0 < TransferLength /\ TransferLength <= pageRem /\ pageRem <= bytesRem
         /\ req.perDesc = 0 =>
              IF pageRem = TransferLength THEN descIdx + 1 = Planned(req)[mapIdx]
              ELSE descIdx + 1 + DivRoundUp(pageRem - TransferLength, MaxTransfer)
                     = Planned(req)[mapIdx]
<1> DEFINE b == req.perDesc
           n == NumRanges(req.m)
           l == TransferLength
           max == MaxTransfer
           e == End(req.m, mapIdx)
           p == Reached
           t == req.offset + req.total
<1>1. /\ IsRequest(req) /\ req.m \in Mappings /\ req.offset \in Nat /\ req.total \in Nat
      /\ b \in Nat /\ n \in Nat \ {0} /\ Ranges(req.m) = 1 .. n
      /\ bytesRem \in Nat /\ pageRem \in Nat /\ num \in Nat /\ descIdx \in Nat
      /\ num = NumDescriptors(req) /\ StartingIdx(req) \in 1 .. n + 1 /\ max \in Nat \ {0}
      /\ ValidParams(req) /\ req.kind # "user"
  BY Filling
<1>2. /\ bytesRem <= req.total /\ descIdx <= num
      /\ b > 0 => bytesRem = b * (num - descIdx)
      /\ mapIdx \in StartingIdx(req) .. n
      /\ pageRem > 0 /\ pageRem <= bytesRem /\ p + pageRem \in {e, t}
      /\ b = 0 => descIdx + DivRoundUp(pageRem, max) = Planned(req)[mapIdx]
  BY DEF FillInv, DescOK, Covered
<1>3. mapIdx \in 0 .. n /\ mapIdx \in 1 .. n
  BY <1>1, <1>2
<1>4. CASE b > 0
  <2>1. l = b
    BY <1>4 DEF TransferLength
  <2>2. b \in Nat \ {0} /\ num - descIdx \in Nat
    BY <1>1, <1>2, <1>4
  <2>3. num - descIdx # 0
    <3> DEFINE x == num - descIdx
    <3>1. bytesRem = b * x /\ bytesRem > 0 /\ x \in Nat
      BY <1>1, <1>2, <1>4, <2>2
    <3> HIDE DEF x, b
    <3>2. x # 0
      BY <1>1, <3>1
    <3> QED BY <3>2 DEF x
  <2>4. b \in Divisors(bytesRem)
    <3> DEFINE x == num - descIdx
    <3>1. bytesRem = b * x /\ x \in Nat
      BY <1>2, <1>4, <2>2
    <3> HIDE DEF x, b
    <3> QED BY <2>2, <3>1, DivisorsOfProduct
  <2>5. /\ b \in Divisors(req.offset) /\ b \in Divisors(req.total)
        /\ \A j \in 1 .. n + 1 : b \in Divisors(Start(req.m, j))
    BY <1>1, <1>4, Accepted
  <2>6. b \in Divisors(t) /\ t \in Nat
    <3> DEFINE o == req.offset
               all == req.total
    <3>1. o \in Nat /\ all \in Nat /\ b \in Divisors(o) /\ b \in Divisors(all)
      BY <1>1, <2>5
    <3> HIDE DEF o, all, b
    <3>2. b \in Divisors(o + all) /\ o + all \in Nat
      BY <3>1, DivisorsOfSum
    <3> QED BY <3>2 DEF o, all
  <2>7. b \in Divisors(e) /\ e \in Nat
    <3>1. mapIdx + 1 \in 1 .. n + 1 /\ mapIdx \in Ranges(req.m)
      BY <1>1, <1>3
    <3>2. e = Start(req.m, mapIdx + 1) /\ e \in Nat
      BY <1>1, <3>1, MappingFacts
    <3> QED BY <2>5, <3>1, <3>2
  <2>8. p \in Nat /\ p + bytesRem = t
    <3> DEFINE o == req.offset
               all == req.total
    <3>1. o \in Nat /\ all \in Nat /\ bytesRem <= all
      BY <1>1, <1>2
    <3>2. p = o + all - bytesRem
      BY DEF Reached
    <3> HIDE DEF o, all, p
    <3>3. p \in Nat /\ p + bytesRem = o + all
      BY <1>1, <3>1, <3>2
    <3> QED BY <3>3 DEF o, all
  <2> HIDE DEF p, t, e, b
  <2>9. b \in Divisors(p)
    BY <1>1, <2>4, <2>6, <2>8, DivisorsOfSum
  <2>10. b \in Divisors(p + pageRem)
    BY <1>2, <2>6, <2>7
  <2>11. pageRem + p = p + pageRem
    BY <1>1, <2>8
  <2>12. b \in Divisors(pageRem)
    BY <1>1, <2>8, <2>9, <2>10, <2>11, DivisorsOfSum
  <2>13. b <= pageRem
    BY <1>1, <1>2, <2>12, AtLeastDivisor
  <2>14. descIdx < num
    BY <1>1, <1>2, <2>3
  <2>15. l \in Nat /\ 0 < l /\ l <= pageRem
    BY <1>1, <1>4, <2>1, <2>13
  <2> QED BY <1>2, <1>4, <2>14, <2>15 DEF b
<1>5. CASE b = 0
  <2>1. l = IF pageRem <= max THEN pageRem ELSE max
    <3>1. l = Min({pageRem, max})
      BY <1>5 DEF TransferLength
    <3> HIDE DEF l
    <3> QED BY <1>1, <3>1, MinOfTwo
  <2> DEFINE d == DivRoundUp(pageRem, max)
             d2 == DivRoundUp(pageRem - max, max)
             q == Planned(req)[mapIdx]
  <2>2. /\ d \in Nat /\ d # 0
        /\ pageRem > max => d = d2 + 1
        /\ pageRem <= max => d = 1
    <3>1. pageRem \in 1 .. max <=> pageRem <= max
      BY <1>1, <1>2
    <3>2. pageRem # 0
      BY <1>1, <1>2
    <3> QED BY <1>1, <3>1, <3>2, DivRoundUpFacts
  <2>3. q \in Nat /\ q <= num
    <3>1. num = Planned(req)[n]
      BY <1>1, <1>5 DEF NumDescriptors
    <3> QED BY <1>1, <1>3, <3>1, PlannedGrows
  <2>4. descIdx + d = q
    BY <1>2, <1>5
  <2>5. pageRem > max => d2 \in Nat
    <3>1. pageRem > max => pageRem - max \in Nat
      BY <1>1
    <3> QED BY <1>1, <3>1, DivRoundUpFacts
  <2> HIDE DEF l, d, q
  <2>6. descIdx < num /\ l \in Nat /\ 0 < l /\ l <= pageRem
    BY <1>1, <1>2, <2>1, <2>2, <2>3, <2>4
  <2>7. CASE pageRem <= max
    <3>1. pageRem = l /\ descIdx + 1 = q
      BY <1>1, <2>1, <2>2, <2>4, <2>7
    <3> QED BY <1>2, <2>6, <3>1 DEF l, q
  <2>8. CASE pageRem > max
    <3>1. l = max /\ pageRem # l
      BY <1>1, <2>1, <2>8
    <3>2. descIdx + 1 + d2 = q
      <4> HIDE DEF d2
      <4> QED BY <1>1, <2>2, <2>4, <2>5, <2>8
    <3> QED BY <1>2, <2>6, <3>1, <3>2 DEF l, q
  <2> QED BY <1>1, <2>7, <2>8
<1> QED BY <1>1, <1>4, <1>5

LEMMA DescriptorFills ==
  ASSUME LengthsFit(req), Inv, FillInv, FillDescriptor
  PROVE  /\ FillInv'
         /\ Reached' = Reached + TransferLength /\ descIdx' = descIdx + 1
<1> DEFINE b == req.perDesc
           n == NumRanges(req.m)
           l == TransferLength
           max == MaxTransfer
           s == Start(req.m, mapIdx)
           e == End(req.m, mapIdx)
           p == Reached
           t == req.offset + req.total
           x == IF mapIdx = 1 THEN req.m.off ELSE 0
<1>1. /\ pc = "desc" /\ UNCHANGED <<req, num>>
      /\ busAddr' = busAddr + l /\ descIdx' = descIdx + 1
      /\ pageRem' = (pageRem - l) % Modulus /\ bytesRem' = (bytesRem - l) % Modulus
      /\ \/ pageRem' > 0 /\ pc' = "desc" /\ mapIdx' = mapIdx
         \/ pageRem' = 0 /\ pc' = "page" /\ mapIdx' = mapIdx + 1
  BY DEF FillDescriptor
<1>2. /\ IsRequest(req) /\ req.m \in Mappings /\ req.offset \in Nat /\ req.total \in Nat
      /\ b \in Nat /\ n \in Nat \ {0} /\ Ranges(req.m) = 1 .. n
      /\ bytesRem \in Nat /\ bytesRem < Modulus /\ pageRem \in Nat /\ pageRem < Modulus
      /\ num \in Nat /\ descIdx \in Nat /\ busAddr \in Nat
      /\ StartingIdx(req) \in 1 .. n + 1 /\ Modulus \in Nat \ {0}
  <2>1. bytesRem \in 0 .. Modulus - 1 /\ pageRem \in 0 .. Modulus - 1 /\ Modulus \in Nat \ {0}
    BY <1>1, Filling
  <2>2. bytesRem \in Nat /\ bytesRem < Modulus /\ pageRem \in Nat /\ pageRem < Modulus
    BY <2>1
  <2> QED BY <1>1, <2>2, Filling
<1>3. /\ bytesRem <= req.total /\ descIdx <= num
      /\ b > 0 => bytesRem = b * (num - descIdx)
      /\ mapIdx \in StartingIdx(req) .. n
      /\ p >= s /\ pageRem > 0 /\ pageRem <= bytesRem /\ p + pageRem \in {e, t}
      /\ p + pageRem <= e /\ busAddr = p + x
  BY <1>1 DEF FillInv, DescOK, Covered
<1>4. /\ descIdx < num /\ l \in Nat /\ 0 < l /\ l <= pageRem
      /\ b = 0 => IF pageRem = l THEN descIdx + 1 = Planned(req)[mapIdx]
                  ELSE descIdx + 1 + DivRoundUp(pageRem - l, max) = Planned(req)[mapIdx]
  BY <1>1, LengthFits
<1>5. /\ mapIdx \in 1 .. n /\ mapIdx \in Ranges(req.m)
      /\ mapIdx + 1 \in StartingIdx(req) .. n + 1 /\ mapIdx + 1 # StartingIdx(req)
      /\ mapIdx + 1 - 1 = mapIdx
  BY <1>2, <1>3
<1>6. s \in Nat /\ e \in Nat /\ e = Start(req.m, mapIdx + 1) /\ x \in Nat
  <2>1. mapIdx \in 1 .. n + 1
    BY <1>2, <1>5
  <2> QED BY <1>2, <1>5, <2>1, MappingFacts
<1>7. p \in Nat /\ p + bytesRem = t /\ t \in Nat
  <2> DEFINE o == req.offset
             all == req.total
  <2>1. o \in Nat /\ all \in Nat /\ bytesRem <= all
    BY <1>2, <1>3
  <2>2. p = o + all - bytesRem
    BY DEF Reached
  <2> HIDE DEF o, all, p
  <2>3. p \in Nat /\ p + bytesRem = o + all /\ o + all \in Nat
    BY <1>2, <2>1, <2>2
  <2> QED BY <2>3 DEF o, all
<1>8. pageRem' = pageRem - l /\ bytesRem' = bytesRem - l
      /\ pageRem' \in Nat /\ bytesRem' \in Nat
  <2> HIDE DEF l
  <2>1. pageRem - l \in Nat /\ pageRem - l < Modulus /\ bytesRem - l \in Nat /\ bytesRem - l < Modulus
    BY <1>2, <1>3, <1>4
  <2>2. (pageRem - l) % Modulus = pageRem - l /\ (bytesRem - l) % Modulus = bytesRem - l
    BY <1>2, <2>1, Remainder
  <2> QED BY <1>1, <2>1, <2>2
<1>9. Reached' = p + l
  <2>1. Reached' = t - bytesRem'
    <3>1. req' = req
      BY <1>1
    <3> DEFINE o == req.offset
               all == req.total
               y == bytesRem'
    <3>2. Reached' = o + (all - y)
      BY <3>1 DEF Reached
    <3>3. o \in Nat /\ all \in Nat /\ y \in Nat
      BY <1>2, <1>8
    <3> HIDE DEF o, all, y
    <3>4. o + (all - y) = (o + all) - y
      BY <3>3
    <3> QED BY <3>2, <3>4 DEF o, all, y
  <2> HIDE DEF l, p, t
  <2> QED BY <1>2, <1>4, <1>7, <1>8, <2>1
<1>10. Covered'
  <2>1. b > 0 => bytesRem' = b * (num - (descIdx + 1))
    <3> DEFINE y == num - descIdx
    <3>1. ASSUME b > 0  PROVE l = b /\ bytesRem = b * y /\ y \in Int
      BY <1>2, <1>3, <3>1 DEF TransferLength
    <3>2. b * (y - 1) = b * y - b
      BY <1>2
    <3>3. num - (descIdx + 1) = y - 1
      BY <1>2
    <3> HIDE DEF y, b, l
    <3> QED BY <1>2, <1>8, <3>1, <3>2, <3>3
  <2>2. descIdx + 1 <= num /\ bytesRem' <= req.total
    <3> HIDE DEF l
    <3> QED BY <1>2, <1>3, <1>4, <1>8
  <2> QED BY <1>1, <2>1, <2>2 DEF Covered
<1>11. CASE pageRem' > 0 /\ pc' = "desc" /\ mapIdx' = mapIdx
  <2> DEFINE r == pageRem'
  <2>1. b = 0 => descIdx + 1 + DivRoundUp(r, max) = Planned(req)[mapIdx]
    <3>1. pageRem # l /\ r = pageRem - l
      <4>1. pageRem - l # 0
        BY <1>8, <1>11
      <4> HIDE DEF l
      <4> QED BY <1>2, <1>4, <1>8, <4>1
    <3> QED BY <1>4, <3>1
  <2>2. /\ (p + l) >= s /\ r > 0 /\ (p + l) + r = p + pageRem /\ r <= bytesRem'
        /\ busAddr + l = (p + l) + x
    <3> DEFINE y == bytesRem'
    <3>1. r = pageRem - l /\ y = bytesRem - l
      BY <1>8
    <3>2. r > 0
      BY <1>11
    <3> HIDE DEF l, p, r, s, x, y
    <3>3. (p + l) >= s /\ (p + l) + r = p + pageRem /\ r <= y /\ busAddr + l = (p + l) + x
      BY <1>2, <1>3, <1>4, <1>6, <1>7, <3>1
    <3> QED BY <3>2, <3>3 DEF y
  <2>3. /\ Reached' >= Start(req.m, mapIdx) /\ pageRem' > 0
        /\ Reached' + pageRem' \in {End(req.m, mapIdx), req.offset + req.total}
        /\ Reached' + pageRem' <= End(req.m, mapIdx) /\ pageRem' <= bytesRem'
        /\ busAddr' = Reached' + (IF mapIdx = 1 THEN req.m.off ELSE 0)
    BY <1>1, <1>3, <1>9, <2>2
  <2>4. DescOK'
    BY <1>1, <1>3, <1>10, <1>11, <2>1, <2>3 DEF DescOK
  <2> QED BY <1>1, <1>9, <1>11, <2>4 DEF FillInv, PageOK, EndOK
<1>12. CASE pageRem' = 0 /\ pc' = "page" /\ mapIdx' = mapIdx + 1
  <2>1. pageRem = l
    <3> HIDE DEF l
    <3> QED BY <1>2, <1>4, <1>8, <1>12
  <2>2. b = 0 => descIdx + 1 = Planned(req)[mapIdx]
    BY <1>4, <2>1
  <2>3. IF bytesRem' > 0 THEN Reached' = e ELSE Reached' <= e
    <3> DEFINE y == bytesRem'
               q == Reached'
    <3>1. y = bytesRem - l /\ q = p + l
      BY <1>8, <1>9
    <3> HIDE DEF l, p, e, t, y, q
    <3>2. q <= e /\ q \in {e, t}
      BY <1>3, <2>1, <3>1
    <3>3. y > 0 => q # t
      BY <1>2, <1>4, <1>7, <3>1
    <3>4. y > 0 => q = e
      BY <3>2, <3>3
    <3> QED BY <3>2, <3>4 DEF y, q
  <2>4. PageOK'
    BY <1>1, <1>5, <1>6, <1>10, <1>12, <2>2, <2>3 DEF PageOK
  <2> QED BY <1>1, <1>9, <1>12, <2>4 DEF FillInv, DescOK, EndOK
<1> QED BY <1>1, <1>11, <1>12

LEMMA SizeAtStart ==
  ASSUME LengthsFit(req), Inv, pc = "start"
  PROVE  size \in 1 .. Capacity
<1>1. /\ IsRequest(req) /\ AllocSize(req) > 0 /\ Terminators(req) \in {0, 1}
      /\ DataSize(req) \in Nat /\ AllocSize(req) = DataSize(req) + Terminators(req)
      /\ Capacity \in Nat /\ num \in Nat /\ num + Terminators(req) <= Capacity
  BY Served DEF Prepared
<1>2. size = num + Terminators(req)
  BY DEF Inv, MemoryOK
<1>3. CASE ~IsStream(req)
  <2>1. Terminators(req) = 1
    BY <1>3 DEF Terminators
  <2> QED BY <1>1, <1>2, <2>1
<1>4. CASE IsStream(req)
  <2>1. Terminators(req) = 0 /\ DataSize(req) > 0
    BY <1>1, <1>4 DEF Terminators
  <2>2. CASE req.kind = "user"
    <3>1. num = DataSize(req)
      BY <1>1, <2>2, SizeFacts DEF Inv, PlanOK, Prepared
    <3> QED BY <1>1, <1>2, <2>1, <3>1
  <2>3. CASE req.kind # "user"
    <3>1. num = NumDescriptors(req) /\ ValidParams(req)
      BY <2>3 DEF Inv, PlanOK, Prepared
    <3>2. req.total # 0
      <4>1. SUFFICES ASSUME req.total = 0  PROVE DataSize(req) = 0
        BY <2>1
      <4>2. MaxDescriptorsNeeded(req) = 0
        <5>1. req.perDesc > 0 => 0 \div req.perDesc = 0
          <6>1. req.perDesc \in Nat
            BY <1>1, RequestFacts
          <6> QED BY <6>1
        <5>2. DivRoundUp(0, Page) = 0
          BY DivRoundUpFacts, DescriptorsAssumption
        <5> QED BY <2>1, <4>1, <5>1, <5>2 DEF MaxDescriptorsNeeded
      <4>3. 0 % SizeMod = 0
        <5>1. SizeMod \in Nat \ {0}
          BY DescriptorsAssumption
        <5> QED BY <5>1, Remainder
      <4> QED BY <2>3, <4>2, <4>3 DEF DataSize
    <3>3. req.total > 0
      <4>1. req.total \in Nat
        BY <1>1, RequestFacts
      <4> QED BY <3>2, <4>1
    <3>4. NumDescriptors(req) > 0
      BY <1>1, <2>3, <3>1, <3>3, SomeDescriptor
    <3> QED BY <1>1, <1>2, <2>1, <3>1, <3>4
  <2> QED BY <2>2, <2>3
<1> QED BY <1>3, <1>4

\* Neither the memory nor the ring is left while the lengths fit.
LEMMA NeverAstray ==
  ASSUME LengthsFit(req), Inv, FillInv
  PROVE  ~WriteOutside /\ ~LinkOutside
<1>1. ASSUME WriteOutside  PROVE FALSE
  <2>1. pc = "desc" /\ descIdx \notin DOMAIN desc
    BY <1>1 DEF WriteOutside
  <2>2. descIdx < num /\ descIdx \in Nat
    BY <2>1, LengthFits DEF Inv, TypeOK
  <2>3. num \in Nat /\ Data \subseteq DOMAIN desc
    BY <2>1, Served DEF Prepared
  <2> QED BY <2>1, <2>2, <2>3 DEF Data
<1>2. ASSUME LinkOutside  PROVE FALSE
  <2>1. pc = "start" /\ size = 0
    BY <1>2 DEF LinkOutside
  <2>2. size \in 1 .. Capacity /\ Capacity \in Nat
    BY <2>1, SizeAtStart DEF Inv, TypeOK
  <2> QED BY <2>1, <2>2
<1> QED BY <1>1, <1>2

\* From then on, the descriptors have been made.
LEMMA FillStep ==
  ASSUME Inv, GeneratorOK, [Next]_vars
  PROVE  GeneratorOK'
<1> SUFFICES ASSUME LengthsFit(req')  PROVE FillInv'
  BY DEF GeneratorOK
<1>1. CASE Request \/ RequestFilled \/ RequestWithDescriptors \/ AllocRefused \/ Refuse
           \/ AllocReuse \/ AllocNew \/ Finish
  <2>1. pc' \in {"alloc", "check", "refused", "idle"}
    BY <1>1 DEF Request, RequestFilled, RequestWithDescriptors, Arrives, AllocRefused,
                Refuse, AllocReuse, AllocNew, Refused, Finish
  <2> QED BY <2>1 DEF FillInv, PageOK, DescOK, EndOK
<1>2. CASE CopyDescriptors
  <2>1. pc' \in {"start", "refused"} /\ req'.kind = "user"
    BY <1>2 DEF CopyDescriptors, Refused
  <2> QED BY <2>1 DEF FillInv, PageOK, DescOK, EndOK
<1>3. CASE FillControlFlags \/ SetDescSize \/ StartChain
  <2>1. /\ pc \in {"flags", "copy", "start"} /\ pc' \in {"copy", "start", "running"}
        /\ UNCHANGED <<req, num, descIdx, bytesRem>>
    BY <1>3 DEF FillControlFlags, SetDescSize, StartChain, locals
  <2>2. FillInv
    BY <2>1 DEF GeneratorOK
  <2> QED BY <2>1, <2>2 DEF FillInv, PageOK, DescOK, EndOK
<1>4. CASE UNCHANGED vars
  <2>1. UNCHANGED <<pc, req, num, descIdx, mapIdx, bytesRem, pageRem, busAddr>>
    BY <1>4 DEF vars, locals
  <2>2. FillInv
    BY <2>1 DEF GeneratorOK
  <2> QED BY <2>1, <2>2 DEF FillInv, PageOK, DescOK, EndOK, Covered, Reached
<1>5. CASE PlanDescriptors
  <2>1. req' = req
    BY <1>5 DEF PlanDescriptors
  <2> QED BY <1>5, <2>1, PlanFills
<1>6. CASE FillPage \/ FillDescriptor
  <2>1. req' = req
    BY <1>6 DEF FillPage, FillDescriptor
  <2>2. LengthsFit(req) /\ FillInv
    BY <2>1 DEF GeneratorOK
  <2> QED BY <1>6, <2>2, PageFills, DescriptorFills
<1>7. CASE WriteOutside \/ LinkOutside
  <2>1. req' = req
    BY <1>7, StrayStep
  <2>2. LengthsFit(req) /\ FillInv
    BY <2>1 DEF GeneratorOK
  <2> QED BY <1>7, <2>2, NeverAstray
<1> QED BY <1>1, <1>2, <1>3, <1>4, <1>5, <1>6, <1>7 DEF Next, GoneAstray

LEMMA FillHolds == Spec => [](Inv /\ GeneratorOK)
<1>1. Init => GeneratorOK
  BY DEF Init, GeneratorOK, FillInv, PageOK, DescOK, EndOK
<1>2. Inv /\ GeneratorOK /\ [Next]_vars => GeneratorOK'
  BY FillStep
<1> QED BY InvHolds, <1>1, <1>2, PTL DEF Spec

\* The generator never runs out of the plan, the ranges or the memory (fill_addresses,
\* whose assertion this is), and the links are never those of an empty list, for all
\* lengths that fit; plan and links have room in the memory for any that are accepted.
THEOREM GeneratorInBounds == Spec => []WritesInBounds
<1>1. ASSUME Inv, GeneratorOK  PROVE WritesInBounds
  <2>1. ASSUME LengthsFit(req)
        PROVE  /\ pc # "astray" /\ (pc = "desc" => descIdx < num)
               /\ pc = "start" => size > 0
    <3>1. FillInv
      BY <1>1, <2>1 DEF GeneratorOK
    <3>2. pc # "astray"
      BY <3>1 DEF FillInv, EndOK
    <3>3. pc = "desc" => descIdx < num
      BY <1>1, <2>1, <3>1, LengthFits
    <3>4. pc = "start" => size > 0
      <4>1. pc = "start" => size \in 1 .. Capacity /\ Capacity \in Nat
        BY <1>1, <2>1, SizeAtStart DEF Inv, TypeOK
      <4> QED BY <4>1
    <3> QED BY <3>2, <3>3, <3>4
  <2>2. ASSUME pc \in {"desc", "start"}  PROVE num <= Capacity
    <3>1. /\ num + Terminators(req) <= Capacity /\ num \in Nat /\ Capacity \in Nat
          /\ Terminators(req) \in {0, 1}
      BY <1>1, <2>2, Served DEF Prepared
    <3> QED BY <3>1
  <2>3. ASSUME pc = "start"  PROVE size <= Capacity
    <3>1. num + Terminators(req) <= Capacity
      BY <1>1, <2>3, Served DEF Prepared
    <3>2. size = num + Terminators(req)
      BY <1>1, <2>3 DEF Inv, MemoryOK
    <3> QED BY <3>1, <3>2
  <2> QED BY <2>1, <2>2, <2>3 DEF WritesInBounds
<1> QED BY FillHolds, <1>1, PTL

-----------------------------------------------------------------------------
(* What the descriptors cover                                               *)

LEMMA CoverStep ==
  ASSUME LengthsFit(req), Inv, FillInv, CoverOK, [Next]_vars
  PROVE  CoverOK'
<1> DEFINE In(d, m) == \E i \in Ranges(m) : d.pos >= Start(m, i) /\ d.pos + d.len <= End(m, i)
<1> SUFFICES ASSUME pc' \in Prepared, req'.kind # "user", req'.m.off = 0, num' > 0
             PROVE  /\ descIdx' = 0 => bytesRem' = req'.total
                    /\ descIdx' > 0 =>
                         /\ desc'[0].pos = req'.offset
                         /\ desc'[descIdx' - 1].pos + desc'[descIdx' - 1].len = Reached'
                    /\ \A k \in 1 .. descIdx' - 1 :
                         desc'[k].pos = desc'[k - 1].pos + desc'[k - 1].len
                    /\ \A k \in 0 .. descIdx' - 1 : In(desc'[k], req'.m)
  BY DEF CoverOK
<1> DEFINE Result == /\ descIdx' = 0 => bytesRem' = req.total
                     /\ descIdx' > 0 =>
                          /\ desc'[0].pos = req.offset
                          /\ desc'[descIdx' - 1].pos + desc'[descIdx' - 1].len = Reached'
                     /\ \A k \in 1 .. descIdx' - 1 :
                          desc'[k].pos = desc'[k - 1].pos + desc'[k - 1].len
                     /\ \A k \in 0 .. descIdx' - 1 : In(desc'[k], req.m)
           Before == /\ descIdx = 0 => bytesRem = req.total
                     /\ descIdx > 0 =>
                          /\ desc[0].pos = req.offset
                          /\ desc[descIdx - 1].pos + desc[descIdx - 1].len = Reached
                     /\ \A k \in 1 .. descIdx - 1 : desc[k].pos = desc[k - 1].pos + desc[k - 1].len
                     /\ \A k \in 0 .. descIdx - 1 : In(desc[k], req.m)
<1>1. req' = req /\ pc \in Prepared \cup {"check"}
  BY Frame
<1> SUFFICES Result
  BY <1>1
<1>2. pc # "check" => num' = num
  BY Frame
<1>3. pc \in Prepared => Before
  BY <1>1, <1>2 DEF CoverOK, Prepared
<1>4. descIdx \in Nat /\ num \in Nat
  BY DEF Inv, TypeOK
<1>5. ASSUME pc \in Prepared, UNCHANGED <<req, descIdx, bytesRem>>, DOMAIN desc' = DOMAIN desc,
             \A k \in 0 .. descIdx - 1 : desc'[k].pos = desc[k].pos /\ desc'[k].len = desc[k].len
      PROVE  Result
  <2>1. Before /\ Reached' = Reached
    BY <1>3, <1>5 DEF Reached
  <2>2. descIdx > 0 => 0 \in 0 .. descIdx - 1 /\ descIdx - 1 \in 0 .. descIdx - 1
    BY <1>4
  <2>3. \A k \in 1 .. descIdx - 1 : k \in 0 .. descIdx - 1 /\ k - 1 \in 0 .. descIdx - 1
    BY <1>4
  <2>4. descIdx > 0 => /\ desc'[0].pos = req.offset
                       /\ desc'[descIdx - 1].pos + desc'[descIdx - 1].len = Reached
    BY <1>5, <2>1, <2>2
  <2>5. \A k \in 1 .. descIdx - 1 : desc'[k].pos = desc'[k - 1].pos + desc'[k - 1].len
    BY <1>5, <2>1, <2>3
  <2>6. \A k \in 0 .. descIdx - 1 : In(desc'[k], req.m)
    BY <1>5, <2>1
  <2> HIDE DEF In
  <2> QED BY <1>5, <2>1, <2>4, <2>5, <2>6
<1>6. CASE PlanDescriptors
  <2>1. descIdx' = 0 /\ bytesRem' = req.total
    BY <1>6 DEF PlanDescriptors, Refused, Prepared
  <2> QED BY <2>1
<1>7. CASE FillPage \/ SetDescSize \/ StartChain
  <2>1. pc \in Prepared /\ UNCHANGED <<req, descIdx, bytesRem, desc>>
    BY <1>7 DEF FillPage, SetDescSize, StartChain, memory, locals, Prepared
  <2> QED BY <1>5, <2>1
<1>8. CASE FillControlFlags
  <2>1. /\ pc = "flags" /\ UNCHANGED <<req, num, descIdx, bytesRem>>
        /\ desc' = [k \in DOMAIN desc |->
                      IF k < num THEN [desc[k] EXCEPT !.irq = RaisesIrq(req, k)] ELSE desc[k]]
    BY <1>8 DEF FillControlFlags, locals
  <2>2. descIdx = num
    BY <1>1, <2>1 DEF FillInv, EndOK
  <2>3. Data \subseteq DOMAIN desc
    BY <2>1, Served DEF Prepared
  <2>4. \A k \in DOMAIN desc :
          desc[k] \in [pos : Nat \cup {-1}, len : Nat, irq : BOOLEAN]
    BY DEF Inv, TypeOK
  <2>5. ASSUME NEW k \in DOMAIN desc
        PROVE  desc'[k].pos = desc[k].pos /\ desc'[k].len = desc[k].len
    BY <2>1, <2>4
  <2>6. 0 .. descIdx - 1 \subseteq DOMAIN desc /\ DOMAIN desc' = DOMAIN desc
    BY <2>1, <2>2, <2>3 DEF Data
  <2> QED BY <1>5, <2>1, <2>5, <2>6 DEF Prepared
<1>9. CASE FillDescriptor
  <2> DEFINE l == TransferLength
             d == descIdx
             new == [pos |-> busAddr, len |-> l, irq |-> FALSE]
  <2>1. /\ pc = "desc" /\ desc' = [desc EXCEPT ![d] = new] /\ d \in DOMAIN desc
    BY <1>9 DEF FillDescriptor
  <2>2. descIdx' = d + 1 /\ Reached' = Reached + l
    BY <1>9, DescriptorFills
  <2>3. Before
    BY <1>3, <2>1 DEF Prepared
  <2>4. busAddr = Reached + 0
    <3>1. /\ busAddr = Reached + (IF mapIdx = 1 THEN req.m.off ELSE 0)
      BY <2>1 DEF FillInv, DescOK
    <3> QED BY <1>1, <3>1
  <2>5. /\ mapIdx \in Ranges(req.m) /\ Reached >= Start(req.m, mapIdx)
        /\ Reached + pageRem <= End(req.m, mapIdx)
    <3>1. mapIdx \in StartingIdx(req) .. NumRanges(req.m) /\ Reached >= Start(req.m, mapIdx)
          /\ Reached + pageRem <= End(req.m, mapIdx)
      BY <2>1 DEF FillInv, DescOK
    <3>2. StartingIdx(req) \in 1 .. NumRanges(req.m) + 1 /\ Ranges(req.m) = 1 .. NumRanges(req.m)
          /\ NumRanges(req.m) \in Nat
      BY <2>1, Filling
    <3> QED BY <3>1, <3>2
  <2>6. /\ l \in Nat /\ l <= pageRem /\ pageRem \in Nat /\ bytesRem \in Nat
        /\ req.offset \in Nat /\ req.total \in Nat /\ bytesRem <= req.total
    <3>1. l \in Nat /\ l <= pageRem
      BY <2>1, LengthFits
    <3>2. pageRem \in 0 .. Modulus - 1 /\ bytesRem \in 0 .. Modulus - 1 /\ Modulus \in Nat
          /\ req.offset \in Nat /\ req.total \in Nat
      BY <2>1, Filling
    <3>3. bytesRem <= req.total
      BY <2>1 DEF FillInv, DescOK, Covered
    <3>4. pageRem \in Nat /\ bytesRem \in Nat
      BY <3>2
    <3> QED BY <3>1, <3>2, <3>3, <3>4
  <2>7. Reached \in Nat /\ (bytesRem = req.total => Reached = req.offset)
    <3> DEFINE o == req.offset
               all == req.total
               r == Reached
    <3>1. r = o + (all - bytesRem) /\ o \in Nat /\ all \in Nat /\ bytesRem \in Nat /\ bytesRem <= all
      BY <2>6 DEF Reached
    <3> HIDE DEF o, all, r
    <3>2. r \in Nat /\ (bytesRem = all => r = o)
      BY <3>1
    <3> QED BY <3>2 DEF o, all, r
  <2>8. /\ desc'[d].pos = Reached /\ desc'[d].len = l
        /\ \A k : k # d /\ k \in 0 .. d => desc'[k] = desc[k]
    <3>1. busAddr = Reached
      BY <2>4, <2>7
    <3>2. 0 .. d \subseteq DOMAIN desc
      <4>1. DOMAIN desc = 0 .. Capacity - 1 /\ Capacity \in Nat
        BY DEF Inv, TypeOK
      <4> QED BY <1>4, <2>1, <4>1
    <3> QED BY <2>1, <3>1, <3>2
  <2> HIDE DEF new, l
  <2>9. desc'[0].pos = req.offset
    <3>1. CASE d = 0
      BY <2>3, <2>7, <2>8, <3>1
    <3>2. CASE d # 0
      <4>1. d > 0 /\ 0 # d /\ 0 \in 0 .. d
        BY <1>4, <3>2
      <4> QED BY <2>3, <2>8, <4>1
    <3> QED BY <3>1, <3>2
  <2>10. ASSUME NEW k \in 1 .. d
         PROVE  desc'[k].pos = desc'[k - 1].pos + desc'[k - 1].len
    <3>1. k - 1 # d /\ k - 1 \in 0 .. d /\ k \in 0 .. d /\ (k # d => k \in 1 .. d - 1) /\ (k = d => d > 0)
      BY <1>4
    <3>2. desc'[k - 1] = desc[k - 1]
      BY <2>8, <3>1
    <3>3. CASE k = d
      <4>1. desc'[k].pos = desc[d - 1].pos + desc[d - 1].len
        BY <2>3, <2>8, <3>1, <3>3
      <4> QED BY <3>2, <3>3, <4>1
    <3>4. CASE k # d
      <4>1. desc[k].pos = desc[k - 1].pos + desc[k - 1].len
        BY <2>3, <3>1, <3>4
      <4> QED BY <2>8, <3>1, <3>2, <3>4, <4>1
    <3> QED BY <3>3, <3>4
  <2>11. ASSUME NEW k \in 0 .. d  PROVE In(desc'[k], req.m)
    <3>1. CASE k = d
      <4>1. End(req.m, mapIdx) \in Nat /\ Start(req.m, mapIdx) \in Nat
        <5>1. mapIdx \in 1 .. NumRanges(req.m) + 1 /\ req.m \in Mappings
          <6>1. /\ Ranges(req.m) = 1 .. NumRanges(req.m) /\ NumRanges(req.m) \in Nat
                /\ req.m \in Mappings
            BY <2>1, Filling
          <6> QED BY <2>5, <6>1
        <5> QED BY <2>5, <5>1, MappingFacts
      <4>2. Reached + l <= End(req.m, mapIdx)
        <5> DEFINE e == End(req.m, mapIdx)
                   r == Reached
        <5> HIDE DEF e, r
        <5>1. r \in Nat /\ e \in Nat /\ r + pageRem <= e
          BY <2>5, <2>7, <4>1 DEF e, r
        <5>2. r + l <= e
          BY <2>6, <5>1
        <5> QED BY <5>2 DEF e, r
      <4> QED BY <2>5, <2>8, <3>1, <4>2
    <3>2. CASE k # d
      <4>1. k \in 0 .. d - 1
        BY <1>4, <3>2
      <4>2. In(desc[k], req.m)
        BY <2>3, <4>1
      <4>3. desc'[k] = desc[k]
        BY <2>8, <3>2
      <4> HIDE DEF In
      <4> QED BY <4>2, <4>3
    <3> QED BY <3>1, <3>2
  <2>12. descIdx' > 0 /\ descIdx' # 0 /\ descIdx' - 1 = d
    BY <1>4, <2>2
  <2> HIDE DEF In
  <2> QED BY <2>2, <2>8, <2>9, <2>10, <2>11, <2>12
<1>10. CASE UNCHANGED vars
  <2>1. UNCHANGED <<pc, req, descIdx, bytesRem, desc>>
    BY <1>10 DEF vars, memory, locals
  <2>2. pc \in Prepared
    BY <2>1
  <2> QED BY <1>5, <2>1, <2>2
<1>11. CASE Request \/ RequestFilled \/ RequestWithDescriptors \/ AllocRefused \/ Refuse
            \/ AllocReuse \/ AllocNew \/ Finish
  BY <1>11 DEF Request, RequestFilled, RequestWithDescriptors, Arrives, AllocRefused,
               Refuse, AllocReuse, AllocNew, Refused, Finish, Prepared
<1>12. CASE CopyDescriptors
  BY <1>1, <1>12 DEF CopyDescriptors
<1>13. CASE WriteOutside \/ LinkOutside
  BY <1>13, StrayStep DEF Prepared
<1> QED BY <1>6, <1>7, <1>8, <1>9, <1>10, <1>11, <1>12, <1>13 DEF Next, GoneAstray

LEMMA UserStep ==
  ASSUME Inv, UserOK, [Next]_vars
  PROVE  UserOK'
<1> SUFFICES ASSUME pc' \in {"start", "running"}, req'.kind = "user"
             PROVE  \A k \in Data' : InRange(req'.m, desc'[k])
  BY DEF UserOK
<1>1. req' = req /\ pc \in Prepared \cup {"check"}
  BY Frame DEF Prepared
<1>2. CASE CopyDescriptors
  <2>1. /\ num' = Len(req.list) /\ \A k \in DOMAIN req.list : InRange(req.m, req.list[k])
        /\ desc' = [k \in DOMAIN desc |-> IF k < Len(req.list) THEN req.list[k + 1] ELSE desc[k]]
        /\ pc = "check"
    BY <1>2 DEF CopyDescriptors, Refused
  <2>2. Len(req.list) \in Nat /\ DOMAIN req.list = 1 .. Len(req.list)
    <3>1. req.list \in Seq([pos : Nat, len : Nat, irq : BOOLEAN])
      BY <2>1, Served, RequestFacts
    <3> QED BY <3>1
  <2>3. 0 .. Len(req.list) - 1 \subseteq DOMAIN desc
    <3>1. /\ IsRequest(req) /\ DOMAIN desc = 0 .. Capacity - 1 /\ Capacity \in Nat
          /\ AllocSize(req) <= Capacity /\ DataSize(req) \in Nat
          /\ AllocSize(req) = DataSize(req) + Terminators(req) /\ Terminators(req) \in {0, 1}
      BY <2>1, Served
    <3>2. DataSize(req) = Len(req.list)
      BY <1>1, <3>1, SizeFacts
    <3>3. Len(req.list) <= Capacity
      BY <3>1, <3>2
    <3> QED BY <2>2, <3>1, <3>3
  <2>4. ASSUME NEW k \in 0 .. Len(req.list) - 1  PROVE InRange(req.m, desc'[k])
    <3>1. k + 1 \in DOMAIN req.list /\ k < Len(req.list) /\ k \in DOMAIN desc
      BY <2>2, <2>3
    <3>2. desc'[k] = req.list[k + 1]
      BY <2>1, <3>1
    <3> QED BY <2>1, <3>1, <3>2
  <2> QED BY <1>1, <2>1, <2>4 DEF Data
<1>3. CASE StartChain \/ UNCHANGED vars
  <2>1. pc \in {"start", "running"} /\ UNCHANGED <<desc, num, req>>
    BY <1>3 DEF StartChain, vars, memory, locals
  <2> QED BY <2>1 DEF UserOK, Data
<1>4. CASE PlanDescriptors \/ SetDescSize
  <2>1. req.kind # "user"
    BY <1>4 DEF PlanDescriptors, SetDescSize, Inv, RequestOK
  <2> QED BY <1>1, <2>1
<1>5. CASE Request \/ RequestFilled \/ RequestWithDescriptors \/ AllocRefused \/ Refuse
           \/ AllocReuse \/ AllocNew \/ Finish
  BY <1>5 DEF Request, RequestFilled, RequestWithDescriptors, Arrives, AllocRefused,
              Refuse, AllocReuse, AllocNew, Refused, Finish
<1>6. CASE FillPage \/ FillDescriptor \/ FillControlFlags
  BY <1>6 DEF FillPage, FillDescriptor, FillControlFlags
<1>7. CASE WriteOutside \/ LinkOutside
  BY <1>7, StrayStep
<1> QED BY <1>2, <1>3, <1>4, <1>5, <1>6, <1>7 DEF Next, GoneAstray

CoveredOK == LengthsFit(req) => CoverOK

LEMMA CoveredStep ==
  ASSUME Inv, GeneratorOK, CoveredOK, [Next]_vars
  PROVE  CoveredOK'
<1> SUFFICES ASSUME LengthsFit(req')  PROVE CoverOK'
  BY DEF CoveredOK
<1>1. CASE pc' \notin Prepared
  BY <1>1 DEF CoverOK
<1>2. CASE pc' \in Prepared
  <2>1. req' = req
    BY <1>2, Frame
  <2>2. LengthsFit(req) /\ FillInv /\ CoverOK
    BY <2>1 DEF GeneratorOK, CoveredOK
  <2> QED BY <2>2, CoverStep
<1> QED BY <1>1, <1>2

LEMMA CoverHolds == Spec => [](Inv /\ GeneratorOK /\ CoveredOK /\ UserOK)
<1>1. Init => CoveredOK /\ UserOK
  BY DEF Init, CoveredOK, CoverOK, UserOK, Prepared
<1>2. Inv /\ GeneratorOK /\ CoveredOK /\ UserOK /\ [Next]_vars => CoveredOK' /\ UserOK'
  BY CoveredStep, UserStep
<1> QED BY FillHolds, <1>1, <1>2, PTL DEF Spec

\* The descriptors the device gets are the bytes asked for, in order and without a gap,
\* each in one range (fill_addresses); those from user space stay in ranges, too.
THEOREM RequestsAreCovered == Spec => []CoversRequest
<1>1. ASSUME Inv, GeneratorOK, CoveredOK, UserOK, pc = "running"
      PROVE  /\ req.kind # "user" /\ LengthsFit(req) /\ req.m.off = 0 /\ num > 0 =>
                  /\ chain[0].data.pos = req.offset
                  /\ \A k \in Data \ {0} :
                       chain[k].data.pos = chain[k - 1].data.pos + chain[k - 1].data.len
                  /\ chain[num - 1].data.pos + chain[num - 1].data.len
                       = req.offset + req.total
             /\ req.kind = "user" \/ (LengthsFit(req) /\ req.m.off = 0) =>
                  \A k \in Data : \E i \in Ranges(req.m) :
                    /\ chain[k].data.pos >= Start(req.m, i)
                    /\ chain[k].data.pos + chain[k].data.len <= End(req.m, i)
  <2>1. /\ chain = Links /\ num \in Nat /\ Data \subseteq 0 .. size - 1
        /\ size = num + Terminators(req) /\ Terminators(req) \in {0, 1} /\ size \in Nat
    BY <1>1, Running
  <2>2. ASSUME NEW k \in Data  PROVE chain[k].data = desc[k]
    <3>1. k \in 0 .. size - 1 /\ (k = size - 1 => IsStream(req))
      BY <2>1 DEF Data, Terminators
    <3> QED BY <2>1, <3>1 DEF Links
  <2>3. ASSUME req.kind # "user", LengthsFit(req), req.m.off = 0, num > 0
        PROVE  /\ desc[0].pos = req.offset
               /\ \A k \in Data \ {0} : desc[k].pos = desc[k - 1].pos + desc[k - 1].len
               /\ desc[num - 1].pos + desc[num - 1].len = req.offset + req.total
               /\ \A k \in Data : \E i \in Ranges(req.m) :
                    desc[k].pos >= Start(req.m, i) /\ desc[k].pos + desc[k].len <= End(req.m, i)
    <3>1. descIdx = num /\ bytesRem = 0
      BY <1>1, <2>3 DEF GeneratorOK, FillInv, EndOK
    <3>2. Reached = req.offset + req.total
      <4>1. req.total \in Nat /\ req.offset \in Nat
        BY <1>1, RequestFacts DEF Inv, RequestOK
      <4> DEFINE o == req.offset
                 all == req.total
      <4>2. Reached = o + (all - 0)
        BY <3>1 DEF Reached
      <4> HIDE DEF o, all
      <4>3. o + (all - 0) = o + all
        BY <4>1 DEF o, all
      <4> QED BY <4>2, <4>3 DEF o, all
    <3>3. /\ desc[0].pos = req.offset
          /\ desc[num - 1].pos + desc[num - 1].len = Reached
          /\ \A k \in 1 .. num - 1 : desc[k].pos = desc[k - 1].pos + desc[k - 1].len
          /\ \A k \in 0 .. num - 1 : \E i \in Ranges(req.m) :
               desc[k].pos >= Start(req.m, i) /\ desc[k].pos + desc[k].len <= End(req.m, i)
      BY <1>1, <2>3, <3>1 DEF CoveredOK, CoverOK, Prepared
    <3>4. Data \ {0} = 1 .. num - 1
      BY <2>1 DEF Data
    <3> QED BY <3>2, <3>3, <3>4 DEF Data
  <2>4. ASSUME req.kind # "user", LengthsFit(req), req.m.off = 0, num > 0
        PROVE  /\ chain[0].data.pos = req.offset
               /\ \A k \in Data \ {0} :
                    chain[k].data.pos = chain[k - 1].data.pos + chain[k - 1].data.len
               /\ chain[num - 1].data.pos + chain[num - 1].data.len = req.offset + req.total
    <3>1. 0 \in Data /\ num - 1 \in Data /\ \A k \in Data \ {0} : k - 1 \in Data
      BY <2>1, <2>4 DEF Data
    <3>2. chain[0].data = desc[0] /\ chain[num - 1].data = desc[num - 1]
      BY <2>2, <3>1
    <3>3. \A k \in Data \ {0} : chain[k].data = desc[k] /\ chain[k - 1].data = desc[k - 1]
      BY <2>2, <3>1
    <3> QED BY <2>3, <2>4, <3>2, <3>3
  <2>5. ASSUME req.kind = "user" \/ (LengthsFit(req) /\ req.m.off = 0), NEW k \in Data
        PROVE  \E i \in Ranges(req.m) :
                 desc[k].pos >= Start(req.m, i) /\ desc[k].pos + desc[k].len <= End(req.m, i)
    <3>1. CASE req.kind = "user"
      BY <1>1, <3>1 DEF UserOK, InRange
    <3>2. CASE req.kind # "user"
      <4>1. num > 0
        BY <2>1, <2>5 DEF Data
      <4> QED BY <2>3, <2>5, <3>2, <4>1
    <3> QED BY <3>1, <3>2
  <2>6. req.kind = "user" \/ (LengthsFit(req) /\ req.m.off = 0) =>
          \A k \in Data : \E i \in Ranges(req.m) :
            /\ chain[k].data.pos >= Start(req.m, i)
            /\ chain[k].data.pos + chain[k].data.len <= End(req.m, i)
    BY <2>2, <2>5
  <2> QED BY <2>4, <2>6
<1>2. Inv /\ GeneratorOK /\ CoveredOK /\ UserOK => CoversRequest
  BY <1>1 DEF CoversRequest, Generated
<1> QED BY CoverHolds, <1>2, PTL

-----------------------------------------------------------------------------
(* What is accepted                                                         *)

LEMMA RoundUpCovers ==
  ASSUME NEW n \in Nat, NEW d \in Nat \ {0}
  PROVE  DivRoundUp(n, d) \in Nat /\ n <= DivRoundUp(n, d) * d
<1>1. PICK q \in Int, x \in Int : n + d - 1 = q * d + x /\ 0 <= x /\ x < d /\ q = (n + d - 1) \div d
  OBVIOUS
<1>2. DivRoundUp(n, d) \in Nat
  BY DivRoundUpFacts
<1> QED BY <1>1, <1>2 DEF DivRoundUp

LEMMA RoundUpLeast ==
  ASSUME NEW n \in Nat, NEW d \in Nat \ {0}, NEW k \in Int, n <= k * d
  PROVE  DivRoundUp(n, d) <= k
<1>1. PICK q \in Int, x \in Int : n + d - 1 = q * d + x /\ 0 <= x /\ x < d /\ q = (n + d - 1) \div d
  OBVIOUS
<1>2. SUFFICES ASSUME q > k  PROVE FALSE
  BY <1>1 DEF DivRoundUp
<1>3. q - k - 1 \in Nat /\ q * d = k * d + d + (q - k - 1) * d
  BY <1>1, <1>2
<1>4. (q - k - 1) * d >= 0
  BY <1>3
<1> DEFINE a == q * d
           b == k * d
           c == (q - k - 1) * d
<1>5. a \in Int /\ b \in Int /\ c \in Int /\ a = b + d + c /\ c >= 0 /\ n <= b /\ n + d - 1 = a + x
  BY <1>1, <1>3, <1>4
<1> HIDE DEF a, b, c
<1> QED BY <1>1, <1>5

LEMMA RoundDown ==
  ASSUME NEW n \in Nat, NEW d \in Nat \ {0}
  PROVE  n \div d \in Nat /\ (n \div d) * d <= n /\ n < (n \div d) * d + d
<1>1. n \div d \in Nat
  OBVIOUS
<1>2. n = (n \div d) * d + (n % d) /\ n % d \in 0 .. d - 1
  BY SMTT(60)
<1> DEFINE q == (n \div d) * d
           x == n % d
<1>3. q \in Nat
  BY <1>1
<1> HIDE DEF q, x
<1>4. n = q + x /\ x \in 0 .. d - 1
  BY <1>2 DEF q, x
<1>5. q <= n /\ n < q + d
  BY <1>3, <1>4
<1> QED BY <1>1, <1>5 DEF q

\* What lies between two bytes needs at most the pages it touches.
LEMMA PagesTouched ==
  ASSUME NEW lo \in Nat, NEW hi \in Nat, lo < hi
  PROVE  DivRoundUp(hi - lo, MaxTransfer) <= DivRoundUp(hi, Page) - (lo \div Page)
<1> DEFINE c == DivRoundUp(hi, Page)
           f == lo \div Page
<1>1. Page \in Nat \ {0} /\ MaxTransfer \in Nat \ {0} /\ Page <= MaxTransfer
  BY DescriptorsAssumption
<1>2. c \in Nat /\ hi <= c * Page /\ f \in Nat /\ f * Page <= lo
  BY <1>1, RoundUpCovers, RoundDown
<1> HIDE DEF c, f
<1>3. (c - f) * Page = c * Page - f * Page
  BY <1>1, <1>2
<1>4. hi - lo <= (c - f) * Page /\ hi - lo \in Nat /\ hi - lo > 0
  <2> DEFINE x == c * Page
             y == f * Page
  <2>1. x \in Int /\ y \in Int /\ hi <= x /\ y <= lo /\ (c - f) * Page = x - y
    BY <1>1, <1>2, <1>3
  <2> HIDE DEF x, y
  <2>2. hi - lo <= x - y
    BY <2>1
  <2> QED BY <2>1, <2>2
<1>5. c - f > 0
  <2>1. SUFFICES ASSUME c - f <= 0  PROVE FALSE
    BY <1>2
  <2>2. (c - f) * Page <= 0
    BY <1>1, <1>2, <2>1
  <2> QED BY <1>1, <1>2, <1>4, <2>2
<1>6. (c - f) * Page <= (c - f) * MaxTransfer
  <2>1. (c - f) * MaxTransfer = (c - f) * Page + (c - f) * (MaxTransfer - Page)
    BY <1>1, <1>2
  <2>2. (c - f) * (MaxTransfer - Page) >= 0
    BY <1>1, <1>2, <1>5
  <2> DEFINE x == (c - f) * MaxTransfer
             y == (c - f) * Page
             z == (c - f) * (MaxTransfer - Page)
  <2>3. x \in Int /\ y \in Int /\ z \in Int /\ x = y + z /\ z >= 0
    BY <1>1, <1>2, <2>1, <2>2
  <2> HIDE DEF x, y, z
  <2>4. y <= x
    BY <2>3
  <2> QED BY <2>4 DEF x, y
<1>7. hi - lo <= (c - f) * MaxTransfer
  <2> DEFINE x == (c - f) * MaxTransfer
             y == (c - f) * Page
             z == hi - lo
  <2>1. x \in Int /\ y \in Int /\ z \in Int /\ y <= x /\ z <= y
    BY <1>1, <1>2, <1>4, <1>6
  <2> HIDE DEF x, y, z
  <2>2. z <= x
    BY <2>1
  <2> QED BY <2>2 DEF x, z
<1>8. c - f \in Int
  BY <1>2
<1>9. DivRoundUp(hi - lo, MaxTransfer) <= c - f
  <2> DEFINE z == hi - lo
             k == c - f
  <2>1. z \in Nat /\ k \in Int /\ z <= k * MaxTransfer
    BY <1>4, <1>7, <1>8
  <2> HIDE DEF z, k
  <2>2. DivRoundUp(z, MaxTransfer) <= k
    BY <1>1, <2>1, RoundUpLeast
  <2> QED BY <2>2 DEF z, k
<1> QED BY <1>9 DEF c, f

\* Without a fixed length, the plan is at most the estimate with its spare descriptor:
\* only the pages at the ends of the transfer are not used in full.
LEMMA PlanIsSmall ==
  ASSUME NEW r, r.m \in Mappings, r.offset \in Nat, r.total \in Nat
  PROVE  Planned(r)[NumRanges(r.m)] <= DivRoundUp(r.total, Page) + 1
<1> DEFINE n == NumRanges(r.m)
           m == r.m
           off == r.m.off
           o == r.offset
           all == r.total
           t == o + all
           p == Planned(r)
           C(x) == DivRoundUp(x + off, Page)
           F == (o + off) \div Page
           hi(i) == IF End(m, i) <= t THEN End(m, i) ELSE t
           Small(i) == p[i] = 0 \/ (i >= 1 /\ o < hi(i) /\ p[i] <= C(hi(i)) - F)
           S == {i \in Nat : i \in 0 .. n => Small(i)}
<1>1. /\ n \in Nat \ {0} /\ Ranges(m) = 1 .. n /\ off \in Nat /\ o \in Nat /\ all \in Nat /\ t \in Nat
      /\ Page \in Nat \ {0}
  <2>1. n \in Nat \ {0} /\ Ranges(m) = 1 .. n /\ off \in Nat
    BY MappingFacts DEF Ranges
  <2>2. Page \in Nat \ {0}
    BY DescriptorsAssumption
  <2>3. o \in Nat /\ all \in Nat
    OBVIOUS
  <2>4. t \in Nat
    BY <2>3
  <2> HIDE DEF n, t
  <2> QED BY <2>1, <2>2, <2>3, <2>4
<1>2. \A i \in 1 .. n : /\ Start(m, i) \in Nat /\ End(m, i) \in Nat /\ Start(m, i) < End(m, i)
                        /\ End(m, i) = Start(m, i + 1)
  <2>1. \A i \in 1 .. n : i \in 1 .. n + 1
    BY <1>1
  <2> QED BY <1>1, <2>1, MappingFacts
<1>3. p \in [0 .. n -> Nat] /\ p[0] = 0
      /\ \A i \in 1 .. n : p[i] = p[i - 1] + DivRoundUp(PageBytes(r, i), MaxTransfer)
  BY <1>1, PlannedFacts
<1>4. /\ \A x \in Nat : C(x) \in Nat /\ x + off <= C(x) * Page
      /\ \A x \in Nat, k \in Int : x + off <= k * Page => C(x) <= k
  <2>1. \A x \in Nat : x + off \in Nat
    BY <1>1
  <2> QED BY <1>1, <2>1, RoundUpCovers, RoundUpLeast
<1>5. F \in Nat /\ o + off < F * Page + Page
  <2>1. o + off \in Nat
    BY <1>1
  <2> QED BY <1>1, <2>1, RoundDown
<1>6. ASSUME NEW i \in 1 .. n, i # 1
      PROVE  C(Start(m, i)) <= (Start(m, i) + off) \div Page
  <2> DEFINE a == Start(m, i) + off
  <2>1. a \in Nat
    BY <1>1, <1>2
  <2>2. a % Page = 0
    <3>1. i \in 2 .. Len(m.bounds) - 1
      BY <1>1, <1>6 DEF NumRanges
    <3> QED BY <3>1, DescriptorsAssumption DEF Start
  <2> HIDE DEF a
  <2>3. a <= (a \div Page) * Page /\ a \div Page \in Int
    BY <1>1, <2>1, <2>2, SMTT(60)
  <2> QED BY <1>2, <1>4, <2>3 DEF a
<1>7. \A a \in Nat, b \in Nat : a <= b => C(a) <= C(b)
  <2> SUFFICES ASSUME NEW a \in Nat, NEW b \in Nat, a <= b  PROVE C(a) <= C(b)
    OBVIOUS
  <2>1. C(b) \in Nat /\ b + off <= C(b) * Page
    BY <1>4
  <2>2. a + off <= C(b) * Page
    <3> DEFINE x == C(b) * Page
    <3>1. x \in Int /\ b + off <= x
      BY <1>1, <2>1
    <3> HIDE DEF x
    <3>2. a + off <= x
      BY <1>1, <3>1
    <3> QED BY <3>2 DEF x
  <2> QED BY <1>4, <2>1, <2>2
<1>8. \A a \in Nat : a >= o => (a + off) \div Page >= F
  <2> SUFFICES ASSUME NEW a \in Nat, a >= o  PROVE (a + off) \div Page >= F
    OBVIOUS
  <2> DEFINE g == (a + off) \div Page
  <2>1. a + off \in Nat /\ o + off \in Nat
    <3>1. off \in Nat /\ o \in Nat
      BY <1>1
    <3> HIDE DEF off, o
    <3> QED BY <3>1
  <2>2. g \in Nat /\ a + off < g * Page + Page
    BY <1>1, <2>1, RoundDown
  <2>3. F * Page <= o + off
    BY <1>1, <2>1, RoundDown
  <2> HIDE DEF g, F
  <2>4. SUFFICES ASSUME g < F  PROVE FALSE
    BY <1>5, <2>2 DEF g
  <2>5. F - g - 1 \in Nat /\ F * Page = g * Page + Page + (F - g - 1) * Page
    BY <1>1, <1>5, <2>2, <2>4
  <2>6. (F - g - 1) * Page >= 0
    BY <1>1, <2>5
  <2> DEFINE x == F * Page
             y == g * Page
             z == (F - g - 1) * Page
  <2>7. x \in Int /\ y \in Int /\ z \in Int /\ x = y + Page + z /\ z >= 0
        /\ a + off < y + Page /\ x <= o + off
    BY <1>1, <1>5, <2>2, <2>3, <2>5, <2>6
  <2> HIDE DEF x, y, z
  <2> QED BY <1>1, <2>4, <2>7
<1> HIDE DEF C, F
<1>9. ASSUME NEW i \in 1 .. n, Small(i - 1)  PROVE Small(i)
  <2> DEFINE s == Start(m, i)
             e == End(m, i)
             lo == IF s >= o THEN s ELSE o
             h == hi(i)
             c == PageBytes(r, i)
  <2>1. s \in Nat /\ e \in Nat /\ s < e
    BY <1>2
  <2>2. i \in 0 .. n /\ i - 1 \in 0 .. n /\ i >= 1
    BY <1>1
  <2>3. p[i] \in Nat /\ p[i - 1] \in Nat
    BY <1>3, <2>2
  <2>4. h \in Nat /\ lo \in Nat /\ lo >= o
    BY <1>1, <2>1
  <2>5. CASE lo < h
    <3>1. c = h - lo
      <4>1. i \in Ranges(m)
        BY <1>1
      <4>2. /\ \/ lo = Start(m, i) /\ lo >= o
               \/ lo = o /\ lo >= Start(m, i)
            /\ lo < End(m, i) /\ lo < t
        BY <1>1, <2>1, <2>5
      <4>3. c = IF End(m, i) <= t THEN End(m, i) - lo ELSE t - lo
        <5>1. \A x \in Nat :
                /\ \/ x = Start(m, i) /\ x >= o
                   \/ x = o /\ x >= Start(m, i)
                /\ x < End(m, i) /\ x < t
                => c = (IF End(m, i) <= t THEN End(m, i) - x ELSE t - x)
          <6>1. i \in Ranges(r.m)
            BY <4>1
          <6> HIDE DEF lo, s, e, h, p, n, S, t
          <6> QED BY <6>1, PageBytesFacts, SMTT(30) DEF t
        <5> HIDE DEF lo, c
        <5> QED BY <2>4, <4>2, <5>1
      <4> QED BY <4>3
    <3>2. p[i] = p[i - 1] + DivRoundUp(h - lo, MaxTransfer)
      BY <1>3, <3>1
    <3>3. DivRoundUp(h - lo, MaxTransfer) <= C(h) - ((lo + off) \div Page)
      <4> HIDE DEF h, lo
      <4> DEFINE a == lo + off
                 b == h + off
      <4>1. a \in Nat /\ b \in Nat /\ a < b /\ b - a = h - lo
        <5>1. off \in Nat /\ lo \in Nat /\ h \in Nat /\ lo < h
          BY <1>1, <2>4, <2>5
        <5> HIDE DEF off
        <5> QED BY <5>1
      <4>2. C(h) = DivRoundUp(b, Page)
        BY DEF C
      <4> HIDE DEF a, b
      <4>3. DivRoundUp(b - a, MaxTransfer) <= DivRoundUp(b, Page) - (a \div Page)
        BY <4>1, PagesTouched
      <4> QED BY <4>1, <4>2, <4>3 DEF a
    <3>4. (lo + off) \div Page \in Nat /\ DivRoundUp(h - lo, MaxTransfer) \in Nat /\ C(h) \in Nat
      <4>1. lo + off \in Nat /\ h - lo \in Nat
        <5> HIDE DEF lo, h
        <5> QED BY <1>1, <2>4, <2>5
      <4>2. (lo + off) \div Page \in Nat
        BY <1>1, <4>1, RoundDown
      <4>3. DivRoundUp(h - lo, MaxTransfer) \in Nat
        BY <4>1, DivRoundUpFacts, DescriptorsAssumption
      <4> QED BY <1>4, <2>4, <4>2, <4>3
    <3>5. CASE p[i - 1] = 0
      <4>1. (lo + off) \div Page >= F
        BY <1>8, <2>4
      <4> DEFINE g == (lo + off) \div Page
                 k == DivRoundUp(h - lo, MaxTransfer)
                 ch == C(h)
      <4>2. p[i] = 0 + k /\ k <= ch - g /\ g >= F /\ g \in Nat /\ k \in Nat /\ ch \in Nat
        BY <3>2, <3>3, <3>4, <3>5, <4>1
      <4> HIDE DEF g, k, ch
      <4>3. p[i] <= ch - F
        BY <1>5, <4>2
      <4>4. o < h
        <5> HIDE DEF lo, h
        <5> QED BY <1>1, <2>4, <2>5
      <4> QED BY <2>2, <4>3, <4>4 DEF ch
    <3>6. CASE p[i - 1] # 0
      <4>1. i - 1 >= 1 /\ o < hi(i - 1) /\ p[i - 1] <= C(hi(i - 1)) - F
        BY <1>9, <3>6
      <4>2. i - 1 \in 1 .. n /\ i # 1 /\ i - 1 + 1 = i
        BY <2>2, <4>1
      <4>3. End(m, i - 1) = s
        BY <1>2, <4>2
      <4>4. lo = s /\ hi(i - 1) = s
        <5>1. s > o
          BY <1>1, <2>1, <4>1, <4>3
        <5>2. s < t
          BY <1>1, <2>1, <2>4, <2>5, <5>1
        <5> QED BY <1>1, <2>1, <4>3, <5>1, <5>2
      <4>5. C(s) <= (s + off) \div Page
        BY <1>6, <4>2
      <4> DEFINE g == (s + off) \div Page
                 k == DivRoundUp(h - lo, MaxTransfer)
                 ch == C(h)
                 cs == C(s)
      <4>6. /\ p[i] = p[i - 1] + k /\ k <= ch - g /\ cs <= g /\ p[i - 1] <= cs - F
            /\ g \in Nat /\ k \in Nat /\ ch \in Nat /\ cs \in Nat
        BY <1>4, <2>1, <3>2, <3>3, <3>4, <4>1, <4>4, <4>5
      <4> HIDE DEF g, k, ch, cs
      <4>7. p[i] <= ch - F
        BY <1>5, <2>3, <4>6
      <4>8. o < h
        <5> HIDE DEF lo, h
        <5> QED BY <1>1, <2>4, <2>5
      <4> QED BY <2>2, <4>7, <4>8 DEF ch
    <3> QED BY <3>5, <3>6
  <2>6. CASE ~(lo < h)
    <3>1. c = 0
      <4>1. s >= t \/ e <= o \/ all = 0
        BY <1>1, <2>1, <2>6
      <4>2. i \in Ranges(m)
        BY <1>1
      <4> HIDE DEF c, s, e
      <4> QED BY <1>1, <4>1, <4>2, PageBytesFacts DEF c, s, e
    <3>2. p[i] = p[i - 1]
      <4>1. DivRoundUp(0, MaxTransfer) = 0
        BY DivRoundUpFacts, DescriptorsAssumption
      <4>2. p[i] = p[i - 1] + 0
        BY <1>3, <3>1, <4>1
      <4> QED BY <2>3, <4>2
    <3>3. CASE p[i - 1] = 0
      BY <3>2, <3>3
    <3>4. CASE p[i - 1] # 0
      <4>1. i - 1 >= 1 /\ o < hi(i - 1) /\ p[i - 1] <= C(hi(i - 1)) - F
        BY <1>9, <3>4
      <4>2. i - 1 \in 1 .. n /\ i - 1 + 1 = i
        BY <2>2, <4>1
      <4>3. End(m, i - 1) = s
        BY <1>2, <4>2
      <4> DEFINE h1 == hi(i - 1)
      <4>4. h1 \in Nat /\ h1 <= h
        BY <1>1, <2>1, <4>3
      <4>5. C(h1) <= C(h) /\ C(h1) \in Nat /\ C(h) \in Nat
        BY <1>4, <1>7, <2>4, <4>4
      <4>6. o < h1 /\ p[i - 1] <= C(h1) - F
        BY <4>1
      <4> HIDE DEF h1, h
      <4>7. o < h /\ p[i] <= C(h) - F
        <5> DEFINE a == C(h1)
                   b == C(h)
                   x == p[i]
        <5>1. /\ o \in Nat /\ h \in Nat /\ h1 \in Nat /\ h1 <= h /\ o < h1
              /\ a \in Nat /\ b \in Nat /\ a <= b /\ x \in Nat /\ F \in Nat /\ x <= a - F
          BY <1>1, <1>5, <2>3, <2>4, <3>2, <4>4, <4>5, <4>6
        <5> HIDE DEF a, b, x, o
        <5>2. o < h
          BY <5>1
        <5>3. x <= b - F
          BY <5>1
        <5> QED BY <5>2, <5>3 DEF b, x
      <4> QED BY <2>2, <4>7 DEF h
    <3> QED BY <3>3, <3>4
  <2> QED BY <2>5, <2>6
<1>10. n \in S
  <2>1. 0 \in S
    BY <1>3
  <2>2. \A i \in 0 .. n - 1 : i \in S => i + 1 \in S
    <3> SUFFICES ASSUME NEW i \in 0 .. n - 1, i \in S  PROVE i + 1 \in S
      OBVIOUS
    <3> HIDE DEF Small
    <3>1. i + 1 \in 1 .. n /\ i + 1 - 1 = i /\ i \in 0 .. n /\ i + 1 \in Nat
      BY <1>1
    <3> DEFINE j == i + 1
    <3>2. j \in 1 .. n /\ Small(j - 1)
      BY <3>1
    <3> HIDE DEF j
    <3>3. Small(j)
      BY <1>9, <3>2
    <3> QED BY <3>1, <3>3 DEF j
  <2> HIDE DEF S
  <2>3. 0 .. n \subseteq S
    BY <1>1, <2>1, <2>2, UpTo
  <2> QED BY <1>1, <2>3
<1>11. Small(n)
  <2> HIDE DEF Small
  <2>1. n \in 0 .. n
    BY <1>1
  <2> QED BY <1>10, <2>1
<1>12. p[n] \in Nat /\ DivRoundUp(all, Page) \in Nat
  <2>1. n \in 0 .. n
    BY <1>1
  <2> QED BY <1>1, <1>3, <2>1, RoundUpCovers
<1>13. CASE p[n] = 0
  <2> DEFINE k == DivRoundUp(all, Page)
  <2>1. k \in Nat
    BY <1>12
  <2> HIDE DEF k
  <2>2. 0 <= k + 1
    BY <2>1
  <2> QED BY <1>13, <2>2 DEF k
<1>14. CASE p[n] # 0
  <2> DEFINE h == hi(n)
             k == DivRoundUp(all, Page)
  <2>1. n \in 1 .. n
    BY <1>1
  <2>2. h \in Nat /\ h <= t
    BY <1>1, <1>2, <2>1
  <2>3. p[n] <= C(h) - F /\ C(h) <= C(t) /\ C(h) \in Nat /\ C(t) \in Nat
    BY <1>1, <1>4, <1>7, <1>11, <1>14, <2>2
  <2>4. C(t) <= F + 1 + k
    <3>1. all <= k * Page /\ k \in Nat
      BY <1>1, RoundUpCovers
    <3> HIDE DEF k
    <3>2. (F + 1 + k) * Page = F * Page + Page + k * Page
      BY <1>1, <1>5, <3>1
    <3> DEFINE x == F * Page
               y == k * Page
               z == (F + 1 + k) * Page
    <3>3. x \in Int /\ y \in Int /\ z \in Int /\ all <= y /\ z = x + Page + y /\ o + off < x + Page
      BY <1>1, <1>5, <3>1, <3>2
    <3> HIDE DEF x, y, z, o, all, off
    <3>4. (o + all) + off <= z
      BY <1>1, <3>3
    <3>5. F + 1 + k \in Int
      BY <1>5, <3>1
    <3> QED BY <1>1, <1>4, <3>4, <3>5 DEF z
  <2> DEFINE a == C(h)
             b == C(t)
  <2>5. p[n] <= a - F /\ a <= b /\ b <= F + 1 + k /\ a \in Nat /\ b \in Nat
    BY <2>3, <2>4
  <2> HIDE DEF a, b, h, k
  <2>6. p[n] <= k + 1
    BY <1>5, <1>12, <2>5 DEF k
  <2> QED BY <2>6 DEF k
<1> QED BY <1>13, <1>14

\* Unless its size wraps around, the estimate for a one-shot is enough.
LEMMA EstimateIsEnough ==
  ASSUME NEW r, IsRequest(r), r.kind # "user", ~IsStream(r),
         MaxDescriptorsNeeded(r) + 1 < SizeMod
  PROVE  NumDescriptors(r) <= DataSize(r)
<1> DEFINE needed == MaxDescriptorsNeeded(r)
           base == IF r.perDesc > 0 THEN r.total \div r.perDesc ELSE DivRoundUp(r.total, Page)
<1>1. /\ r.offset \in Nat /\ r.total \in Nat /\ r.perDesc \in Nat /\ r.m \in Mappings
      /\ SizeMod \in Nat \ {0} /\ Page \in Nat \ {0} /\ NumDescriptors(r) \in Nat
  BY RequestFacts, SizeFacts, DescriptorsAssumption
<1>2. base \in Nat
  <2>1. r.perDesc > 0 => r.total \div r.perDesc \in Nat
    BY <1>1, Division
  <2>2. DivRoundUp(r.total, Page) \in Nat
    BY <1>1, DivRoundUpFacts
  <2> QED BY <2>1, <2>2
<1>3. needed = base + 1
  BY DEF MaxDescriptorsNeeded, Terminators
<1>4. NumDescriptors(r) <= base + 1
  <2>1. CASE r.perDesc > 0
    <3>1. NumDescriptors(r) = base
      BY <2>1 DEF NumDescriptors
    <3> HIDE DEF base
    <3> QED BY <1>2, <3>1
  <2>2. CASE ~(r.perDesc > 0)
    <3>1. NumDescriptors(r) = Planned(r)[NumRanges(r.m)] /\ base = DivRoundUp(r.total, Page)
      BY <2>2 DEF NumDescriptors
    <3> QED BY <1>1, <3>1, PlanIsSmall
  <2> QED BY <2>1, <2>2
<1> HIDE DEF base
<1>5. needed \in Nat /\ needed < SizeMod
  BY <1>1, <1>2, <1>3
<1>6. needed % SizeMod = needed
  <2> HIDE DEF needed
  <2> QED BY <1>1, <1>5, Remainder
<1>7. DataSize(r) = needed
  BY <1>6 DEF DataSize
<1> HIDE DEF needed
<1> QED BY <1>1, <1>2, <1>3, <1>4, <1>7

LEMMA DivisorsOfDivisor ==
  ASSUME NEW a \in Nat \ {0}, NEW b \in Nat, NEW d \in Divisors(a), a \in Divisors(b)
  PROVE  d \in Divisors(b)
<1>1. d \in Nat \ {0}
  BY DEF Divisors
<1>2. PICK p \in Nat : a = d * p
  BY DEF Divisors
<1>3. PICK q \in Nat : b = a * q
  BY DEF Divisors
<1>4. b = d * (p * q) /\ p * q \in Nat
  <2>1. (d * p) * q = d * (p * q) /\ p * q \in Nat
    BY <1>1
  <2> QED BY <1>2, <1>3, <2>1
<1> QED BY <1>1, <1>4 DEF Divisors

\* The parameters that the code fills in pass its validation.
LEMMA FilledIsValid ==
  ASSUME NEW r, IsRequest(r), r.kind = "filled",
         IsStream(r) => \A i \in Ranges(r.m) : RangeSize(r.m, i) % Page = 0
  PROVE  ValidParams(r)
<1>1. /\ r.m \in Mappings /\ r.offset = 0 /\ r.total = MapSize(r.m)
      /\ r.perDesc = (IF IsStream(r) THEN StreamDesc ELSE 0)
      /\ r.interval = (IF IsStream(r) THEN StreamInterval ELSE 0)
  BY DEF IsRequest
<1>2. /\ MapSize(r.m) \in Nat /\ MapSize(r.m) < Modulus /\ NumRanges(r.m) \in Nat \ {0}
      /\ MapSize(r.m) = Start(r.m, NumRanges(r.m) + 1) /\ Ranges(r.m) = 1 .. NumRanges(r.m)
      /\ \A i \in Ranges(r.m) : RangeSize(r.m, i) \in Nat
  <2>1. ASSUME NEW i \in Ranges(r.m)  PROVE RangeSize(r.m, i) \in Nat
    <3>1. i \in 1 .. NumRanges(r.m) + 1
      BY <1>1, MappingFacts DEF Ranges
    <3>2. Start(r.m, i) \in Nat /\ End(r.m, i) \in Nat /\ Start(r.m, i) < End(r.m, i)
      BY <1>1, <3>1, MappingFacts
    <3>3. End(r.m, i) - Start(r.m, i) \in Nat
      BY <3>2
    <3> QED BY <3>3 DEF RangeSize
  <2> QED BY <1>1, <2>1, MappingFacts DEF Ranges
<1>3. /\ Modulus \in Nat \ {0} /\ Page \in Nat \ {0} /\ StreamDesc \in Nat \ {0}
      /\ StreamInterval \in Nat \ {0} /\ MaxTransfer \in Nat \ {0} /\ Page <= MaxTransfer
      /\ Page % (StreamDesc * StreamInterval) = 0
  BY DescriptorsAssumption
<1>4. r.offset <= MapSize(r.m) /\ (r.total + r.offset) % Modulus <= MapSize(r.m)
  <2> DEFINE n == MapSize(r.m)
  <2>1. n \in Nat /\ n < Modulus /\ r.offset = 0 /\ r.total = n
    BY <1>1, <1>2
  <2> HIDE DEF n
  <2>2. n % Modulus = n
    BY <1>3, <2>1, Remainder
  <2>3. r.offset <= n /\ (r.total + r.offset) % Modulus <= n
    <3>1. n + 0 = n /\ 0 <= n /\ n <= n
      BY <2>1
    <3>2. r.total + r.offset = n
      BY <2>1, <3>1
    <3>3. (r.total + r.offset) % Modulus = n
      BY <2>2, <3>2
    <3> QED BY <2>1, <3>1, <3>3
  <2> QED BY <2>3 DEF n
<1>5. CASE ~IsStream(r)
  <2>1. ~(r.perDesc > 0) /\ ~(r.interval > 0)
    BY <1>1, <1>5
  <2> QED BY <1>4, <2>1 DEF ValidParams
<1>6. CASE IsStream(r)
  <2> DEFINE d == StreamDesc
             k == StreamInterval
             dk == StreamDesc * StreamInterval
  <2>1. dk \in Nat \ {0} /\ dk \in Divisors(Page)
    <3>1. dk \in Nat \ {0}
      BY <1>3
    <3> HIDE DEF dk
    <3>2. Page % dk = 0
      BY <1>3 DEF dk
    <3> QED BY <1>3, <3>1, <3>2, Divisible
  <2>2. d \in Divisors(dk)
    BY <1>3, DivisorsOfProduct
  <2> HIDE DEF dk
  <2>3. d \in Divisors(Page)
    BY <1>3, <2>1, <2>2, DivisorsOfDivisor
  <2>4. ASSUME NEW i \in Ranges(r.m)
        PROVE  dk \in Divisors(RangeSize(r.m, i)) /\ d \in Divisors(RangeSize(r.m, i))
    <3> DEFINE w == RangeSize(r.m, i)
    <3>1. w \in Nat /\ w % Page = 0
      BY <1>2, <1>6
    <3> HIDE DEF w
    <3>2. Page \in Divisors(w)
      BY <1>3, <3>1, Divisible
    <3>3. dk \in Divisors(w) /\ d \in Divisors(w)
      BY <1>3, <2>1, <2>3, <3>1, <3>2, DivisorsOfDivisor
    <3> QED BY <3>3 DEF w
  <2>5. d <= MaxTransfer
    <3>1. d <= Page
      BY <1>3, <2>3, AtLeastDivisor
    <3> QED BY <1>3, <3>1
  <2>6. GcdPageSizes(r.m) % d = 0
    <3>1. d \in Divisors(GcdPageSizes(r.m)) /\ GcdPageSizes(r.m) \in Nat
      BY <1>1, <1>3, <2>4, GcdOfPages
    <3> QED BY <1>3, <3>1, Divisible
  <2>7. (r.total \div d) % k = 0
    <3>1. NumRanges(r.m) + 1 \in 1 .. NumRanges(r.m) + 1
      BY <1>2
    <3>2. dk \in Divisors(MapSize(r.m))
      BY <1>1, <1>2, <2>1, <2>4, <3>1, BoundsDivisible
    <3>3. PICK q \in Nat : MapSize(r.m) = dk * q
      BY <3>2 DEF Divisors
    <3>4. dk * q = d * (k * q) /\ k * q \in Nat
      BY <1>3 DEF dk
    <3> DEFINE x == k * q
    <3>5. x \in Nat /\ r.total = d * x /\ x % k = 0
      <4>1. x \in Nat /\ k \in Divisors(x)
        BY <1>3, <3>4, DivisorsOfProduct
      <4>2. r.total = d * x
        BY <1>1, <3>3, <3>4
      <4> HIDE DEF x
      <4> QED BY <1>3, <4>1, <4>2, Divisible
    <3> HIDE DEF x
    <3>6. (d * x) \div d = x
      BY <1>3, <3>5, SMTT(60)
    <3> QED BY <3>5, <3>6
  <2>8. r.perDesc = d /\ d > 0 /\ r.interval = k
    BY <1>1, <1>3, <1>6
  <2> QED BY <1>4, <2>5, <2>6, <2>7, <2>8 DEF ValidParams
<1> QED BY <1>5, <1>6

LEMMA AnswerStep ==
  ASSUME Inv, AnswerOK, [Next]_vars
  PROVE  AnswerOK'
<1>1. CASE Request \/ RequestFilled \/ RequestWithDescriptors
  <2>1. pc = "idle" /\ answer' = answer
    BY <1>1 DEF Request, RequestFilled, RequestWithDescriptors, Arrives
  <2>2. answer' = "none"
    BY <2>1 DEF AnswerOK
  <2> QED BY <2>2 DEF AnswerOK, ReasonableIsAccepted
<1>2. CASE AllocRefused \/ AllocReuse \/ AllocNew
  <2>1. pc = "alloc" /\ ((answer' \in {"size", "memory"} /\ pc' = "refused") \/ answer' = answer)
    BY <1>2 DEF AllocRefused, AllocReuse, AllocNew, Refused
  <2>2. (answer' \in {"size", "memory"} /\ pc' = "refused") \/ answer' = "none"
    BY <2>1 DEF AnswerOK
  <2> QED BY <2>2 DEF AnswerOK, ReasonableIsAccepted
<1>3. CASE CopyDescriptors
  <2>1. /\ pc = "check" /\ req' = req /\ req.kind = "user"
        /\ (answer' = "invalid" /\ pc' = "refused") \/ answer' = answer
    BY <1>3 DEF CopyDescriptors, Refused
  <2>2. (answer' = "invalid" /\ pc' = "refused") \/ answer' = "none"
    BY <2>1 DEF AnswerOK
  <2> QED BY <2>1, <2>2 DEF AnswerOK, ReasonableIsAccepted
<1>4. CASE Refuse
  <2>1. /\ req' = req /\ answer' = "invalid" /\ pc' = "refused" /\ pc = "check"
        /\ req.kind = "filled" => ~ValidParams(req)
    BY <1>4 DEF Refuse, Refused
  <2>2. IsRequest(req)
    BY <2>1, Served
  <2>3. ASSUME req.kind = "filled"
        PROVE  IsStream(req) /\ \E i \in Ranges(req.m) : RangeSize(req.m, i) % Page # 0
    BY <2>1, <2>2, <2>3, FilledIsValid
  <2> QED BY <2>1, <2>3 DEF AnswerOK, ReasonableIsAccepted
<1>5. CASE PlanDescriptors
  <2>1. /\ pc = "check" /\ req' = req /\ req.kind # "user"
        /\ \/ NumDescriptors(req) > DataSize(req) /\ answer' = "space" /\ pc' = "refused"
           \/ answer' = answer
    BY <1>5 DEF PlanDescriptors, Refused
  <2>2. CASE answer' = answer
    <3>1. answer' = "none"
      BY <2>1, <2>2 DEF AnswerOK
    <3> QED BY <3>1 DEF AnswerOK, ReasonableIsAccepted
  <2>3. CASE NumDescriptors(req) > DataSize(req) /\ answer' = "space" /\ pc' = "refused"
    <3>1. /\ IsRequest(req) /\ NumDescriptors(req) \in Nat /\ DataSize(req) \in Nat
      BY <2>1, Served
    <3>2. IsStream(req) \/ ~(MaxDescriptorsNeeded(req) + 1 < SizeMod)
      BY <2>1, <2>3, <3>1, EstimateIsEnough
    <3>3. MaxDescriptorsNeeded(req) \in Nat /\ SizeMod \in Nat
      <4>1. /\ req.total \in Nat /\ req.perDesc \in Nat
        BY <3>1, RequestFacts
      <4>2. SizeMod \in Nat \ {0} /\ Page \in Nat \ {0}
        BY DescriptorsAssumption
      <4>3. req.perDesc > 0 => req.total \div req.perDesc \in Nat
        BY <4>1, Division
      <4>4. DivRoundUp(req.total, Page) \in Nat
        BY <4>1, <4>2, DivRoundUpFacts
      <4>5. Terminators(req) \in Nat
        BY DEF Terminators
      <4> QED BY <4>2, <4>3, <4>4, <4>5 DEF MaxDescriptorsNeeded
    <3>4. IsStream(req) \/ MaxDescriptorsNeeded(req) + 1 >= SizeMod
      <4> DEFINE x == MaxDescriptorsNeeded(req)
      <4> HIDE DEF x
      <4>1. ~(x + 1 < SizeMod) => x + 1 >= SizeMod
        BY <3>3 DEF x
      <4> QED BY <3>2, <4>1 DEF x
    <3> QED BY <2>1, <2>3, <3>4 DEF AnswerOK, ReasonableIsAccepted
  <2> QED BY <2>1, <2>2, <2>3
<1>6. CASE FillPage \/ FillDescriptor \/ FillControlFlags \/ SetDescSize \/ StartChain
  <2>1. pc # "refused" /\ answer' = answer
    BY <1>6 DEF FillPage, FillDescriptor, FillControlFlags, SetDescSize, StartChain
  <2>2. answer' = "none"
    BY <2>1 DEF AnswerOK
  <2> QED BY <2>2 DEF AnswerOK, ReasonableIsAccepted
<1>7. CASE Finish
  <2>1. answer' = "none"
    BY <1>7 DEF Finish
  <2> QED BY <2>1 DEF AnswerOK, ReasonableIsAccepted
<1>8. CASE UNCHANGED vars
  BY <1>8 DEF vars, AnswerOK, ReasonableIsAccepted
<1>9. CASE WriteOutside \/ LinkOutside
  <2>1. pc # "refused" /\ answer' = answer
    BY <1>9, StrayStep
  <2>2. answer' = "none"
    BY <2>1 DEF AnswerOK
  <2> QED BY <2>2 DEF AnswerOK, ReasonableIsAccepted
<1> QED BY <1>1, <1>2, <1>3, <1>4, <1>5, <1>6, <1>7, <1>8, <1>9 DEF Next, GoneAstray

\* No reasonable request is refused: the estimate is enough for a one-shot, and the
\* default parameters are valid (tpce_max_descriptors_needed, tpce_validate_dma_params).
THEOREM ReasonableRequestsPass == Spec => []ReasonableIsAccepted
<1>1. Init => AnswerOK
  BY DEF Init, AnswerOK, ReasonableIsAccepted
<1>2. Inv /\ AnswerOK /\ [Next]_vars => AnswerOK'
  BY AnswerStep
<1>3. AnswerOK => ReasonableIsAccepted
  BY DEF AnswerOK
<1> QED BY InvHolds, <1>1, <1>2, <1>3, PTL DEF Spec

=============================================================================
