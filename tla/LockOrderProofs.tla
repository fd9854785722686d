--------------------------- MODULE LockOrderProofs ---------------------------
(***************************************************************************)
(* No circular wait, for any threads, processes and calls.  What is left   *)
(* of a call, whatever its length, is a program that takes locks in one    *)
(* order from those the thread holds and ends with none; then whoever is   *)
(* waited for is further on in that order than the one who waits.          *)
(***************************************************************************)
EXTENDS LockOrder, Integers, TLAPS

Things == Mutexes \cup {"read", "write"}

Ops == [op : {"lock", "unlock"}, mutex : Mutexes]
         \cup [op : {"read", "unread", "write", "unwrite", "join"}]

\* Thread t may do a with H in its hands, and holds K afterwards.
May(t, a, H, K) ==
  \/ a.op = "lock" /\ a.mutex = "tpce" /\ H \subseteq {"write"} /\ K = H \cup {"tpce"}
       /\ t # Worker
  \/ a.op = "lock" /\ a.mutex = "dma" /\ H \subseteq {"tpce"} /\ K = H \cup {"dma"}
  \/ a.op = "unlock" /\ a.mutex \in H /\ K = H \ {a.mutex}
  \/ a.op = "read" /\ H \subseteq {"tpce", "dma"} /\ (H = {} \/ ReadsUnderMutex(t))
       /\ K = H \cup {"read"} /\ t # Worker
  \/ a.op = "unread" /\ "read" \in H /\ K = H \ {"read"}
  \/ a.op = "write" /\ H = {} /\ "map" \in CallsOf[t] /\ K = {"write"} /\ t # Worker
  \/ a.op = "unwrite" /\ "write" \in H /\ K = H \ {"write"}
  \/ a.op = "join" /\ H = {} /\ K = {} /\ t # Worker

\* The steps s lead thread t from holding H to holding K, if h is what it holds
\* before each of them.
Labelled(t, s, h) == /\ s \in Seq(Ops)
                     /\ h \in [1 .. Len(s) + 1 -> SUBSET Things]
                     /\ \A i \in 1 .. Len(s) : May(t, s[i], h[i], h[i + 1])

Leads(t, s, H, K) == \E h : Labelled(t, s, h) /\ h[1] = H /\ h[Len(s) + 1] = K

\* What the lock tables say t holds.
Holds(t, x) == \/ x \in Mutexes /\ owner[x] = t
               \/ x = "read" /\ t \in readers[MmOf[t]]
               \/ x = "write" /\ writer[MmOf[t]] = t

Held(t) == {x \in Things : Holds(t, x)}

TablesOK ==
  /\ DOMAIN todo = Threads
  /\ owner \in [Mutexes -> Threads \cup {None}]
  /\ readers \in [Mms -> SUBSET Threads] /\ writer \in [Mms -> Threads \cup {None}]
  /\ \A m \in Mms : /\ \A u \in readers[m] : MmOf[u] = m
                    /\ writer[m] # None => /\ MmOf[writer[m]] = m
                                           /\ "map" \in CallsOf[writer[m]]

ProgramsOK == \A t \in Threads : Leads(t, todo[t], Held(t), {})

Inv == TablesOK /\ ProgramsOK
-----------------------------------------------------------------------------
(* Programs                                                                *)

LEMMA NoSteps == ASSUME NEW t, NEW H \in SUBSET Things PROVE Leads(t, <<>>, H, H)
<1> DEFINE h == [i \in 1 .. 1 |-> H]
<1>1. Labelled(t, <<>>, h) /\ h[1] = H /\ h[Len(<<>>) + 1] = H
  BY DEF Labelled
<1> QED
  BY <1>1 DEF Leads

LEMMA OneStep ==
  ASSUME NEW t, NEW a \in Ops, NEW H \in SUBSET Things, NEW K \in SUBSET Things,
         May(t, a, H, K)
  PROVE  Leads(t, <<a>>, H, K)
<1> DEFINE h == [i \in 1 .. 2 |-> IF i = 1 THEN H ELSE K]
<1>1. Labelled(t, <<a>>, h) /\ h[1] = H /\ h[Len(<<a>>) + 1] = K
  <2>1. <<a>> \in Seq(Ops) /\ Len(<<a>>) = 1 /\ <<a>>[1] = a
    OBVIOUS
  <2>2. h \in [1 .. 2 -> SUBSET Things] /\ h[1] = H /\ h[2] = K
    OBVIOUS
  <2>3. \A i \in 1 .. 1 : May(t, <<a>>[i], h[i], h[i + 1])
    <3> SUFFICES ASSUME NEW i \in 1 .. 1 PROVE May(t, <<a>>[i], h[i], h[i + 1])
      OBVIOUS
    <3>1. i = 1 /\ i + 1 = 2
      OBVIOUS
    <3> QED
      BY <3>1, <2>1, <2>2
  <2> HIDE DEF h
  <2> QED
    BY <2>1, <2>2, <2>3 DEF Labelled
<1> QED
  BY <1>1 DEF Leads

LEMMA Then ==
  ASSUME NEW t, NEW s, NEW r, NEW H, NEW J, NEW K, Leads(t, s, H, J), Leads(t, r, J, K)
  PROVE  Leads(t, s \o r, H, K)
<1>1. PICK f : Labelled(t, s, f) /\ f[1] = H /\ f[Len(s) + 1] = J
  BY DEF Leads
<1>2. PICK g : Labelled(t, r, g) /\ g[1] = J /\ g[Len(r) + 1] = K
  BY DEF Leads
<1> DEFINE n == Len(s)
           h == [i \in 1 .. Len(s \o r) + 1 |-> IF i <= n THEN f[i] ELSE g[i - n]]
<1>3. /\ s \in Seq(Ops) /\ r \in Seq(Ops) /\ s \o r \in Seq(Ops)
      /\ n \in Nat /\ Len(r) \in Nat /\ Len(s \o r) = n + Len(r)
  BY <1>1, <1>2 DEF Labelled
<1>4. h \in [1 .. Len(s \o r) + 1 -> SUBSET Things]
  <2> SUFFICES ASSUME NEW i \in 1 .. Len(s \o r) + 1
               PROVE  (IF i <= n THEN f[i] ELSE g[i - n]) \in SUBSET Things
    OBVIOUS
  <2>1. CASE i <= n
    <3>1. i \in 1 .. n + 1
      BY <2>1, <1>3
    <3> QED
      BY <3>1, <2>1, <1>1 DEF Labelled
  <2>2. CASE ~(i <= n)
    <3>1. i - n \in 1 .. Len(r) + 1
      BY <2>2, <1>3
    <3> QED
      BY <3>1, <2>2, <1>2 DEF Labelled
  <2> QED
    BY <2>1, <2>2
<1>5. \A i \in 1 .. Len(s \o r) : May(t, (s \o r)[i], h[i], h[i + 1])
  <2> SUFFICES ASSUME NEW i \in 1 .. Len(s \o r)
               PROVE  May(t, (s \o r)[i], h[i], h[i + 1])
    OBVIOUS
  <2>0. i \in 1 .. Len(s \o r) + 1 /\ i + 1 \in 1 .. Len(s \o r) + 1 /\ i \in Int
    BY <1>3
  <2>1. CASE i < n
    <3>1. (s \o r)[i] = s[i] /\ h[i] = f[i] /\ h[i + 1] = f[i + 1] /\ i \in 1 .. Len(s)
      BY <2>0, <2>1, <1>3
    <3> QED
      BY <3>1, <1>1 DEF Labelled
  <2>2. CASE i = n
    <3>1. (s \o r)[i] = s[i] /\ h[i] = f[i] /\ h[i + 1] = g[1] /\ i \in 1 .. Len(s)
      BY <2>0, <2>2, <1>3
    <3>2. g[1] = f[i + 1]
      BY <1>1, <1>2, <2>2
    <3> QED
      BY <3>1, <3>2, <1>1 DEF Labelled
  <2>3. CASE i > n
    <3>1. /\ (s \o r)[i] = r[i - n] /\ h[i] = g[i - n] /\ h[i + 1] = g[(i - n) + 1]
          /\ i - n \in 1 .. Len(r)
      <4>1. i - n \in 1 .. Len(r) /\ (i + 1) - n = (i - n) + 1
        BY <2>0, <2>3, <1>3
      <4>2. (s \o r)[i] = r[i - n]
        BY <2>0, <2>3, <1>3
      <4>3. ~(i <= n) /\ ~(i + 1 <= n)
        BY <2>0, <2>3, <1>3
      <4> QED
        BY <4>1, <4>2, <4>3, <2>0
    <3> QED
      BY <3>1, <1>2 DEF Labelled
  <2> QED
    BY <2>0, <2>1, <2>2, <2>3, <1>3
<1>6. h[1] = H
  <2>1. CASE n = 0
    BY <2>1, <1>1, <1>2, <1>3
  <2>2. CASE n # 0
    BY <2>2, <1>1, <1>3
  <2> QED
    BY <2>1, <2>2
<1>7. h[Len(s \o r) + 1] = K
  BY <1>2, <1>3
<1> HIDE DEF h
<1> QED
  BY <1>3, <1>4, <1>5, <1>6, <1>7 DEF Leads, Labelled

\* The first step, and what is left after it.
LEMMA FirstStep ==
  ASSUME NEW t, NEW s, NEW H, NEW K, Leads(t, s, H, K), s # <<>>
  PROVE  /\ Head(s) \in Ops
         /\ \E J \in SUBSET Things : May(t, Head(s), H, J) /\ Leads(t, Tail(s), J, K)
<1>1. PICK h : Labelled(t, s, h) /\ h[1] = H /\ h[Len(s) + 1] = K
  BY DEF Leads
<1> DEFINE g == [i \in 1 .. Len(Tail(s)) + 1 |-> h[i + 1]]
<1>2. /\ s \in Seq(Ops) /\ Tail(s) \in Seq(Ops) /\ Len(s) \in Nat \ {0}
      /\ Len(Tail(s)) = Len(s) - 1 /\ Head(s) = s[1] /\ Head(s) \in Ops
  BY <1>1 DEF Labelled
<1>3. g \in [1 .. Len(Tail(s)) + 1 -> SUBSET Things]
  <2> SUFFICES ASSUME NEW i \in 1 .. Len(Tail(s)) + 1 PROVE h[i + 1] \in SUBSET Things
    OBVIOUS
  <2>1. i + 1 \in 1 .. Len(s) + 1
    BY <1>2
  <2> QED
    BY <2>1, <1>1 DEF Labelled
<1>4. ASSUME NEW i \in 1 .. Len(Tail(s)) PROVE May(t, Tail(s)[i], g[i], g[i + 1])
  <2>1. /\ i + 1 \in 1 .. Len(s) /\ Tail(s)[i] = s[i + 1]
        /\ i \in 1 .. Len(Tail(s)) + 1 /\ i + 1 \in 1 .. Len(Tail(s)) + 1
    BY <1>2
  <2>2. g[i] = h[i + 1] /\ g[i + 1] = h[(i + 1) + 1]
    BY <2>1
  <2> HIDE DEF g
  <2> QED
    BY <2>1, <2>2, <1>1 DEF Labelled
<1>5. g[1] = h[2] /\ g[Len(Tail(s)) + 1] = K
  BY <1>1, <1>2
<1>6. Leads(t, Tail(s), h[2], K)
  <2> HIDE DEF g
  <2> QED
    BY <1>2, <1>3, <1>4, <1>5 DEF Leads, Labelled
<1>7. May(t, Head(s), H, h[2]) /\ h[2] \in SUBSET Things
  <2>1. 1 \in 1 .. Len(s) /\ 2 \in 1 .. Len(s) + 1 /\ 1 + 1 = 2
    BY <1>2
  <2> QED
    BY <2>1, <1>1, <1>2 DEF Labelled
<1> QED
  BY <1>2, <1>6, <1>7
-----------------------------------------------------------------------------
(* The calls                                                               *)

\* Where a call may hold the channel's mutex, and where a copy may fault.
LEMMA ReadMmLeads ==
  ASSUME NEW t, NEW H \in SUBSET Mutexes, t # Worker, H = {} \/ ReadsUnderMutex(t)
  PROVE  Leads(t, ReadMm, H, H)
<1> DEFINE K == H \cup {"read"}
           r == [op |-> "read"]
           u == [op |-> "unread"]
<1>1. r \in Ops /\ u \in Ops /\ K \in SUBSET Things /\ H \in SUBSET Things
  BY DEF Ops, Things
<1>2. May(t, r, H, K)
  BY DEF May, Mutexes
<1>3. May(t, u, K, H)
  BY DEF May, Mutexes
<1>4. <<r, u>> = <<r>> \o <<u>>
  OBVIOUS
<1>5. Leads(t, <<r>>, H, K) /\ Leads(t, <<u>>, K, H)
  BY <1>1, <1>2, <1>3, OneStep
<1> HIDE DEF K
<1>6. Leads(t, <<r>> \o <<u>>, H, H)
  BY <1>5, Then
<1> QED
  BY <1>4, <1>6 DEF ReadMm

LEMMA CopyLeads ==
  ASSUME NEW t, NEW H \in SUBSET Mutexes, t # Worker,
         t \in Faulting => H = {} \/ ReadsUnderMutex(t)
  PROVE  Leads(t, Copy(t), H, H)
<1>1. H \in SUBSET Things
  BY DEF Things
<1> QED
  BY <1>1, NoSteps, ReadMmLeads DEF Copy

LEMMA WithLeads ==
  ASSUME NEW t, NEW l \in Mutexes, NEW steps, NEW H \in SUBSET Things,
         \/ l = "tpce" /\ H \subseteq {"write"} /\ t # Worker
         \/ l = "dma" /\ H \subseteq {"tpce"},
         Leads(t, steps, H \cup {l}, H \cup {l})
  PROVE  Leads(t, With(l, steps), H, H)
<1> DEFINE K == H \cup {l}
<1>1. Lock(l) \in Ops /\ Unlock(l) \in Ops /\ K \in SUBSET Things
  BY DEF Ops, Things, Lock, Unlock
<1>2. May(t, Lock(l), H, K)
  BY DEF May, Lock
<1>3. May(t, Unlock(l), K, H)
  <2>1. l \notin H
    BY DEF Mutexes
  <2> QED
    BY <2>1 DEF May, Unlock
<1>4. Leads(t, <<Lock(l)>>, H, K) /\ Leads(t, <<Unlock(l)>>, K, H)
  BY <1>1, <1>2, <1>3, OneStep
<1> HIDE DEF K
<1>5. Leads(t, steps, K, K)
  BY DEF K
<1>6. Leads(t, <<Lock(l)>> \o steps, H, K)
  BY <1>4, <1>5, Then
<1> QED
  BY <1>4, <1>6, Then DEF With

\* The body of an ioctl runs under tpce->mutex.
LEMMA IoctlLeads ==
  ASSUME NEW t, NEW steps, t # Worker, t \in Faulting => ReadsUnderMutex(t),
         Leads(t, steps, {"tpce"}, {"tpce"})
  PROVE  Leads(t, Ioctl(t, steps), {}, {})
<1>1. {"tpce"} \in SUBSET Mutexes /\ {} \in SUBSET Mutexes /\ {} \in SUBSET Things
  BY DEF Mutexes
<1>2. Leads(t, Copy(t), {"tpce"}, {"tpce"}) /\ Leads(t, Copy(t), {}, {})
  BY <1>1, CopyLeads
<1>3. Leads(t, Copy(t) \o steps, {"tpce"}, {"tpce"})
  BY <1>2, Then
<1>4. Leads(t, (Copy(t) \o steps) \o Copy(t), {"tpce"}, {"tpce"})
  BY <1>2, <1>3, Then
<1>5. {} \cup {"tpce"} = {"tpce"} /\ "tpce" \in Mutexes
  BY DEF Mutexes
<1>6. Leads(t, With("tpce", Copy(t) \o steps \o Copy(t)), {}, {})
  BY <1>1, <1>4, <1>5, WithLeads
<1> QED
  BY <1>2, <1>6, Then DEF Ioctl

\* Every call takes its locks in the order of May and gives all of them back.
LEMMA PathLeads ==
  ASSUME NEW t \in Threads, NEW call \in CallsOf[t]
  PROVE  Leads(t, Path(t, call), {}, {})
<1>1. /\ {} \in SUBSET Things /\ {"tpce"} \in SUBSET Things /\ {"write"} \in SUBSET Things
      /\ {"tpce", "dma"} \in SUBSET Things
      /\ {"tpce", "dma"} \in SUBSET Mutexes /\ {"tpce"} \in SUBSET Mutexes
      /\ {} \in SUBSET Mutexes /\ {"dma"} \in SUBSET Mutexes
      /\ "tpce" \in Mutexes /\ "dma" \in Mutexes
      /\ {} \cup {"dma"} = {"dma"} /\ {} \cup {"tpce"} = {"tpce"}
      /\ {"tpce"} \cup {"dma"} = {"tpce", "dma"}
      /\ {"write"} \cup {"tpce"} = {"write", "tpce"} /\ {"dma"} \in SUBSET Things
      /\ {"write", "tpce"} \in SUBSET Things
  BY DEF Things, Mutexes
<1>2. Leads(t, With("dma", <<>>), {}, {})
  BY <1>1, NoSteps, WithLeads
<1>3. CASE call = "work"
  BY <1>2, <1>3 DEF Path, Work
<1>4. ASSUME call # "work" PROVE Leads(t, Path(t, call), {}, {})
  <2>1. t # Worker
    BY <1>4, LockOrderAssumption DEF LockOrderAssumption
  <2>2. Leads(t, With("dma", <<>>), {"tpce"}, {"tpce"})
    BY <1>1, NoSteps, WithLeads
  <2>3. Leads(t, With("tpce", <<>>), {}, {})
    BY <1>1, <2>1, NoSteps, WithLeads
  <2>4. Leads(t, Copy(t), {}, {})
    BY <1>1, <2>1, CopyLeads
  <2>5. CASE call = "lock_buffer"
    <3>1. ReadsUnderMutex(t)
      BY <2>5 DEF ReadsUnderMutex
    <3>2. Leads(t, ReadMm, {"tpce"}, {"tpce"}) /\ Leads(t, Copy(t), {"tpce"}, {"tpce"})
      BY <1>1, <2>1, <3>1, ReadMmLeads, CopyLeads
    <3>3. Leads(t, ReadMm \o Copy(t), {"tpce"}, {"tpce"})
      BY <3>2, Then
    <3>4. Leads(t, LockBuffer(t), {}, {})
      BY <2>1, <3>1, <3>3, IoctlLeads DEF LockBuffer
    <3> QED
      BY <2>5, <3>4 DEF Path
  <2>6. CASE call = "execute"
    <3>1. t \in Faulting => ReadsUnderMutex(t)
      BY <2>6 DEF ReadsUnderMutex
    <3>2. Leads(t, Copy(t), {"tpce", "dma"}, {"tpce", "dma"})
      BY <1>1, <2>1, <3>1, CopyLeads
    <3>3. Leads(t, With("dma", Copy(t)), {"tpce"}, {"tpce"})
      BY <1>1, <3>2, WithLeads
    <3>4. Leads(t, With("dma", Copy(t)) \o With("dma", <<>>), {"tpce"}, {"tpce"})
      BY <2>2, <3>3, Then
    <3>5. Leads(t, (With("dma", Copy(t)) \o With("dma", <<>>)) \o With("dma", <<>>),
                {"tpce"}, {"tpce"})
      BY <2>2, <3>4, Then
    <3>6. Leads(t, ((With("dma", Copy(t)) \o With("dma", <<>>)) \o With("dma", <<>>))
                     \o With("dma", <<>>), {"tpce"}, {"tpce"})
      BY <2>2, <3>5, Then
    <3>7. Leads(t, Execute(t), {}, {})
      BY <2>1, <3>1, <3>6, IoctlLeads DEF Execute
    <3> QED
      BY <2>6, <3>7 DEF Path
  <2>7. CASE call = "cancel"
    <3>1. t \in Faulting => ReadsUnderMutex(t)
      BY <2>7 DEF ReadsUnderMutex
    <3>2. Leads(t, Cancel(t), {}, {})
      BY <2>1, <2>2, <3>1, IoctlLeads DEF Cancel
    <3> QED
      BY <2>7, <3>2 DEF Path
  <2>8. CASE call \in {"status", "event"}
    <3>1. Leads(t, Copy(t) \o Copy(t), {}, {})
      BY <2>4, Then
    <3>2. Leads(t, (Copy(t) \o Copy(t)) \o With("dma", <<>>), {}, {})
      BY <1>2, <3>1, Then
    <3>3. Leads(t, ((Copy(t) \o Copy(t)) \o With("dma", <<>>)) \o Copy(t), {}, {})
      BY <2>4, <3>2, Then
    <3>4. CASE call = "status"
      BY <3>3, <3>4 DEF Path, DmaStatus
    <3>5. CASE call = "event"
      BY <3>1, <3>5 DEF Path, Event
    <3> QED
      BY <2>8, <3>4, <3>5
  <2>9. CASE call = "map"
    <3> DEFINE w == [op |-> "write"]
               u == [op |-> "unwrite"]
    <3>1. Leads(t, With("tpce", <<>>), {"write"}, {"write"})
      BY <1>1, <2>1, NoSteps, WithLeads
    <3>2. w \in Ops /\ u \in Ops
      BY DEF Ops
    <3>3. May(t, w, {}, {"write"}) /\ May(t, u, {"write"}, {})
      BY <2>1, <2>9 DEF May
    <3>4. Leads(t, <<w>>, {}, {"write"}) /\ Leads(t, <<u>>, {"write"}, {})
      BY <1>1, <3>2, <3>3, OneStep
    <3> HIDE DEF w, u
    <3>5. Leads(t, <<w>> \o With("tpce", <<>>), {}, {"write"})
      BY <3>1, <3>4, Then
    <3>6. Leads(t, (<<w>> \o With("tpce", <<>>)) \o <<u>>, {}, {})
      BY <3>4, <3>5, Then
    <3> QED
      BY <2>9, <3>6 DEF Path, Map, WriteMm, w, u
  <2>10. CASE call = "close"
    <3>1. Leads(t, Close, {}, {})
      BY <1>1, <2>1, <2>2, WithLeads DEF Close
    <3> QED
      BY <2>10, <3>1 DEF Path
  <2>11. CASE call = "remove"
    <3> DEFINE j == [op |-> "join"]
    <3>1. Leads(t, <<j>>, {}, {})
      BY <1>1, <2>1, OneStep DEF Ops, May
    <3> HIDE DEF j
    <3>2. Leads(t, With("tpce", <<>>) \o <<j>>, {}, {})
      BY <2>3, <3>1, Then
    <3>3. Leads(t, (With("tpce", <<>>) \o <<j>>) \o With("tpce", <<>>), {}, {})
      BY <2>3, <3>2, Then
    <3> QED
      BY <2>11, <3>3 DEF Path, Remove, j
  <2> QED
    BY <1>4, <2>5, <2>6, <2>7, <2>8, <2>9, <2>10, <2>11, LockOrderAssumption
    DEF LockOrderAssumption
<1> QED
  BY <1>3, <1>4
-----------------------------------------------------------------------------
(* Steps                                                                   *)

LEMMA MmsOK == \A t \in Threads : MmOf[t] \in Mms
BY LockOrderAssumption DEF LockOrderAssumption, Mms, Range

LEMMA InitInv == Init => Inv
<1> SUFFICES ASSUME Init PROVE Inv
  OBVIOUS
<1>1. TablesOK
  BY DEF Init, TablesOK
<1>2. ASSUME NEW t \in Threads PROVE Leads(t, todo[t], Held(t), {})
  <2>1. todo[t] = <<>>
    BY DEF Init
  <2>2. Held(t) = {}
    BY MmsOK, LockOrderAssumption DEF Init, Held, Holds, LockOrderAssumption
  <2> QED
    BY <2>1, <2>2, NoSteps
<1> QED
  BY <1>1, <1>2 DEF Inv, ProgramsOK

\* A step of one thread leaves what the others hold and have to do.
LEMMA Carry ==
  ASSUME Inv, NEW t \in Threads, NEW T, todo' = [todo EXCEPT ![t] = T],
         Leads(t, T, Held(t)', {}),
         \A u \in Threads \ {t}, x \in Things : Holds(u, x)' <=> Holds(u, x)
  PROVE  ProgramsOK'
<1> SUFFICES ASSUME NEW u \in Threads PROVE Leads(u, todo'[u], Held(u)', {})
  BY DEF ProgramsOK
<1>1. CASE u = t
  BY <1>1 DEF Inv, TablesOK
<1>2. CASE u # t
  <2>1. Held(u)' = Held(u) /\ todo'[u] = todo[u]
    BY <1>2 DEF Inv, TablesOK, Held
  <2> QED
    BY <2>1 DEF Inv, ProgramsOK
<1> QED
  BY <1>1, <1>2

LEMMA BeginInv == ASSUME Inv, NEW t \in Threads, Begin(t) PROVE Inv'
<1>1. PICK call \in CallsOf[t] : todo' = [todo EXCEPT ![t] = Path(t, call)]
  BY DEF Begin
<1>2. todo[t] = <<>> /\ UNCHANGED <<owner, readers, writer>>
  BY DEF Begin
<1>3. \A u \in Threads, x \in Things : Holds(u, x)' <=> Holds(u, x)
  BY <1>2 DEF Holds
<1>4. Held(t)' = {}
  <2>1. PICK h : h[1] = Held(t) /\ h[Len(todo[t]) + 1] = {}
    BY DEF Inv, ProgramsOK, Leads
  <2>2. Len(todo[t]) + 1 = 1
    BY <1>2
  <2> QED
    BY <2>1, <2>2, <1>3 DEF Held
<1>5. Leads(t, Path(t, call), {}, {})
  BY PathLeads
<1>6. ProgramsOK'
  BY <1>1, <1>3, <1>4, <1>5, Carry
<1> QED
  BY <1>1, <1>2, <1>6 DEF Inv, TablesOK

\* What a thread at its next step may hold, before and after.
LEMMA NextStep ==
  ASSUME Inv, NEW t \in Threads, todo[t] # <<>>
  PROVE  /\ Head(todo[t]) \in Ops
         /\ \E J \in SUBSET Things : /\ May(t, Head(todo[t]), Held(t), J)
                                    /\ Leads(t, Tail(todo[t]), J, {})
BY FirstStep DEF Inv, ProgramsOK

LEMMA AcquireInv == ASSUME Inv, NEW t \in Threads, Acquire(t) PROVE Inv'
<1> DEFINE l == Head(todo[t]).mutex
<1>1. /\ todo[t] # <<>> /\ Head(todo[t]).op = "lock" /\ owner[l] = None
      /\ owner' = [owner EXCEPT ![l] = t] /\ todo' = [todo EXCEPT ![t] = Tail(todo[t])]
      /\ UNCHANGED <<readers, writer>>
  BY DEF Acquire, At, Advance
<1>2. PICK J \in SUBSET Things :
        May(t, Head(todo[t]), Held(t), J) /\ Leads(t, Tail(todo[t]), J, {})
  BY <1>1, NextStep
<1>3. J = Held(t) \cup {l} /\ l \in Mutexes
  BY <1>1, <1>2 DEF May, Mutexes
<1> HIDE DEF l
<1>4. \A u \in Threads, x \in Things :
        Holds(u, x)' <=> Holds(u, x) \/ (u = t /\ x = l)
  BY <1>1, <1>3, LockOrderAssumption
  DEF Holds, Things, Mutexes, Inv, TablesOK, LockOrderAssumption
<1>5. Held(t)' = J
  BY <1>3, <1>4 DEF Held, Things
<1>6. ProgramsOK'
  BY <1>1, <1>2, <1>4, <1>5, Carry
<1> QED
  BY <1>1, <1>3, <1>6 DEF Inv, TablesOK

LEMMA ReleaseMutexInv == ASSUME Inv, NEW t \in Threads, ReleaseMutex(t) PROVE Inv'
<1> DEFINE l == Head(todo[t]).mutex
<1>1. /\ todo[t] # <<>> /\ Head(todo[t]).op = "unlock"
      /\ owner' = [owner EXCEPT ![l] = None] /\ todo' = [todo EXCEPT ![t] = Tail(todo[t])]
      /\ UNCHANGED <<readers, writer>>
  BY DEF ReleaseMutex, At, Advance
<1>2. PICK J \in SUBSET Things :
        May(t, Head(todo[t]), Held(t), J) /\ Leads(t, Tail(todo[t]), J, {})
  BY <1>1, NextStep
<1>3. J = Held(t) \ {l} /\ l \in Held(t)
  BY <1>1, <1>2 DEF May
<1>4. l \in Mutexes
  BY <1>1, NextStep DEF Ops
<1> HIDE DEF l
<1>5. owner[l] = t
  BY <1>3, <1>4 DEF Held, Holds, Mutexes
<1>6. \A u \in Threads, x \in Things :
        Holds(u, x)' <=> Holds(u, x) /\ ~(u = t /\ x = l)
  BY <1>1, <1>4, <1>5, LockOrderAssumption
  DEF Holds, Things, Mutexes, Inv, TablesOK, LockOrderAssumption
<1>7. Held(t)' = J
  BY <1>3, <1>6 DEF Held
<1>8. ProgramsOK'
  BY <1>1, <1>2, <1>6, <1>7, Carry
<1> QED
  BY <1>1, <1>4, <1>8 DEF Inv, TablesOK

LEMMA MmapReadLockInv == ASSUME Inv, NEW t \in Threads, MmapReadLock(t) PROVE Inv'
<1> DEFINE m == MmOf[t]
<1>1. /\ todo[t] # <<>> /\ Head(todo[t]).op = "read"
      /\ readers' = [readers EXCEPT ![m] = readers[m] \cup {t}]
      /\ todo' = [todo EXCEPT ![t] = Tail(todo[t])] /\ UNCHANGED <<owner, writer>>
  BY DEF MmapReadLock, At, Advance
<1>2. PICK J \in SUBSET Things :
        May(t, Head(todo[t]), Held(t), J) /\ Leads(t, Tail(todo[t]), J, {})
  BY <1>1, NextStep
<1>3. J = Held(t) \cup {"read"} /\ m \in Mms
  BY <1>1, <1>2, MmsOK DEF May
<1>4. \A u \in Threads, x \in Things :
        Holds(u, x)' <=> Holds(u, x) \/ (u = t /\ x = "read")
  BY <1>1, <1>3, MmsOK DEF Holds, Things, Mutexes, Inv, TablesOK
<1>5. Held(t)' = J
  BY <1>3, <1>4 DEF Held, Things
<1>6. ProgramsOK'
  BY <1>1, <1>2, <1>4, <1>5, Carry
<1> QED
  BY <1>1, <1>3, <1>6 DEF Inv, TablesOK

LEMMA MmapReadUnlockInv == ASSUME Inv, NEW t \in Threads, MmapReadUnlock(t) PROVE Inv'
<1> DEFINE m == MmOf[t]
<1>1. /\ todo[t] # <<>> /\ Head(todo[t]).op = "unread"
      /\ readers' = [readers EXCEPT ![m] = readers[m] \ {t}]
      /\ todo' = [todo EXCEPT ![t] = Tail(todo[t])] /\ UNCHANGED <<owner, writer>>
  BY DEF MmapReadUnlock, At, Advance
<1>2. PICK J \in SUBSET Things :
        May(t, Head(todo[t]), Held(t), J) /\ Leads(t, Tail(todo[t]), J, {})
  BY <1>1, NextStep
<1>3. J = Held(t) \ {"read"} /\ m \in Mms
  BY <1>1, <1>2, MmsOK DEF May
<1>4. \A u \in Threads, x \in Things :
        Holds(u, x)' <=> Holds(u, x) /\ ~(u = t /\ x = "read")
  BY <1>1, <1>3, MmsOK DEF Holds, Things, Mutexes, Inv, TablesOK
<1>5. Held(t)' = J
  BY <1>3, <1>4 DEF Held
<1>6. ProgramsOK'
  BY <1>1, <1>2, <1>4, <1>5, Carry
<1> QED
  BY <1>1, <1>3, <1>6 DEF Inv, TablesOK

\* A writer waits for every writer there is.
LEMMA MmapWriteLockInv == ASSUME Inv, NEW t \in Threads, MmapWriteLock(t) PROVE Inv'
<1> DEFINE m == MmOf[t]
<1>1. /\ todo[t] # <<>> /\ Head(todo[t]).op = "write"
      /\ writer' = [writer EXCEPT ![m] = t]
      /\ todo' = [todo EXCEPT ![t] = Tail(todo[t])] /\ UNCHANGED <<owner, readers>>
  BY DEF MmapWriteLock, At, Advance
<1>2. PICK J \in SUBSET Things :
        May(t, Head(todo[t]), Held(t), J) /\ Leads(t, Tail(todo[t]), J, {})
  BY <1>1, NextStep
<1>3. J = Held(t) \cup {"write"} /\ m \in Mms /\ "map" \in CallsOf[t]
  BY <1>1, <1>2, MmsOK DEF May
<1>4. writer[m] = None
  <2>1. \A u \in Threads : writer[m] # u
    BY DEF MmapWriteLock, WaitsFor
  <2> QED
    BY <2>1, <1>3 DEF Inv, TablesOK
<1>5. \A u \in Threads, x \in Things :
        Holds(u, x)' <=> Holds(u, x) \/ (u = t /\ x = "write")
  BY <1>1, <1>3, <1>4, MmsOK, LockOrderAssumption
  DEF Holds, Things, Mutexes, Inv, TablesOK, LockOrderAssumption
<1>6. Held(t)' = J
  BY <1>3, <1>5 DEF Held, Things
<1>7. ProgramsOK'
  BY <1>1, <1>2, <1>5, <1>6, Carry
<1> QED
  BY <1>1, <1>3, <1>7 DEF Inv, TablesOK

LEMMA MmapWriteUnlockInv == ASSUME Inv, NEW t \in Threads, MmapWriteUnlock(t) PROVE Inv'
<1> DEFINE m == MmOf[t]
<1>1. /\ todo[t] # <<>> /\ Head(todo[t]).op = "unwrite"
      /\ writer' = [writer EXCEPT ![m] = None]
      /\ todo' = [todo EXCEPT ![t] = Tail(todo[t])] /\ UNCHANGED <<owner, readers>>
  BY DEF MmapWriteUnlock, At, Advance
<1>2. PICK J \in SUBSET Things :
        May(t, Head(todo[t]), Held(t), J) /\ Leads(t, Tail(todo[t]), J, {})
  BY <1>1, NextStep
<1>3. J = Held(t) \ {"write"} /\ m \in Mms /\ "write" \in Held(t)
  BY <1>1, <1>2, MmsOK DEF May
<1>4. writer[m] = t
  BY <1>3 DEF Held, Holds, Mutexes
<1>5. \A u \in Threads, x \in Things :
        Holds(u, x)' <=> Holds(u, x) /\ ~(u = t /\ x = "write")
  BY <1>1, <1>3, <1>4, MmsOK, LockOrderAssumption
  DEF Holds, Things, Mutexes, Inv, TablesOK, LockOrderAssumption
<1>6. Held(t)' = J
  BY <1>3, <1>5 DEF Held
<1>7. ProgramsOK'
  BY <1>1, <1>2, <1>5, <1>6, Carry
<1> QED
  BY <1>1, <1>3, <1>7 DEF Inv, TablesOK

LEMMA JoinInv == ASSUME Inv, NEW t \in Threads, Join(t) PROVE Inv'
<1>1. /\ todo[t] # <<>> /\ Head(todo[t]).op = "join"
      /\ todo' = [todo EXCEPT ![t] = Tail(todo[t])] /\ UNCHANGED <<owner, readers, writer>>
  BY DEF Join, At, Advance
<1>2. PICK J \in SUBSET Things :
        May(t, Head(todo[t]), Held(t), J) /\ Leads(t, Tail(todo[t]), J, {})
  BY <1>1, NextStep
<1>3. J = Held(t)
  BY <1>1, <1>2 DEF May
<1>4. \A u \in Threads, x \in Things : Holds(u, x)' <=> Holds(u, x)
  BY <1>1 DEF Holds
<1>5. Held(t)' = J
  BY <1>3, <1>4 DEF Held
<1>6. ProgramsOK'
  BY <1>1, <1>2, <1>4, <1>5, Carry
<1> QED
  BY <1>1, <1>6 DEF Inv, TablesOK

LEMMA StepInv == Inv /\ [Next]_vars => Inv'
<1> SUFFICES ASSUME Inv, [Next]_vars PROVE Inv'
  OBVIOUS
<1>1. ASSUME NEW t \in Threads, Begin(t) \/ Step(t) PROVE Inv'
  BY <1>1, BeginInv, AcquireInv, ReleaseMutexInv, MmapReadLockInv, MmapReadUnlockInv,
     MmapWriteLockInv, MmapWriteUnlockInv, JoinInv DEF Step
<1>2. CASE UNCHANGED vars
  <2>1. \A u \in Threads : Held(u)' = Held(u)
    BY <1>2 DEF vars, Held, Holds
  <2>2. ProgramsOK'
    BY <1>2, <2>1 DEF vars, Inv, ProgramsOK
  <2> QED
    BY <1>2, <2>2 DEF vars, Inv, TablesOK
<1> QED
  BY <1>1, <1>2 DEF Next

LEMMA InvHolds == Spec => []Inv
BY InitInv, StepInv, PTL DEF Spec
-----------------------------------------------------------------------------
(* The order                                                               *)

\* How far a thread has got in the order of the locks; 4 is one that goes on.
Place(t) == IF At(t, "join") \/ (At(t, "read") /\ Held(t) = {}) THEN 0
            ELSE IF At(t, "write") THEN 1
            ELSE IF At(t, "lock") THEN IF Head(todo[t]).mutex = "tpce" THEN 2 ELSE 3
            ELSE 4

\* Whoever holds a lock is past it.
LEMMA HolderIsPast ==
  ASSUME Inv, NEW u \in Threads
  PROVE  /\ Place(u) \in 0 .. 4
         /\ "tpce" \in Held(u) => Place(u) > 2
         /\ "dma" \in Held(u) => Place(u) > 3
         /\ "read" \in Held(u) => Place(u) > 1
         /\ "write" \in Held(u) => Place(u) > 1
<1>1. Place(u) \in 0 .. 4
  BY DEF Place
<1>2. CASE todo[u] = <<>>
  <2>1. PICK h : h[1] = Held(u) /\ h[Len(todo[u]) + 1] = {}
    BY DEF Inv, ProgramsOK, Leads
  <2>2. Len(todo[u]) + 1 = 1
    BY <1>2
  <2> QED
    BY <1>1, <2>1, <2>2
<1>3. CASE todo[u] # <<>>
  <2>1. PICK J : May(u, Head(todo[u]), Held(u), J)
    BY <1>3, NextStep
  <2> QED
    BY <1>1, <2>1 DEF May, Place, At
<1> QED
  BY <1>2, <1>3

\* Whoever is waited for is further on.
LEMMA WaitedForIsFurther ==
  ASSUME Inv, MapsApart, NEW t \in Threads, NEW u \in Threads, WaitsFor(t, u)
  PROVE  Place(t) < Place(u)
<1> DEFINE m == MmOf[t]
<1>1. m \in Mms
  BY MmsOK
<1>2. Place(u) \in 0 .. 4
  BY HolderIsPast
<1>3. CASE At(t, "lock") /\ owner[Head(todo[t]).mutex] = u
  <2>1. PICK J : May(t, Head(todo[t]), Held(t), J)
    BY <1>3, NextStep DEF At
  <2>2. CASE Head(todo[t]).mutex = "tpce"
    <3>1. "tpce" \in Held(u)
      BY <1>3, <2>2 DEF Held, Holds, Things, Mutexes
    <3>2. Place(t) = 2
      BY <1>3, <2>2 DEF Place, At
    <3> QED
      BY <3>1, <3>2, HolderIsPast
  <2>3. CASE Head(todo[t]).mutex = "dma"
    <3>1. "dma" \in Held(u)
      BY <1>3, <2>3 DEF Held, Holds, Things, Mutexes
    <3>2. Place(t) = 3
      BY <1>3, <2>3 DEF Place, At
    <3> QED
      BY <3>1, <3>2, HolderIsPast
  <2> QED
    BY <1>3, <2>1, <2>2, <2>3 DEF May, At
<1>4. CASE At(t, "read") /\ (writer[m] = u \/ (MmOf[u] = m /\ At(u, "write")))
  <2>1. PICK J : May(t, Head(todo[t]), Held(t), J)
    BY <1>4, NextStep DEF At
  <2>2. "write" \notin Held(t) /\ (Held(t) = {} \/ ReadsUnderMutex(t))
    BY <1>4, <2>1 DEF May, At
  <2>3. MmOf[u] = m /\ "map" \in CallsOf[u] /\ t # u
    <3>1. CASE writer[m] = u
      <4>1. u # None /\ MmOf[u] = m /\ "map" \in CallsOf[u]
        BY <1>1, <3>1, LockOrderAssumption DEF Inv, TablesOK, LockOrderAssumption
      <4>2. writer[m] # t
        BY <2>2 DEF Held, Holds, Things
      <4> QED
        BY <3>1, <4>1, <4>2
    <3>2. CASE MmOf[u] = m /\ At(u, "write")
      <4>1. PICK K : May(u, Head(todo[u]), Held(u), K)
        BY <3>2, NextStep DEF At
      <4> QED
        BY <1>4, <3>2, <4>1 DEF May, At
    <3> QED
      BY <1>4, <3>1, <3>2
  <2>4. Held(t) = {} /\ Place(t) = 0
    BY <1>4, <2>2, <2>3 DEF MapsApart, Place
  <2>5. Place(u) > 0
    <3>1. CASE writer[m] = u
      <4>1. "write" \in Held(u)
        BY <2>3, <3>1 DEF Held, Holds, Things
      <4> QED
        BY <4>1, <1>2, HolderIsPast
    <3>2. CASE At(u, "write")
      BY <3>2 DEF Place, At
    <3> QED
      BY <1>4, <3>1, <3>2
  <2> QED
    BY <2>4, <2>5
<1>5. CASE At(t, "write") /\ (writer[m] = u \/ u \in readers[m])
  <2>1. MmOf[u] = m
    BY <1>1, <1>5, LockOrderAssumption DEF Inv, TablesOK, LockOrderAssumption
  <2>2. "write" \in Held(u) \/ "read" \in Held(u)
    BY <1>5, <2>1 DEF Held, Holds, Things
  <2>3. Place(t) = 1
    BY <1>5 DEF Place, At
  <2> QED
    BY <1>2, <2>2, <2>3, HolderIsPast
<1>6. CASE At(t, "join") /\ u = Worker /\ todo[u] # <<>>
  <2>1. PICK J : May(u, Head(todo[u]), Held(u), J)
    BY <1>6, NextStep
  <2>2. Place(u) > 0
    BY <1>2, <1>6, <2>1 DEF May, Place, At
  <2>3. Place(t) = 0
    BY <1>6 DEF Place
  <2> QED
    BY <1>2, <2>2, <2>3
<1> QED
  BY <1>3, <1>4, <1>5, <1>6, Zenon DEF WaitsFor

\* No circular wait (dma.c:297 against main.c:342 and 314), however many threads call
\* whatever they like, if no thread maps in a process another thread of which pins a
\* buffer or faults under tpce->mutex.
THEOREM NobodyWaitsInACircle == ASSUME MapsApart PROVE Spec => []NoWaitCycle
<1>1. Inv => NoWaitCycle
  <2> SUFFICES ASSUME Inv, NEW S \in (SUBSET Threads) \ {{}},
                      \A t \in S : \E u \in S : WaitsFor(t, u)
               PROVE  FALSE
    BY DEF NoWaitCycle
  <2>1. \A t \in S : Place(t) \in 0 .. 4 /\ \E u \in S : Place(t) < Place(u)
    BY HolderIsPast, WaitedForIsFurther
  <2>2. \A t \in S : Place(t) < 4
    BY <2>1
  <2>3. \A t \in S : Place(t) < 3
    BY <2>1, <2>2
  <2>4. \A t \in S : Place(t) < 2
    BY <2>1, <2>3
  <2>5. \A t \in S : Place(t) < 1
    BY <2>1, <2>4
  <2>6. \A t \in S : FALSE
    BY <2>1, <2>5
  <2> QED
    BY <2>6, Zenon
<1> QED
  BY <1>1, InvHolds, PTL
=============================================================================
