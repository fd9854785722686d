---------------------------- MODULE PageTableProofs ----------------------------
(***************************************************************************)
(* Proofs about PageTable, for any channels, table size and pages.         *)
(***************************************************************************)
EXTENDS PageTable, TLAPS

\* What a start in progress knows of its channel and of its last slot.
StartOK ==
  /\ starting # NoChannel => load[starting] # <<>>
  /\ failed => starting # NoChannel
  /\ currPage # NoPage => slot \in Slots

TypeInv == TypeOK /\ StartOK

\* Slots are found by the channel they are marked with, so the slots of a channel
\* that does nothing would be lost; this is inductive as it stands.
Inv == TypeInv /\ NoSlotLeaks

\* The addresses c has been given so far: slots of its own.
OwnSlots(c) == \A i \in 1 .. Len(out[c]) : out[c][i] \in SlotsOf(c)

\* While c starts, the table has the pages of the addresses it has been given, and
\* it has no other slots.
Translated(c) ==
  /\ Len(out[c]) \in 1 .. Len(load[c])
  /\ OwnSlots(c)
  /\ \A i \in 1 .. Len(out[c]) : pages[out[c][i]] = load[c][i]
  /\ \A s \in SlotsOf(c) : \E i \in 1 .. Len(out[c]) : out[c][i] = s

\* curr_page is the page that was first needed last, slot that of the last address.
Newest(c, i) == /\ load[c][i] = currPage
                /\ IsFirst(load[c], i)
                /\ \A j \in i + 1 .. Len(out[c]) : ~IsFirst(load[c], j)

Remembered(c) == currPage # NoPage => /\ slot = out[c][Len(out[c])]
                                      /\ \E i \in 2 .. Len(out[c]) : Newest(c, i)

StartRight == starting # NoChannel /\ ~failed => Translated(starting) /\ Remembered(starting)

\* The device translates with its registers, whatever becomes of the table.
RunRightOf(c) == /\ Len(out[c]) = Len(load[c])
                 /\ OwnSlots(c)
                 /\ \A i \in 1 .. Len(out[c]) : regs[out[c][i]] = load[c][i]

RunRight == \A c \in Channels : Running(c) => RunRightOf(c)
-----------------------------------------------------------------------------
(* Types                                                                   *)

\* A start takes the pages of its workload one after the other.
LEMMA LoadedIsPages ==
  ASSUME TypeInv, NEW c \in Channels, load[c] # <<>>
  PROVE  /\ load[c] \in Workloads
         /\ load[c] \in Seq(Pages)
         /\ Len(load[c]) \in Nat \ {0}
         /\ load[c][1] \in Pages
         /\ out[c] \in Seq(Slots)
         /\ Len(out[c]) \in Nat
<1>1. load[c] \in Workloads /\ out[c] \in Seq(Slots)
  BY DEF TypeInv, TypeOK
<1>2. load[c] \in Seq(Pages) /\ load[c] # <<>>
  BY <1>1, PageAssumption DEF PageAssumption
<1> QED
  BY <1>1, <1>2

LEMMA NextPageIsPage ==
  ASSUME TypeInv, Translating
  PROVE  /\ starting \in Channels
         /\ NextPage \in Pages
         /\ NextPage # NoPage
<1>1. starting \in Channels /\ load[starting] # <<>>
  BY DEF Translating, TypeInv, TypeOK, StartOK
<1>2. Len(out[starting]) + 1 \in 1 .. Len(load[starting])
  BY <1>1, LoadedIsPages DEF Translating
<1>3. NextPage \in Pages
  BY <1>1, <1>2, LoadedIsPages DEF NextPage
<1> QED
  BY <1>1, <1>3, PageAssumption DEF PageAssumption

LEMMA InitInv == Init => Inv
<1> SUFFICES ASSUME Init PROVE Inv
  OBVIOUS
<1> USE PageAssumption DEF PageAssumption, Init
<1>1. /\ pages \in [Slots -> Pages \cup {NoPage, Garbled}]
      /\ regs \in [Slots -> Pages \cup {NoPage, Garbled}]
      /\ activeChannel \in [Slots -> Channels \cup {0}]
  OBVIOUS
<1>2. load \in [Channels -> Workloads \cup {<<>>}] /\ out \in [Channels -> Seq(Slots)]
  OBVIOUS
<1>3. TypeOK /\ StartOK
  BY <1>1, <1>2 DEF TypeOK, StartOK
<1> QED
  BY <1>3 DEF Inv, TypeInv, NoSlotLeaks

\* Whatever PageAlloc is asked for, the table keeps its type.
LEMMA AllocTyped ==
  ASSUME TypeOK, NEW p \in Pages, NEW c \in Channels, NEW s \in Slots \cup {NoSlot},
         PageAlloc(p, c, s)
  PROVE  /\ pages' \in [Slots -> Pages \cup {NoPage, Garbled}]
         /\ activeChannel' \in [Slots -> Channels \cup {0}]
         /\ used' \in SUBSET Slots
         /\ before' \in Pages \cup {Intact}
<1>1. CASE /\ s # NoSlot
            /\ pages' = [pages EXCEPT ![s] = p]
            /\ activeChannel' = [activeChannel EXCEPT ![s] = c]
            /\ used' = used \cup {s}
            /\ UNCHANGED before
  BY <1>1 DEF TypeOK
<1>2. CASE /\ s = NoSlot
            /\ before' = p
            /\ pages' = [pages EXCEPT ![Last] = IF c = 0 THEN @ ELSE Garbled]
            /\ UNCHANGED <<activeChannel, used>>
  <2>1. Last \in Slots
    BY PageAssumption DEF PageAssumption, Last, Slots
  <2> QED
    BY <1>2, <2>1 DEF TypeOK
<1> QED
  BY <1>1, <1>2 DEF PageAlloc

LEMMA FreeTyped ==
  ASSUME TypeOK, NEW c \in Channels, PageFreeByChannel(c)
  PROVE  /\ pages' \in [Slots -> Pages \cup {NoPage, Garbled}]
         /\ activeChannel' \in [Slots -> Channels \cup {0}]
         /\ used' \in SUBSET Slots
         /\ before' \in Pages \cup {Intact}
  BY DEF TypeOK, PageFreeByChannel

LEMMA StepTypeInv == TypeInv /\ [Next]_vars => TypeInv'
<1> SUFFICES ASSUME TypeInv, [Next]_vars PROVE TypeInv'
  OBVIOUS
<1> USE DEF TypeInv, StartOK, TypeOK
<1>1. ASSUME NEW c \in Channels, NEW w \in Workloads, TranslateLink(c, w)
      PROVE  TypeInv'
  <2>1. w \in Seq(Pages) /\ w # <<>> /\ w[1] \in Pages
    BY PageAssumption DEF PageAssumption
  <2>2. PICK s \in Slots : PageAlloc(w[1], c, s) /\ out' = [out EXCEPT ![c] = <<s>>]
    BY <1>1 DEF TranslateLink
  <2> QED
    BY <1>1, <2>1, <2>2, AllocTyped, PageAssumption DEF TranslateLink, PageAssumption
<1>2. ASSUME NEW c \in Channels, NEW w \in Workloads, LinkNoSpace(c, w)
      PROVE  TypeInv'
  <2>1. w \in Seq(Pages) /\ w # <<>> /\ w[1] \in Pages
    BY PageAssumption DEF PageAssumption
  <2> QED
    BY <1>2, <2>1, AllocTyped DEF LinkNoSpace
<1>3. CASE KeepSlot
  <2>1. starting \in Channels /\ slot \in Slots
    BY <1>3, NextPageIsPage DEF KeepSlot
  <2> QED
    BY <1>3, <2>1 DEF KeepSlot, tableVars
<1>4. CASE FindSlot
  <2>1. PICK s \in PageFind(NextPage, starting) :
          slot' = s /\ out' = [out EXCEPT ![starting] = Append(@, s)]
    BY <1>4 DEF FindSlot
  <2>2. s \in Slots /\ starting \in Channels
    BY <1>4, <2>1, NextPageIsPage DEF FindSlot, PageFind, SlotsOf
  <2> QED
    BY <1>4, <2>1, <2>2 DEF FindSlot, tableVars
<1>5. CASE AllocSlot
  <2>1. PICK s \in Slots : /\ PageAlloc(NextPage, starting, s)
                           /\ slot' = s
                           /\ out' = [out EXCEPT ![starting] = Append(@, s)]
    BY <1>5 DEF AllocSlot
  <2>2. starting \in Channels /\ NextPage \in Pages
    BY <1>5, NextPageIsPage DEF AllocSlot, NewPage
  <2> QED
    BY <1>5, <2>1, <2>2, AllocTyped DEF AllocSlot
<1>6. CASE DataNoSpace
  <2>1. starting \in Channels /\ NextPage \in Pages /\ starting # NoChannel
    BY <1>6, NextPageIsPage DEF DataNoSpace, NewPage, Translating
  <2> QED
    BY <1>6, <2>1, AllocTyped DEF DataNoSpace
<1>7. CASE NotImplemented
  BY <1>7 DEF NotImplemented, Translating, tableVars
<1>8. CASE AbandonStart
  <2>1. starting \in Channels
    BY <1>8 DEF AbandonStart
  <2>2. /\ pages' \in [Slots -> Pages \cup {NoPage, Garbled}]
        /\ activeChannel' \in [Slots -> Channels \cup {0}]
        /\ used' \in SUBSET Slots
        /\ before' \in Pages \cup {Intact}
    BY <1>8, <2>1, FreeTyped DEF AbandonStart
  <2>3. load' \in [Channels -> Workloads \cup {<<>>}] /\ out' \in [Channels -> Seq(Slots)]
    BY <1>8 DEF AbandonStart
  <2> QED
    BY <1>8, <2>2, <2>3 DEF AbandonStart
<1>9. CASE Program
  BY <1>9 DEF Program, tableVars
<1>10. ASSUME NEW c \in Channels, Release(c) PROVE TypeInv'
  BY <1>10, FreeTyped DEF Release
<1>11. CASE UNCHANGED vars
  BY <1>11 DEF vars, tableVars
<1> QED
  BY <1>1, <1>2, <1>3, <1>4, <1>5, <1>6, <1>7, <1>8, <1>9, <1>10, <1>11 DEF Next

\* The slots of other channels are out of reach of both.
LEMMA AllocSlots ==
  ASSUME TypeOK, NEW p \in Pages, NEW c \in Channels, NEW s \in Slots,
         IsFirstZero(s), PageAlloc(p, c, s)
  PROVE  /\ s \notin used
         /\ used' = used \cup {s}
         /\ SlotsOf(c)' = SlotsOf(c) \cup {s}
         /\ \A d \in Channels \ {c} : SlotsOf(d)' = SlotsOf(d)
         /\ pages'[s] = p
         /\ \A t \in Slots \ {s} : /\ pages'[t] = pages[t]
                                  /\ activeChannel'[t] = activeChannel[t]
<1>1. s # NoSlot
  BY PageAssumption DEF PageAssumption, Slots, NoSlot
<1>2. s \notin used
  BY <1>1 DEF IsFirstZero
<1>3. /\ pages' = [pages EXCEPT ![s] = p]
      /\ activeChannel' = [activeChannel EXCEPT ![s] = c]
      /\ used' = used \cup {s}
  BY <1>1 DEF PageAlloc
<1> QED
  BY <1>2, <1>3 DEF TypeOK, SlotsOf

\* With a full table at most the last page is spoilt.
LEMMA NoSpaceSlots ==
  ASSUME TypeOK, NEW p \in Pages, NEW c \in Channels, PageAlloc(p, c, NoSlot)
  PROVE  /\ UNCHANGED <<activeChannel, used>>
         /\ \A d \in Channels : SlotsOf(d)' = SlotsOf(d)
BY DEF PageAlloc, SlotsOf

LEMMA FreeSlots ==
  ASSUME TypeOK, NEW c \in Channels, PageFreeByChannel(c)
  PROVE  /\ used' = used \ SlotsOf(c)
         /\ SlotsOf(c)' = {}
         /\ \A d \in Channels \ {c} : SlotsOf(d)' = SlotsOf(d)
         /\ \A t \in Slots \ SlotsOf(c) : activeChannel'[t] = activeChannel[t]
BY DEF TypeOK, PageFreeByChannel, SlotsOf

LEMMA StepNoSlotLeaks == Inv /\ TypeInv' /\ [Next]_vars => NoSlotLeaks'
<1> SUFFICES ASSUME Inv, TypeInv', [Next]_vars PROVE NoSlotLeaks'
  OBVIOUS
<1> USE DEF Inv, TypeInv, TypeOK, NoSlotLeaks
<1>1. ASSUME NEW c \in Channels, NEW w \in Workloads, TranslateLink(c, w)
      PROVE  NoSlotLeaks'
  <2>1. w \in Seq(Pages) /\ w # <<>> /\ w[1] \in Pages
    BY PageAssumption DEF PageAssumption
  <2>2. PICK s \in Slots : IsFirstZero(s) /\ PageAlloc(w[1], c, s)
    BY <1>1 DEF TranslateLink
  <2>3. used' = used \cup {s} /\ activeChannel'[s] = c
    BY <2>1, <2>2, PageAssumption DEF PageAlloc, PageAssumption, Slots, NoSlot
  <2>4. \A t \in used : activeChannel'[t] = activeChannel[t] /\ t \in Slots
    BY <2>1, <2>2, AllocSlots
  <2> QED
    BY <1>1, <2>1, <2>3, <2>4 DEF TranslateLink
<1>2. ASSUME NEW c \in Channels, NEW w \in Workloads, LinkNoSpace(c, w)
      PROVE  NoSlotLeaks'
  BY <1>2 DEF LinkNoSpace, PageAlloc
<1>3. CASE KeepSlot \/ FindSlot \/ NotImplemented \/ Program
  BY <1>3 DEF KeepSlot, FindSlot, NotImplemented, Program, tableVars
<1>4. CASE AllocSlot
  <2>1. /\ starting \in Channels /\ NextPage \in Pages
        /\ load[starting] # <<>>
    BY <1>4, NextPageIsPage DEF AllocSlot, NewPage, Translating, StartOK
  <2>2. PICK s \in Slots : IsFirstZero(s) /\ PageAlloc(NextPage, starting, s)
    BY <1>4 DEF AllocSlot
  <2>3. used' = used \cup {s} /\ activeChannel'[s] = starting
    BY <2>1, <2>2, PageAssumption DEF PageAlloc, PageAssumption, Slots, NoSlot
  <2>4. \A t \in used : activeChannel'[t] = activeChannel[t] /\ t \in Slots
    BY <2>1, <2>2, AllocSlots
  <2> QED
    BY <1>4, <2>1, <2>3, <2>4 DEF AllocSlot
<1>5. CASE DataNoSpace
  BY <1>5 DEF DataNoSpace, PageAlloc
<1>6. CASE AbandonStart
  <2>1. starting \in Channels /\ PageFreeByChannel(starting)
    BY <1>6 DEF AbandonStart, StartOK
  <2> QED
    BY <1>6, <2>1, FreeSlots DEF AbandonStart, SlotsOf
<1>7. ASSUME NEW c \in Channels, Release(c) PROVE NoSlotLeaks'
  BY <1>7, FreeSlots DEF Release, SlotsOf
<1>8. CASE UNCHANGED vars
  BY <1>8 DEF vars, tableVars
<1> QED
  BY <1>1, <1>2, <1>3, <1>4, <1>5, <1>6, <1>7, <1>8 DEF Next

\* The table keeps its type.
THEOREM TableTypesCorrect == Spec => []TypeOK
<1>1. TypeInv => TypeOK
  BY DEF TypeInv
<1>2. Init => TypeInv
  BY InitInv DEF Inv
<1> QED
  BY <1>1, <1>2, StepTypeInv, PTL DEF Spec

\* Every path of a start that fails, and every reset, gives the channel's slots back.
THEOREM SlotsAreReturned == Spec => []NoSlotLeaks
<1>1. Inv /\ [Next]_vars => Inv'
  BY StepTypeInv, StepNoSlotLeaks DEF Inv
<1>2. Inv => NoSlotLeaks
  BY DEF Inv
<1> QED
  BY <1>1, <1>2, InitInv, PTL DEF Spec
-----------------------------------------------------------------------------
(* Addresses are translated rightly.  Table and registers are treated      *)
(* apart: the starting channel's addresses agree with the table until      *)
(* Program copies its slots, from then on with the registers.              *)

\* A step that leaves a channel's addresses, slots and registers alone leaves it
\* running rightly.
LEMMA OthersRunRight ==
  ASSUME Inv, RunRight, NEW c \in Channels, Running(c),
         load'[c] = load[c], out'[c] = out[c],
         SlotsOf(c)' = SlotsOf(c), \A s \in SlotsOf(c) : regs'[s] = regs[s]
  PROVE  RunRightOf(c)'
<1>1. RunRightOf(c)
  BY DEF RunRight
<1> QED
  BY <1>1 DEF RunRightOf, OwnSlots

\* One more address of the starting channel.
LEMMA KeepRight ==
  ASSUME Inv, StartRight, \A w \in Workloads : NeverReturns(w), KeepSlot
  PROVE  StartRight'
<1> DEFINE c == starting
           n == Len(out[c])
           w == load[c]
<1>1. /\ c \in Channels /\ c # NoChannel /\ w \in Workloads
      /\ w \in Seq(Pages) /\ out[c] \in Seq(Slots)
      /\ n \in Nat /\ Len(w) \in Nat /\ n < Len(w) /\ ~failed
      /\ w[n + 1] = currPage /\ currPage # NoPage
  BY NextPageIsPage, LoadedIsPages
  DEF KeepSlot, Translating, Inv, TypeInv, StartOK, NextPage
<1>2. Translated(c) /\ slot = out[c][n] /\ n \in 1 .. Len(w)
  BY <1>1 DEF StartRight, Remembered, Translated
<1>3. PICK i \in 2 .. n : Newest(c, i)
  BY <1>1 DEF StartRight, Remembered
<1>4. ~IsFirst(w, n + 1)
  BY <1>1, <1>3 DEF IsFirst, Newest
<1>5. w[n] = currPage
  <2>1. CASE i = n
    BY <2>1, <1>3 DEF Newest
  <2>2. CASE i < n
    <3>1. ~\E h \in i + 1 .. n + 1 : IsFirst(w, h)
      BY <1>1, <1>3, <1>4 DEF Newest
    <3>2. NeverReturns(w)
      BY <1>1
    <3>3. i \in 2 .. Len(w) /\ n \in 1 .. Len(w) /\ n + 1 \in 1 .. Len(w)
      BY <1>1, <1>2
    <3>4. w[n + 1] = w[i] /\ IsFirst(w, i)
      BY <1>1, <1>3 DEF Newest
    <3>5. ~(w[n] # w[i])
      BY <2>2, <3>1, <3>2, <3>3, <3>4 DEF NeverReturns
    <3> QED
      BY <3>5, <1>3 DEF Newest
  <2> QED
    BY <1>1, <2>1, <2>2
<1>6. slot \in SlotsOf(c) /\ pages[slot] = w[n + 1]
  BY <1>1, <1>2, <1>5 DEF Translated, OwnSlots
<1>7. /\ out'[c] = Append(out[c], slot) /\ Len(out'[c]) = n + 1
      /\ out'[c][n + 1] = slot
      /\ \A h \in 1 .. n : out'[c][h] = out[c][h]
  BY <1>1, <1>6 DEF KeepSlot, SlotsOf, Inv, TypeInv, TypeOK
<1>8. /\ UNCHANGED <<pages, activeChannel, used, starting, failed, currPage, slot, load>>
      /\ SlotsOf(c)' = SlotsOf(c)
  BY DEF KeepSlot, tableVars, SlotsOf
<1>9. Translated(c)'
  <2>1. Len(out'[c]) \in 1 .. Len(load'[c])
    BY <1>1, <1>7, <1>8
  <2>2. \A h \in 1 .. n + 1 : out'[c][h] \in SlotsOf(c)' /\ pages'[out'[c][h]] = load'[c][h]
    BY <1>1, <1>2, <1>6, <1>7, <1>8 DEF Translated, OwnSlots
  <2>3. \A s \in SlotsOf(c)' : \E h \in 1 .. n + 1 : out'[c][h] = s
    BY <1>1, <1>2, <1>7, <1>8 DEF Translated
  <2> QED
    BY <1>7, <1>8, <2>1, <2>2, <2>3 DEF Translated, OwnSlots
<1>10. Remembered(c)'
  <2>1. Newest(c, i)'
    <3>1. \A j \in i + 1 .. n + 1 : ~IsFirst(w, j)
      BY <1>1, <1>3, <1>4 DEF Newest
    <3>2. w[i] = currPage /\ IsFirst(w, i)
      BY <1>3 DEF Newest
    <3> QED
      BY <1>7, <1>8, <3>1, <3>2 DEF Newest, IsFirst
  <2> QED
    BY <1>1, <1>3, <1>7, <1>8, <2>1 DEF Remembered
<1> QED
  BY <1>8, <1>9, <1>10 DEF StartRight

LEMMA FindRight ==
  ASSUME Inv, StartRight, FindSlot
  PROVE  StartRight'
<1> DEFINE c == starting
           n == Len(out[c])
           w == load[c]
<1>1. /\ c \in Channels /\ c # NoChannel
      /\ w \in Seq(Pages) /\ out[c] \in Seq(Slots)
      /\ n \in Nat /\ Len(w) \in Nat /\ n < Len(w) /\ ~failed
  BY NextPageIsPage, LoadedIsPages
  DEF FindSlot, Translating, Inv, TypeInv, StartOK
<1>2. Translated(c) /\ Remembered(c) /\ n \in 1 .. Len(w)
  BY <1>1 DEF StartRight, Translated
<1>3. PICK s \in SlotsOf(c) : /\ pages[s] = w[n + 1]
                             /\ slot' = s
                             /\ out' = [out EXCEPT ![c] = Append(@, s)]
  BY DEF FindSlot, PageFind, NextPage
<1>4. ~IsFirst(w, n + 1)
  <2>1. PICK i \in 1 .. n : out[c][i] = s
    BY <1>2 DEF Translated
  <2>2. w[i] = w[n + 1]
    BY <1>2, <1>3, <2>1 DEF Translated
  <2> QED
    BY <1>1, <2>1, <2>2 DEF IsFirst
<1>5. /\ out'[c] = Append(out[c], s) /\ Len(out'[c]) = n + 1
      /\ out'[c][n + 1] = s
      /\ \A h \in 1 .. n : out'[c][h] = out[c][h]
  BY <1>1, <1>3 DEF SlotsOf, Inv, TypeInv, TypeOK
<1>6. /\ UNCHANGED <<pages, activeChannel, used, starting, failed, currPage, load>>
      /\ SlotsOf(c)' = SlotsOf(c)
  BY DEF FindSlot, tableVars, SlotsOf
<1>7. Translated(c)'
  BY <1>1, <1>2, <1>3, <1>5, <1>6 DEF Translated, OwnSlots
<1>8. Remembered(c)'
  <2> SUFFICES ASSUME currPage # NoPage
               PROVE  \E i \in 2 .. n + 1 : Newest(c, i)'
    BY <1>1, <1>3, <1>5, <1>6 DEF Remembered
  <2>1. PICK i \in 2 .. n : Newest(c, i)
    BY <1>2 DEF Remembered
  <2>2. Newest(c, i)'
    BY <1>1, <1>4, <1>5, <1>6, <2>1 DEF Newest, IsFirst
  <2> QED
    BY <1>1, <2>2
<1> QED
  BY <1>6, <1>7, <1>8 DEF StartRight

LEMMA AllocRight ==
  ASSUME Inv, StartRight, AllocSlot
  PROVE  StartRight'
<1> SUFFICES ASSUME NEW c, c = starting, NEW n, n = Len(out[c]), NEW w, w = load[c]
             PROVE  StartRight'
  OBVIOUS
<1>1. /\ c \in Channels /\ c # NoChannel
      /\ w \in Seq(Pages) /\ out[c] \in Seq(Slots)
      /\ n \in Nat /\ Len(w) \in Nat /\ n < Len(w) /\ ~failed
      /\ w[n + 1] \in Pages /\ PageFind(w[n + 1], c) = {}
  BY NextPageIsPage, LoadedIsPages
  DEF AllocSlot, NewPage, Translating, Inv, TypeInv, StartOK, NextPage
<1>2. Translated(c) /\ n \in 1 .. Len(w)
  BY <1>1 DEF StartRight, Translated
<1>3. PICK s \in Slots : /\ IsFirstZero(s)
                        /\ PageAlloc(w[n + 1], c, s)
                        /\ slot' = s
                        /\ out' = [out EXCEPT ![c] = Append(@, s)]
                        /\ currPage' = w[n + 1]
  BY DEF AllocSlot, NextPage
<1>4. IsFirst(w, n + 1)
  <2> SUFFICES ASSUME NEW h \in 1 .. n, w[h] = w[n + 1] PROVE FALSE
    BY <1>1 DEF IsFirst
  <2>1. out[c][h] \in SlotsOf(c) /\ pages[out[c][h]] = w[n + 1]
    BY <1>2 DEF Translated, OwnSlots
  <2> QED
    BY <1>1, <2>1 DEF PageFind
<1>5. /\ out'[c] = Append(out[c], s) /\ Len(out'[c]) = n + 1
      /\ out'[c][n + 1] = s
      /\ \A h \in 1 .. n : out'[c][h] = out[c][h]
  BY <1>1, <1>3 DEF Inv, TypeInv, TypeOK
<1>6. UNCHANGED <<starting, failed, load>>
  BY DEF AllocSlot
<1>7. /\ s \notin used /\ SlotsOf(c)' = SlotsOf(c) \cup {s}
      /\ pages'[s] = w[n + 1]
      /\ \A t \in SlotsOf(c) : pages'[t] = pages[t]
  <2>1. /\ s \notin used /\ SlotsOf(c)' = SlotsOf(c) \cup {s}
        /\ pages'[s] = w[n + 1]
        /\ \A t \in Slots \ {s} : pages'[t] = pages[t]
    BY <1>1, <1>3, AllocSlots DEF Inv, TypeInv
  <2> QED
    BY <2>1 DEF SlotsOf, Inv, TypeInv, TypeOK
<1>8. Translated(c)'
  <2>1. Len(out[c])' \in 1 .. Len(load[c])'
    BY <1>1, <1>5, <1>6
  <2>2. \A i \in 1 .. n + 1 : /\ out'[c][i] \in SlotsOf(c)'
                             /\ pages'[out'[c][i]] = w[i]
    <3> SUFFICES ASSUME NEW i \in 1 .. n + 1
                 PROVE  out'[c][i] \in SlotsOf(c)' /\ pages'[out'[c][i]] = w[i]
      OBVIOUS
    <3>1. CASE i = n + 1
      BY <3>1, <1>5, <1>7
    <3>2. CASE i \in 1 .. n
      <4>1. out[c][i] \in SlotsOf(c) /\ pages[out[c][i]] = w[i]
        BY <3>2, <1>2 DEF Translated, OwnSlots
      <4> QED
        BY <3>2, <4>1, <1>5, <1>7
    <3> QED
      BY <1>1, <3>1, <3>2
  <2>3. \A t \in SlotsOf(c)' : \E i \in 1 .. n + 1 : out'[c][i] = t
    BY <1>1, <1>2, <1>5, <1>7 DEF Translated
  <2> QED
    BY <1>5, <1>6, <2>1, <2>2, <2>3 DEF Translated, OwnSlots
<1>9. Remembered(c)'
  <2>1. Newest(c, n + 1)'
    BY <1>1, <1>3, <1>4, <1>5, <1>6 DEF Newest, IsFirst
  <2>2. n + 1 \in 2 .. Len(out'[c])
    BY <1>1, <1>2, <1>5
  <2> QED
    BY <1>3, <1>5, <1>6, <2>1, <2>2 DEF Remembered
<1> QED
  BY <1>6, <1>8, <1>9 DEF StartRight

\* Nothing else adds to a start but its descriptor page.
LEMMA StepStartRight ==
  ASSUME Inv, StartRight, \A w \in Workloads : NeverReturns(w), [Next]_vars
  PROVE  StartRight'
<1> USE DEF Inv, TypeInv
<1>1. ASSUME NEW c \in Channels, NEW w \in Workloads, TranslateLink(c, w)
      PROVE  StartRight'
  <2>1. w \in Seq(Pages) /\ Len(w) \in Nat /\ Len(w) >= 1 /\ w[1] \in Pages
    <3>1. w \in Seq(Pages) /\ w # <<>>
      BY PageAssumption DEF PageAssumption
    <3> QED
      BY <3>1
  <2>2. PICK s \in Slots : /\ IsFirstZero(s) /\ PageAlloc(w[1], c, s)
                          /\ out' = [out EXCEPT ![c] = <<s>>]
    BY <1>1 DEF TranslateLink
  <2>3. SlotsOf(c) = {}
    BY <1>1 DEF NoSlotLeaks, SlotsOf, TranslateLink
  <2>4. SlotsOf(c)' = {s} /\ pages'[s] = w[1]
    BY <2>1, <2>2, <2>3, AllocSlots
  <2>5. /\ out'[c] = <<s>> /\ load'[c] = w /\ starting' = c
        /\ currPage' = NoPage
    BY <1>1, <2>2 DEF TranslateLink, TypeOK
  <2>6. Len(out'[c]) = 1 /\ out'[c][1] = s
    BY <2>5
  <2>7. Translated(c)'
    BY <2>1, <2>4, <2>5, <2>6 DEF Translated, OwnSlots
  <2> QED
    BY <2>5, <2>7 DEF StartRight, Remembered
<1>2. ASSUME NEW c \in Channels, NEW w \in Workloads, LinkNoSpace(c, w)
      PROVE  StartRight'
  BY <1>2 DEF LinkNoSpace, StartRight
<1>3. CASE KeepSlot
  BY <1>3, KeepRight
<1>4. CASE FindSlot
  BY <1>4, FindRight
<1>5. CASE AllocSlot
  BY <1>5, AllocRight
<1>6. CASE DataNoSpace \/ NotImplemented
  BY <1>6 DEF DataNoSpace, NotImplemented, StartRight
<1>7. CASE AbandonStart \/ Program
  BY <1>7 DEF AbandonStart, Program, StartRight
<1>8. ASSUME NEW c \in Channels, Release(c) PROVE StartRight'
  BY <1>8 DEF Release, StartRight
<1>9. CASE UNCHANGED vars
  BY <1>9 DEF vars, tableVars, StartRight, Translated, Remembered, Newest, OwnSlots, SlotsOf
<1> QED
  BY <1>1, <1>2, <1>3, <1>4, <1>5, <1>6, <1>7, <1>8, <1>9 DEF Next

LEMMA StepRunRight ==
  ASSUME Inv, Inv', StartRight, RunRight, [Next]_vars
  PROVE  RunRight'
<1> USE DEF Inv, TypeInv
<1> SUFFICES ASSUME NEW d \in Channels, Running(d)' PROVE RunRightOf(d)'
  BY DEF RunRight, RunRightOf
<1>1. ASSUME NEW c \in Channels, NEW w \in Workloads, TranslateLink(c, w)
      PROVE  RunRightOf(d)'
  <2>1. w \in Seq(Pages) /\ w # <<>> /\ w[1] \in Pages
    BY PageAssumption DEF PageAssumption
  <2>2. PICK s \in Slots : IsFirstZero(s) /\ PageAlloc(w[1], c, s)
    BY <1>1 DEF TranslateLink
  <2>3. d # c /\ Running(d)
    BY <1>1, PageAssumption DEF TranslateLink, Running, TypeOK, PageAssumption
  <2>4. SlotsOf(d)' = SlotsOf(d)
    BY <2>1, <2>2, <2>3, AllocSlots
  <2> QED
    BY <1>1, <2>3, <2>4, OthersRunRight DEF TranslateLink, TypeOK
<1>2. ASSUME NEW c \in Channels, NEW w \in Workloads, LinkNoSpace(c, w)
      PROVE  RunRightOf(d)'
  <2>1. Running(d) /\ SlotsOf(d)' = SlotsOf(d)
    BY <1>2 DEF LinkNoSpace, Running, PageAlloc, SlotsOf
  <2> QED
    BY <1>2, <2>1, OthersRunRight DEF LinkNoSpace
<1>3. CASE KeepSlot \/ FindSlot \/ NotImplemented
  <2>1. Running(d) /\ SlotsOf(d)' = SlotsOf(d) /\ UNCHANGED <<load, regs>>
    BY <1>3 DEF KeepSlot, FindSlot, NotImplemented, Running, SlotsOf, tableVars
  <2>2. out'[d] = out[d]
    BY <1>3, <2>1 DEF KeepSlot, FindSlot, NotImplemented, Running, TypeOK
  <2> QED
    BY <2>1, <2>2, OthersRunRight
<1>4. CASE AllocSlot
  <2> SUFFICES ASSUME NEW c, c = starting, NEW p, p = NextPage
               PROVE  RunRightOf(d)'
    OBVIOUS
  <2>1. c \in Channels /\ p \in Pages /\ Running(d) /\ d # c
    BY <1>4, NextPageIsPage DEF AllocSlot, NewPage, Running
  <2>2. PICK s \in Slots : /\ IsFirstZero(s) /\ PageAlloc(p, c, s)
                          /\ out' = [out EXCEPT ![c] = Append(@, s)]
    BY <1>4 DEF AllocSlot
  <2>3. SlotsOf(d)' = SlotsOf(d)
    BY <2>1, <2>2, AllocSlots
  <2> QED
    BY <1>4, <2>1, <2>2, <2>3, OthersRunRight DEF AllocSlot, TypeOK
<1>5. CASE DataNoSpace
  <2>1. Running(d) /\ SlotsOf(d)' = SlotsOf(d)
    BY <1>5 DEF DataNoSpace, Running, PageAlloc, SlotsOf
  <2> QED
    BY <1>5, <2>1, OthersRunRight DEF DataNoSpace
<1>6. CASE AbandonStart
  <2> SUFFICES ASSUME NEW c, c = starting PROVE RunRightOf(d)'
    OBVIOUS
  <2>1. c \in Channels /\ PageFreeByChannel(c)
    BY <1>6 DEF AbandonStart, StartOK, TypeOK
  <2>2. d # c /\ Running(d)
    BY <1>6, <2>1 DEF AbandonStart, Running, TypeOK
  <2>3. SlotsOf(d)' = SlotsOf(d)
    BY <2>1, <2>2, FreeSlots
  <2> QED
    BY <1>6, <2>1, <2>2, <2>3, OthersRunRight DEF AbandonStart, TypeOK
<1>7. CASE Program
  <2>1. /\ \A e \in Channels : SlotsOf(e)' = SlotsOf(e)
        /\ UNCHANGED <<load, out>>
        /\ \A s \in Slots : regs'[s] = IF s \in SlotsOf(starting) THEN pages[s] ELSE regs[s]
    BY <1>7 DEF Program, SlotsOf, tableVars
  <2>2. \A s \in SlotsOf(d) : s \in Slots
    BY DEF SlotsOf, TypeOK
  <2>3. CASE d = starting
    <3>1. Translated(d) /\ Len(out[d]) = Len(load[d])
      BY <1>7, <2>3 DEF Program, StartRight
    <3> QED
      BY <2>1, <2>2, <2>3, <3>1 DEF Translated, OwnSlots, RunRightOf
  <2>4. CASE d # starting
    <3>1. Running(d)
      BY <2>1, <2>4 DEF Running
    <3>2. \A s \in SlotsOf(d) : s \notin SlotsOf(starting)
      BY <2>4 DEF SlotsOf
    <3> QED
      BY <2>1, <2>2, <3>1, <3>2, OthersRunRight
  <2> QED
    BY <2>3, <2>4
<1>8. ASSUME NEW c \in Channels, Release(c) PROVE RunRightOf(d)'
  <2>1. d # c /\ Running(d)
    BY <1>8 DEF Release, Running, TypeOK
  <2>2. SlotsOf(d)' = SlotsOf(d)
    BY <1>8, <2>1, FreeSlots DEF Release
  <2> QED
    BY <1>8, <2>1, <2>2, OthersRunRight DEF Release, TypeOK
<1>9. CASE UNCHANGED vars
  <2>1. Running(d) /\ SlotsOf(d)' = SlotsOf(d)
    BY <1>9 DEF vars, tableVars, Running, SlotsOf
  <2> QED
    BY <1>9, <2>1, OthersRunRight DEF vars, tableVars
<1> QED
  BY <1>1, <1>2, <1>3, <1>4, <1>5, <1>6, <1>7, <1>8, <1>9 DEF Next

\* If no workload comes back to its newest page, every address of a running channel
\* leads the device to the page it was made for.
THEOREM AddressesAreRight ==
  ASSUME \A w \in Workloads : NeverReturns(w)
  PROVE  Spec => []TranslationRight
<1> DEFINE RInv == Inv /\ StartRight /\ RunRight
<1>1. Init => RInv
  <2> SUFFICES ASSUME Init PROVE StartRight /\ RunRight
    BY InitInv
  <2> QED
    BY DEF Init, StartRight, RunRight, Running
<1>2. RInv /\ [Next]_vars => RInv'
  <2>1. Inv /\ [Next]_vars => Inv'
    BY StepTypeInv, StepNoSlotLeaks DEF Inv
  <2> QED
    BY <2>1, StepStartRight, StepRunRight
<1>3. RInv => TranslationRight
  BY DEF RunRight, RunRightOf, TranslationRight
<1> QED
  BY <1>1, <1>2, <1>3, PTL DEF Spec
=============================================================================
