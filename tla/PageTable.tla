------------------------------ MODULE PageTable ------------------------------
(***************************************************************************)
(* The address translation table of the PCIe core (altera_pcie.h) and the  *)
(* part of dma_start that fills it (dma.c).  The device reaches host       *)
(* memory through a few large pages; a starting transfer gets a slot for   *)
(* the page its descriptors lie in and one for every page of its buffer,   *)
(* rewrites each descriptor address to slot and offset, and programs its   *)
(* slots into the device.  A workload is the sequence of those pages: the  *)
(* descriptor page first, then the page of each descriptor's address.      *)
(*                                                                         *)
(* Everything here runs under tpce->mutex, so one start is in progress at  *)
(* most (the channel starting); running channels keep their slots.         *)
(***************************************************************************)
EXTENDS Integers, Sequences

CONSTANTS Channels,   \* DMA channels
          TableSize,  \* ALTERA_ADDR_PAGE_TABLE_SIZE, 16 in the code
          Pages,      \* page-masked bus addresses other than 0
          Workloads,  \* page sequences of the transfers clients start
          NoChannel, NoPage, Intact, Garbled

ASSUME PageAssumption ==
  /\ Channels \subseteq Nat /\ NoChannel \notin Channels
  /\ TableSize \in Nat \ {0}
  /\ NoPage \notin Pages /\ Garbled \notin Pages /\ Garbled # NoPage
  /\ Workloads \subseteq Seq(Pages) \ {<<>>}

VARIABLES
  pages, activeChannel, used, \* altera_pcie_page_table; used_mask as a set
  before,   \* the word in front of pages[]: xa_head of tpce->dma_mappings
  regs,     \* the device's translation registers
  starting, \* channel whose transfer is being translated
  failed,   \* its translation failed
  currPage, slot,   \* locals of translate_descriptor_rw_addr
  load,     \* load[c]: workload of a starting or running channel, else <<>>
  out       \* out[c]: slots written into its descriptor addresses so far

tableVars == <<pages, activeChannel, used, before>>
vars == <<tableVars, regs, starting, failed, currPage, slot, load, out>>

Slots == 0 .. TableSize - 1
Last == TableSize - 1
NoSlot == -1
Running(c) == load[c] # <<>> /\ starting # c

Init == /\ pages = [s \in Slots |-> NoPage]
        /\ activeChannel = [s \in Slots |-> 0]
        /\ used = {}
        /\ before = Intact
        /\ regs = [s \in Slots |-> NoPage]
        /\ starting = NoChannel /\ failed = FALSE
        /\ currPage = NoPage /\ slot = NoSlot
        /\ load = [c \in Channels |-> <<>>]
        /\ out = [c \in Channels |-> <<>>]
-----------------------------------------------------------------------------
(* altera_pcie.h                                                           *)

\* The lowest free slot, -1 if there is none.
IsFirstZero(s) == \/ used = Slots /\ s = NoSlot
                  \/ /\ s \in Slots \ used
                     /\ \A t \in Slots \ used : s <= t

\* The test "slot >= 16" does not catch -1.  pages[-1] is the word before the
\* table; active_channel[-1] is the top byte of the last page, which a channel
\* number other than 0 changes; 1 << -1 sets none of the 16 bits kept of it.
PageAlloc(p, c, s) ==
  \/ /\ s # NoSlot
     /\ pages' = [pages EXCEPT ![s] = p]
     /\ activeChannel' = [activeChannel EXCEPT ![s] = c]
     /\ used' = used \cup {s}
     /\ UNCHANGED before
  \/ /\ s = NoSlot
     /\ before' = p
     /\ pages' = [pages EXCEPT ![Last] = IF c = 0 THEN @ ELSE Garbled]
     /\ UNCHANGED <<activeChannel, used>>

SlotsOf(c) == {s \in used : activeChannel[s] = c}

PageFind(p, c) == {s \in SlotsOf(c) : pages[s] = p}

\* Mutant: the channel of a slot is not compared.
PageFreeAll(c) ==
  /\ pages' = [s \in Slots |-> IF s \in used THEN NoPage ELSE pages[s]]
  /\ activeChannel' = [s \in Slots |-> 0]
  /\ used' = {}
  /\ UNCHANGED before

PageFreeByChannel(c) ==
  /\ pages' = [s \in Slots |-> IF s \in SlotsOf(c) THEN NoPage ELSE pages[s]]
  /\ activeChannel' = [s \in Slots |-> IF s \in SlotsOf(c) THEN 0
                                                           ELSE activeChannel[s]]
  /\ used' = used \ SlotsOf(c)
  /\ UNCHANGED before
-----------------------------------------------------------------------------
(* dma_start                                                               *)

\* translate_descriptor_link_addr with a slot to spare.
TranslateLink(c, w) ==
  /\ starting = NoChannel
  /\ load[c] = <<>>
  /\ \E s \in Slots : /\ IsFirstZero(s)
                      /\ PageAlloc(w[1], c, s)
                      /\ out' = [out EXCEPT ![c] = <<s>>]
  /\ starting' = c
  /\ load' = [load EXCEPT ![c] = w]
  /\ currPage' = NoPage /\ slot' = NoSlot
  /\ UNCHANGED <<regs, failed>>

\* The same with a full table: -ENOSPC, and the cleanup of dma_execute finds
\* nothing of this channel to free.
LinkNoSpace(c, w) ==
  /\ starting = NoChannel
  /\ load[c] = <<>>
  /\ IsFirstZero(NoSlot)
  /\ PageAlloc(w[1], c, NoSlot)
  /\ UNCHANGED <<regs, starting, failed, currPage, slot, load, out>>

NextPage == load[starting][Len(out[starting]) + 1]
Translating == /\ starting # NoChannel
               /\ ~failed
               /\ Len(out[starting]) < Len(load[starting])

\* One descriptor of translate_descriptor_rw_addr: on the page that was last
\* allocated the slot of the previous descriptor is kept,
KeepSlot ==
  /\ Translating
  /\ NextPage = currPage
  /\ out' = [out EXCEPT ![starting] = Append(@, slot)]
  /\ UNCHANGED <<tableVars, regs, starting, failed, currPage, slot, load>>

\* a page the channel has a slot for is looked up, and curr_page stays,
FindSlot ==
  /\ Translating
  /\ NextPage # currPage
  /\ \E s \in PageFind(NextPage, starting) :
       /\ \A t \in PageFind(NextPage, starting) : s <= t
       /\ slot' = s
       /\ out' = [out EXCEPT ![starting] = Append(@, s)]
  /\ UNCHANGED <<tableVars, regs, starting, failed, currPage, load>>

NewPage == /\ Translating
           /\ NextPage # currPage
           /\ PageFind(NextPage, starting) = {}

\* and a new page gets a new slot.
AllocSlot ==
  /\ NewPage
  /\ \E s \in Slots : /\ IsFirstZero(s)
                      /\ PageAlloc(NextPage, starting, s)
                      /\ slot' = s
                      /\ out' = [out EXCEPT ![starting] = Append(@, s)]
  /\ currPage' = NextPage
  /\ UNCHANGED <<regs, starting, failed, load>>


\* Mutant: the -1 of the allocation is not noticed.
DataNoSpaceUnnoticed ==
  /\ NewPage
  /\ IsFirstZero(NoSlot)
  /\ PageAlloc(NextPage, starting, NoSlot)
  /\ slot' = NoSlot
  /\ out' = [out EXCEPT ![starting] = Append(@, NoSlot)]
  /\ currPage' = NextPage
  /\ UNCHANGED <<regs, starting, failed, load>>

\* A new page and no slot: -ENOSPC.
DataNoSpace ==
  /\ NewPage
  /\ IsFirstZero(NoSlot)
  /\ PageAlloc(NextPage, starting, NoSlot)
  /\ failed' = TRUE
  /\ UNCHANGED <<regs, starting, currPage, slot, load, out>>

\* DMA_TO_DEVICE, found out after the descriptor page has its slot: -ENOSYS.
NotImplemented ==
  /\ Translating
  /\ Len(out[starting]) = 1
  /\ failed' = TRUE
  /\ UNCHANGED <<tableVars, regs, starting, currPage, slot, load, out>>

\* Mutant: a failed start keeps its slots.
AbandonStartWithSlots ==
  /\ failed
  /\ starting' = NoChannel /\ failed' = FALSE
  /\ currPage' = NoPage /\ slot' = NoSlot
  /\ load' = [load EXCEPT ![starting] = <<>>]
  /\ out' = [out EXCEPT ![starting] = <<>>]
  /\ UNCHANGED <<tableVars, regs>>

\* A failed start frees every slot of the channel.
AbandonStart ==
  /\ failed
  /\ PageFreeByChannel(starting)
  /\ starting' = NoChannel /\ failed' = FALSE
  /\ currPage' = NoPage /\ slot' = NoSlot
  /\ load' = [load EXCEPT ![starting] = <<>>]
  /\ out' = [out EXCEPT ![starting] = <<>>]
  /\ UNCHANGED regs

\* set_page_translation_regs and start_dma_controller.
Program ==
  /\ starting # NoChannel /\ ~failed
  /\ Len(out[starting]) = Len(load[starting])
  /\ regs' = [s \in Slots |-> IF s \in SlotsOf(starting) THEN pages[s]
                                                         ELSE regs[s]]
  /\ starting' = NoChannel
  /\ currPage' = NoPage /\ slot' = NoSlot
  /\ UNCHANGED <<tableVars, failed, load, out>>

\* reset_dma_info of a channel that ran.
Release(c) ==
  /\ starting = NoChannel
  /\ Running(c)
  /\ PageFreeByChannel(c)
  /\ load' = [load EXCEPT ![c] = <<>>]
  /\ out' = [out EXCEPT ![c] = <<>>]
  /\ UNCHANGED <<regs, starting, failed, currPage, slot>>
-----------------------------------------------------------------------------
\* Workloads that are translated rightly.  KeepSlot compares with the page last
\* allocated but keeps the slot last used: a workload must not come back to its
\* newest page after one that was merely looked up.
IsFirst(w, i) == \A h \in 1 .. i - 1 : w[h] # w[i]

NeverReturns(w) ==
  \A i \in 2 .. Len(w), j \in 1 .. Len(w), k \in 1 .. Len(w) :
    i < j /\ j < k /\ w[k] = w[i] /\ w[j] # w[i] /\ IsFirst(w, i)
      => \E h \in i + 1 .. k : IsFirst(w, h)

Next == \/ \E c \in Channels, w \in Workloads :
             TranslateLink(c, w) \/ LinkNoSpace(c, w)
        \/ KeepSlot \/ FindSlot \/ AllocSlot \/ DataNoSpace \/ NotImplemented
        \/ AbandonStart \/ Program
        \/ \E c \in Channels : Release(c)

Spec == Init /\ [][Next]_vars
-----------------------------------------------------------------------------
(* Properties                                                              *)

\* Every variable has its type.
TypeOK ==
  /\ pages \in [Slots -> Pages \cup {NoPage, Garbled}]
  /\ activeChannel \in [Slots -> Channels \cup {0}]
  /\ used \in SUBSET Slots
  /\ before \in Pages \cup {Intact}
  /\ regs \in [Slots -> Pages \cup {NoPage, Garbled}]
  /\ starting \in Channels \cup {NoChannel}
  /\ failed \in BOOLEAN
  /\ currPage \in Pages \cup {NoPage}
  /\ slot \in Slots \cup {NoSlot}
  /\ load \in [Channels -> Workloads \cup {<<>>}]
  /\ out \in [Channels -> Seq(Slots)]

\* Every address of a running transfer leads the device to the page it was
\* made for, whatever other channels have started, failed to start or stopped
\* since.
TranslationRight ==
  \A c \in Channels : Running(c) =>
    /\ Len(out[c]) = Len(load[c])
    /\ \A i \in 1 .. Len(out[c]) : regs[out[c][i]] = load[c][i]

\* A slot in use belongs to a channel that is starting or running: no path of
\* a failed start or of a reset leaks slots.
NoSlotLeaks == \A s \in used : /\ activeChannel[s] \in Channels
                               /\ load[activeChannel[s]] # <<>>

\* Filling the table touches nothing but the table: without a slot the start
\* fails with -ENOSPC (dma.c:501) and a full mask is reported (altera_pcie.h:129).
\* No run checks it: the code does not keep it when the table is full.
NoWildWrite == before = Intact
=============================================================================
