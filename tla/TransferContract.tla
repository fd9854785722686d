-------------------------- MODULE TransferContract --------------------------
(***************************************************************************)
(* What the DMA core of the driver promises, with the mutexes, interrupts  *)
(* and work items left out: a buffer is mapped for the device, a channel   *)
(* is lent one mapped buffer, the device works on it, the device stops by  *)
(* itself or is stopped, and only then does the buffer leave the channel   *)
(* and may be unmapped.  No definition of this module stands for a line of *)
(* code: DmaTransfer is shown to implement it.                             *)
(***************************************************************************)

CONSTANTS Channels,   \* the DMA channels
          MapIds,     \* identifiers of DMA mappings
          PinnedMaps, \* mappings that exist from the start and for ever
          NoMap       \* "no mapping"

VARIABLES mapped,     \* the mappings that exist
          lent,       \* lent[c]: the mapping channel c works on, or NoMap
          phase       \* phase[c]: what becomes of it

vars == <<mapped, lent, phase>>

Phase == {"free", "prepared", "device", "done"}

Init == /\ mapped = PinnedMaps
        /\ lent = [c \in Channels |-> NoMap]
        /\ phase = [c \in Channels |-> "free"]
-----------------------------------------------------------------------------
Map(id) == /\ id \notin mapped
           /\ mapped' = mapped \cup {id}
           /\ UNCHANGED <<lent, phase>>

\* Memory goes back to its owner only when no channel works on it.
Unmap(id) == /\ id \in mapped \ PinnedMaps
             /\ \A c \in Channels : lent[c] # id
             /\ mapped' = mapped \ {id}
             /\ UNCHANGED <<lent, phase>>

\* A mapping is lent to one channel at a time.
Lend(c, id) == /\ phase[c] = "free"
               /\ id \in mapped
               /\ \A d \in Channels : lent[d] # id
               /\ lent' = [lent EXCEPT ![c] = id]
               /\ phase' = [phase EXCEPT ![c] = "prepared"]
               /\ UNCHANGED mapped

Launch(c) == /\ phase[c] = "prepared"
             /\ phase' = [phase EXCEPT ![c] = "device"]
             /\ UNCHANGED <<mapped, lent>>

DeviceFinishes(c) == /\ phase[c] = "device"
                     /\ phase' = [phase EXCEPT ![c] = "done"]
                     /\ UNCHANGED <<mapped, lent>>

\* The channel gives the mapping back; a device still working is stopped.
Release(c) == /\ phase[c] # "free"
              /\ phase' = [phase EXCEPT ![c] = "free"]
              /\ lent' = [lent EXCEPT ![c] = NoMap]
              /\ UNCHANGED mapped

Next == \/ \E id \in MapIds : Map(id) \/ Unmap(id)
        \/ \E c \in Channels, id \in MapIds : Lend(c, id)
        \/ \E c \in Channels : Launch(c) \/ DeviceFinishes(c) \/ Release(c)

Spec == Init /\ [][Next]_vars
=============================================================================
