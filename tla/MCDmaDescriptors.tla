-------------------------- MODULE MCDmaDescriptors --------------------------
(* Instances of DmaDescriptors for TLC.                                     *)
EXTENDS DmaDescriptors

\* Page = 2: whole pages, merged pages longer than MaxTransfer, a buffer that ends
\* inside a page, and buffers that begin inside one.
SmallMappings == {[bounds |-> s, off |-> 0] : s \in {<<0, 14>>, <<0, 6, 8>>, <<0, 2, 6>>, <<0, 2, 4, 5>>}}
                   \cup {[bounds |-> s, off |-> 1] : s \in {<<0, 1, 3, 4>>, <<0, 1, 5, 9>>}}

D(p, l, i) == [pos |-> p, len |-> l, irq |-> i]

\* One inside a range, two of which the second leaves it, none.
SmallLists == {<<D(0, 1, TRUE)>>, <<D(0, 1, FALSE), D(1, 2, TRUE)>>, <<>>}
=============================================================================
