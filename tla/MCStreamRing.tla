--------------------------- MODULE MCStreamRing ---------------------------
(* Instances of StreamRing for TLC.                                        *)
EXTENDS StreamRing

\* A power of two, other sizes, and a ring of one; an interrupt for each descriptor,
\* for every second one, and once in a lap.
SmallRings == {[size |-> 2, every |-> 1], [size |-> 3, every |-> 1],
               [size |-> 3, every |-> 3], [size |-> 4, every |-> 2],
               [size |-> 1, every |-> 1]}
=============================================================================
