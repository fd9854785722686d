---------------------------- MODULE MCPageTable ----------------------------
(* Instances of PageTable for TLC.                                          *)
EXTENDS PageTable, TLC

CONSTANT MaxPages   \* longest workload, the descriptor page included

AllWorkloads == UNION {[1 .. n -> Pages] : n \in 2 .. MaxPages}

\* Those that are translated rightly.
Returning == {w \in AllWorkloads : ~NeverReturns(w)}
NeverReturning == AllWorkloads \ Returning

\* Pages are interchangeable: no action or property compares them but by =.
PageSymmetry == Permutations(Pages)
=============================================================================
