----------------------------- MODULE MCLockOrder -----------------------------
(* Instances of LockOrder for TLC.                                           *)
EXTENDS LockOrder

CONSTANTS p1, p2, q, worker, remover

\* p1 and p2 are threads of one process; p1, whose arguments are in memory, maps and
\* cancels, p2 faults, but never under tpce->mutex.  q, alone in its process, also
\* locks buffers.
TwoProcesses == [t \in {p1, p2, q, worker, remover} |->
                   IF t \in {p1, p2} THEN "p" ELSE IF t = q THEN "q" ELSE "kernel"]

SmallCalls == [t \in {p1, p2, q, worker, remover} |->
                 CASE t = p1 -> {"cancel", "map"}
                   [] t = p2 -> {"status", "event", "map", "close"}
                   [] t = q  -> {"lock_buffer", "execute", "map"}
                   [] t = worker -> {"work"}
                   [] t = remover -> {"remove"}]
=============================================================================
