---------------------------- MODULE MCTaskQueue ----------------------------
(* Instances of TaskQueue for TLC.                                         *)
EXTENDS TaskQueue, TLC

CONSTANTS r1, r2, w1, w2, w3, c1, c2, c3, k1

\* r1 may be retried, r2 may not; they do not share a target.
MCRun == {r1, r2}
MCTargetOf == [r \in MCRun |-> IF r = r1 THEN k1 ELSE NoTarget]

\* Workers are interchangeable, and so are requests.
Symmetry == Permutations(Worker) \cup Permutations(Client)
============================================================================
