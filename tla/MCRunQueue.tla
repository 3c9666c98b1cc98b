----------------------------- MODULE MCRunQueue -----------------------------
(* Small instances of the run queue. *)
EXTENDS RunQueue, TLC

CONSTANTS r1, r2, p1, p2

\* One producer for each run.
OneEach == [p \in Producers |-> IF p = p1 THEN r1 ELSE r2]

\* Every producer asks for the same run.
SameRun == [p \in Producers |-> r1]

\* Workers are alike and so are couriers.
Alike == Permutations(Workers) \cup Permutations(Couriers)
=============================================================================
