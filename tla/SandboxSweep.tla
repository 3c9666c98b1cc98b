---------------------------- MODULE SandboxSweep ----------------------------
(***************************************************************************)
(* sweep_sandboxes (worker.rs): what the host lists of turns that have      *)
(* ended is removed, then the volumes of ended Box runs of which no sandbox *)
(* was left.                                                                *)
(***************************************************************************)
EXTENDS TurnState

VARIABLE sweep

IdleSweep == [pc |-> "idle", todo |-> {}, left |-> {}]

SweepInit == sweep = IdleSweep

\* The sandboxes listed now.
SweepLists ==
    /\ sweep.pc = "idle"
    /\ sweep' = [IdleSweep EXCEPT !.pc = "boxes", !.todo = List(host)]
    /\ UNCHANGED <<shared, host, late>>

\* Mutant: the names of attempts are not taken for the server's.
SweepBoxQuick(n) ==
    /\ sweep.pc = "boxes" /\ n \in sweep.todo
    /\ host' = IF n[2] = 0 /\ Ended(log[RunOf(n)]) THEN Without(host, n) ELSE host
    /\ sweep' = [sweep EXCEPT !.todo = @ \ {n}]
    /\ UNCHANGED <<queue, log, rows, stops, faults, late>>

\* One of them.  That its run has ended does not change, so it is read with
\* the removal; a run that is open, or that the store cannot say of, is left.
SweepBox(n) ==
    /\ sweep.pc = "boxes" /\ n \in sweep.todo
    /\ \/ /\ Ended(log[RunOf(n)])
          /\ \E a \in Destroy(host, n) \cup DestroyFails(host, n) :
               /\ HostCall(Destroy(host, n), DestroyFails(host, n), a)
               /\ host' = a.host
               /\ sweep' = [sweep EXCEPT !.todo = @ \ {n}, !.left = IF a.ok THEN @ ELSE @ \cup {RunOf(n)}]
       \/ /\ IF Ended(log[RunOf(n)]) THEN Fault ELSE UNCHANGED faults
          /\ sweep' = [sweep EXCEPT !.todo = @ \ {n}, !.left = @ \cup {RunOf(n)}]
          /\ UNCHANGED host
    /\ UNCHANGED <<queue, log, rows, stops, late>>

SweepListsVolumes ==
    /\ sweep.pc = "boxes" /\ sweep.todo = {}
    /\ \/ sweep' = [sweep EXCEPT !.pc = "volumes", !.todo = ListVolumes(host)] /\ UNCHANGED faults
       \/ sweep' = IdleSweep /\ Fault
    /\ UNCHANGED <<queue, log, rows, stops, host, late>>

\* One volume: only of an ended Box run with no sandbox left by this sweep,
\* and the host still refuses while one is up.
SweepVolume(r) ==
    /\ sweep.pc = "volumes" /\ r \in sweep.todo
    /\ sweep' = [sweep EXCEPT !.todo = @ \ {r}]
    /\ IF r \notin sweep.left /\ Ended(log[r]) /\ r \in Boxes
       THEN \/ host' = RemoveVolume(host, r) /\ UNCHANGED faults
            \/ UNCHANGED host /\ Fault
       ELSE UNCHANGED <<host, faults>>
    /\ UNCHANGED <<queue, log, rows, stops, late>>

SweepEnds ==
    /\ sweep.pc = "volumes" /\ sweep.todo = {}
    /\ sweep' = IdleSweep
    /\ UNCHANGED <<shared, host, late>>

SweepSteps ==
    \/ SweepLists \/ SweepListsVolumes \/ SweepEnds
    \/ \E n \in sweep.todo : sweep.pc = "boxes" /\ SweepBox(n)
    \/ \E r \in sweep.todo : sweep.pc = "volumes" /\ SweepVolume(r)
=============================================================================
