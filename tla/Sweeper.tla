------------------------------ MODULE Sweeper -------------------------------
(***************************************************************************)
(* The reaper's loop (worker.rs `reap_forever`): the reap of expired        *)
(* leases and the sweep of pending runs, one run of it at a time.  (Its     *)
(* sweep of asks is AskDelivery's SweepParked and AskIsDue.)                *)
(***************************************************************************)
EXTENDS SharedState

VARIABLE sw

SweeperPcs == {"idle", "load", "push", "unpend"}

IdleSweeper == [pc |-> "idle", run |-> NoRun, forgotten |-> FALSE]

SweeperInit == sw = IdleSweeper

\* queue.reap
ReapExpired ==
    /\ Orphans(queue) # {}
    /\ \E order \in ReapOrders(queue) : queue' = Reap(queue, order)
    /\ UNCHANGED <<log, rows, stops, faults, sw>>

\* pending_for(forget_after), then pending_for(sweep_after): r is listed.
ListPending(r) ==
    /\ sw.pc = "idle"
    /\ queue.pending[r] # "no"
    /\ sw' = [pc |-> "load", run |-> r, forgotten |-> queue.pending[r] = "old"]
    /\ UNCHANGED shared

\* Mutant: a run not stored is taken off pending at once.
LoadPendingAtOnce ==
    LET l == log[sw.run]
    IN  /\ sw.pc = "load"
        /\ sw' = [sw EXCEPT !.pc = IF l # <<>> /\ StillWaiting(l) THEN "push" ELSE "unpend"]
        /\ UNCHANGED shared

\* A run as its producer stored it is pushed; one not stored is kept until it
\* is forgotten; any other comes off pending.
LoadPending ==
    LET l == log[sw.run]
    IN  /\ sw.pc = "load"
        /\ sw' = IF l = <<>> /\ ~sw.forgotten THEN IdleSweeper
                 ELSE [sw EXCEPT !.pc = IF l # <<>> /\ StillWaiting(l)
                                        THEN "push" ELSE "unpend"]
        /\ UNCHANGED shared

PushPending ==
    /\ sw.pc = "push"
    /\ queue' = Push(queue, sw.run)
    /\ sw' = IdleSweeper
    /\ UNCHANGED <<log, rows, stops, faults>>

UnpendPending ==
    /\ sw.pc = "unpend"
    /\ queue' = Unpend(queue, sw.run)
    /\ sw' = IdleSweeper
    /\ UNCHANGED <<log, rows, stops, faults>>

\* A call fails, applied by Redis or not, or the process dies: the entry is
\* left to the next sweep.
SweepFails ==
    /\ sw.pc # "idle"
    /\ Fault
    /\ queue' \in {queue} \cup (IF sw.pc = "push" THEN {Push(queue, sw.run)} ELSE {})
    /\ sw' = IdleSweeper
    /\ UNCHANGED <<log, rows, stops>>

SweeperSteps == LoadPending \/ PushPending \/ UnpendPending
=============================================================================
