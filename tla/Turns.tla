------------------------------- MODULE Turns --------------------------------
(***************************************************************************)
(* Coworker turns: those run in a request, those a desktop ends, those      *)
(* queued for a worker, and the sweep of the sandboxes they leave behind.   *)
(***************************************************************************)
EXTENDS QuickTurn, TurnWorker, SandboxSweep, SequencesExt

vars == <<shared, host, late, opener, req, told, wk, expiries, astray, sweep>>

Background == {r \in Runs : Kind[r] = "background"}

Init ==
    /\ queue = EmptyQueue
    /\ log = [r \in Runs |-> <<>>]
    /\ rows = [r \in Runs |-> [a \in AskIds |-> "none"]]
    /\ stops = {} /\ faults = 0
    /\ host = EmptyHost /\ late = {}
    /\ QuickInit /\ WorkerInit /\ SweepInit

Quick == /\ \/ \E r \in Runs : OpenSteps(r) \/ OpenerDies(r)
            \/ \E q \in Requests : RequestSteps(q)
            \/ \E q \in Requests, r \in Runs, wants \in {"RunCompleted", "RunFailed"} :
                 RequestEnd(q, r, wants)
         /\ UNCHANGED <<wk, expiries, astray, sweep>>

Queued == /\ \/ \E w \in Workers : (ClaimTurn(w) \/ WorkerDies(w)) /\ UNCHANGED expiries
             \/ \E w \in Workers : TurnSteps(w)
             \/ ReapTurns
             \/ \E r \in Runs : TurnLeaseExpires(r) \/ PutStop(r) \/ StopQueued(r)
          /\ UNCHANGED <<quickVars, sweep>>

Swept == SweepSteps /\ UNCHANGED <<quickVars, wk, expiries, astray>>

Next == Quick \/ Queued \/ Swept

Spec == Init /\ [][Next]_vars

\* The threads go on, a lease nobody renews runs out, and the reaper and the
\* sweep come round.
Fairness ==
    /\ WF_vars((\E r \in Runs : OpenSteps(r)) /\ UNCHANGED <<wk, expiries, astray, sweep>>)
    /\ \A w \in Workers : WF_vars((TurnSteps(w) \/ (ClaimTurn(w) /\ UNCHANGED expiries)) /\ UNCHANGED <<quickVars, sweep>>)
    /\ WF_vars(ReapTurns /\ UNCHANGED <<quickVars, sweep>>)
    /\ \A r \in Runs : WF_vars(TurnLeaseExpires(r) /\ UNCHANGED <<expiries, quickVars, sweep>>)
    /\ WF_vars(Swept)

FairSpec == Spec /\ Fairness

(***************************************************************************)
(* Properties                                                              *)
(***************************************************************************)
TypeOK ==
    /\ host.up \subseteq Runs \X (0..MaxDeliveries)
    /\ host.volumes \subseteq Boxes
    /\ late \subseteq Runs \X (1..MaxDeliveries)
    /\ \A w \in Workers : /\ wk[w].run \in Runs \cup {NoRun}
                          /\ wk[w].attempt \in 0..MaxDeliveries
                          /\ wk[w].todo \subseteq Runs \X (1..MaxDeliveries)
    /\ \A r \in Runs : \A i \in DOMAIN log[r] : log[r][i] \in Event
    /\ sweep.pc \in {"idle", "boxes", "volumes"}

\* The attempt whose worker stores an end in this step, 0 for none.
Ender(r) ==
    LET ending == {w \in Workers : wk[w].pc = "end" /\ wk[w].run = r /\ wk'[w] # wk[w]}
    IN  IF ending = {} THEN 0 ELSE wk[CHOOSE w \in ending : TRUE].attempt

\* A step that ends a turn leaves no sandbox of it up: only those of attempts
\* after the one that ended it may be, or one made after the worker that ends it
\* had found it gone.
EndsClean ==
    \A r \in Runs : ~Ended(log[r]) /\ Ended(log'[r]) =>
        \A n \in Up(r) : n \in late \/ (Ender(r) > 0 /\ n[2] > Ender(r))

TurnsEndClean == [][EndsClean]_vars

\* The sandboxes of the worker that holds the lease of an open turn, from its
\* provision through the gateway call.
InUse ==
    {Name(wk[w].run, wk[w].attempt) :
        w \in {w \in Workers : /\ wk[w].pc \in {"made", "stop_made", "call", "called"}
                               /\ Renew(queue, wk[w].run, w)
                               /\ ~Ended(log[wk[w].run])}}

\* A turn that somebody started after attempt k, and is ending though another
\* may hold its lease: it was stopped, or started too often, or the lease could
\* not be asked for.
Overtaken(r, k) ==
    /\ queue.deliveries[r] > k
    /\ r \in stops \cup astray \/ queue.deliveries[r] > MaxDeliveries

\* No sweep, and no cleaning by a worker of another attempt, takes away the
\* sandbox in which the holder of the lease works, unless the turn is overtaken.
HolderKeepsItsSandbox == \A n \in InUse : n \in host.up \/ Overtaken(n[1], n[2])

\* Of all that race to end a turn one is told that it did, and the log says
\* the same (record_completion).
OneIsTold ==
    \A r \in Runs : \A t \in told[r] :
        told[r] = {t} /\ Last(log[r]).type = t.end

\* Every background turn ends: a death or a failing host leaves it to the next
\* delivery, and past the last one it is failed.
BackgroundEnds == \A r \in Background : Stored(r) ~> Ended(log[r])

\* Of a turn that has ended no sandbox stays and no volume, whoever made them
\* and however late.
EventuallyClean ==
    \A r \in Runs : <>Ended(log[r]) => <>[](Up(r) = {} /\ r \notin host.volumes)
=============================================================================
