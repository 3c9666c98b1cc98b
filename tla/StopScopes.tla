------------------------------ MODULE StopScopes ------------------------------
(***************************************************************************)
(* The scopes of a stop: one run and the runs under it, the runs of a      *)
(* thread, or everything a principal owns.  A thread or an owner stop has  *)
(* no list of runs.  It and every run take a number from one sequence      *)
(* (gol_order), and it covers the runs numbered before it.  A number is    *)
(* taken when a row is written and its row is seen when the transaction    *)
(* commits, so a stop may be numbered after a run it cannot yet read.      *)
(*                                                                         *)
(* Requests store runs, spawners store children, triggers store fires, a   *)
(* worker runs them, and stop requests go through all of it.  The log of a *)
(* run is abstracted to its phase; the queue's own steps, leases and       *)
(* parked runs are in RunQueue.  One principal owns every run.             *)
(***************************************************************************)
EXTENDS Naturals, FiniteSets

CONSTANTS
    Runs,        \* the runs that may be stored
    NoRun,       \* no parent
    Parent,      \* [Runs -> Runs \cup {NoRun}]: the run above
    ThreadOf,    \* [Runs -> threads]: the session a run belongs to
    Source,      \* [Runs -> {"post", "child", "fire"}]: who stores it
    Requests,    \* the stop requests
    Scopes,      \* the scopes they may name: [kind, key]
    MaxResumes,  \* how often the owner resumes the trigger
    MaxFaults    \* failed store calls and requests that die

VARIABLES
    log,      \* [Runs -> phase of the run's log]
    number,   \* [Runs -> Nat]: stored_seq, 0 before the row is written
    path,     \* [Runs -> how far the run's producer is]
    queued,   \* [Runs -> BOOLEAN]: on the queue
    trigger,  \* [enabled, generation] of the trigger that fires
    read,     \* [Runs -> Nat]: the generation a fire read
    order,    \* the last number of gol_order
    stops,    \* [Scopes -> Nat]: requested_seq of the stored stop, 0 without
    req,      \* [Requests -> the state of the request]
    faults,   \* faults so far
    hist      \* history: what was there when a request or a run began

vars == <<log, number, path, queued, trigger, read, order, stops, req, faults, hist>>

\* What the store has of lineage and what the routes take for scopes: a child
\* has a run above it, of its own session, and nothing else has.
Lineage ==
    /\ NoRun \notin Runs /\ Parent \in [Runs -> Runs \cup {NoRun}]
    /\ \A r \in Runs : Source[r] = "child" <=> Parent[r] # NoRun
    /\ \A r \in Runs : Parent[r] # NoRun => ThreadOf[r] = ThreadOf[Parent[r]]
    /\ Scopes # {}
    /\ \A s \in Scopes : s.kind \in {"run", "thread", "owner"} /\ (s.kind = "run" => s.key \in Runs)

ASSUME StopAssumption == Lineage

Phases == {"none", "writing", "queued", "running", "done", "cancelled"}
Paths == {"idle", "checked", "putting", "stored", "open", "shut", "end", "refused"}
Pcs == {"idle", "pause", "number", "commit", "snapshot", "cancel", "ok", "failed", "dead"}

-----------------------------------------------------------------------------
(* The stop store. *)

Visible(r) == log[r] \notin {"none", "writing"}

Closed(rs) == \A r \in rs : Parent[r] # NoRun => Parent[r] \in rs

\* A run and the runs above it, up its lineage: the least set that has, with
\* each run, the run above it.
Chain == [r \in Runs |-> {m \in Runs : \A rs \in SUBSET Runs : r \in rs /\ Closed(rs) => m \in rs}]

\* Whether a stop of the scope is about the run itself, whichever came first.
InScope(scope, r) ==
    CASE scope.kind = "run"    -> scope.key = r
      [] scope.kind = "thread" -> scope.key = ThreadOf[r]
      [] scope.kind = "owner"  -> TRUE

\* Whether a stop numbered `stop` names the run itself.
stop_names(scope, stop, r) ==
    InScope(scope, r) /\ (scope.kind # "run" => stop > number[r])

\* Bug: a stop of a run above does not count.
OnlyNamed(r) ==
    \E s \in Scopes : Visible(r) /\ stops[s] # 0 /\ stop_names(s, stops[s], r)

\* Whether a committed stop names the run or a run above it.
stopped(r) ==
    \E m \in Chain[r], s \in Scopes :
        Visible(m) /\ stops[s] # 0 /\ stop_names(s, stops[s], m)

\* Bug: the run of a run stop, without the tree under it.
OpenRunItself(scope) ==
    {r \in Runs : log[r] \in {"queued", "running"} /\ InScope(scope, r)}

\* The open runs a stop of the scope is about, in one snapshot.
open_runs_under(scope) ==
    {r \in Runs :
        /\ log[r] \in {"queued", "running"}
        /\ CASE scope.kind = "run"    -> scope.key \in Chain[r]
             [] scope.kind = "thread" -> scope.key = ThreadOf[r]
             [] scope.kind = "owner"  -> TRUE}

-----------------------------------------------------------------------------
(* The producers of runs. *)

Fault == /\ faults < MaxFaults
         /\ faults' = faults + 1

Answered == {q \in Requests : req[q].pc \in {"ok", "failed", "dead"}}

\* What the property about spared runs compares with.
Begins(r) == hist' = [hist EXCEPT !.after[r] = Answered]

\* A request stores a run of its own.
PostBegin(r) ==
    /\ Source[r] = "post"
    /\ path[r] = "idle"
    /\ path' = [path EXCEPT ![r] = "checked"]
    /\ Begins(r)
    /\ UNCHANGED <<log, number, queued, trigger, read, order, stops, req, faults>>

\* A running parent delegates: refused under a stop, and when the store
\* cannot say whether there is one.
child_spec(r) ==
    /\ Source[r] = "child"
    /\ path[r] = "idle"
    /\ log[Parent[r]] = "running"
    /\ \/ /\ path' = [path EXCEPT ![r] = IF stopped(Parent[r]) THEN "refused" ELSE "checked"]
          /\ UNCHANGED faults
       \/ /\ Fault
          /\ path' = [path EXCEPT ![r] = "refused"]
    /\ UNCHANGED <<log, number, queued, trigger, read, order, stops, req, hist>>

\* A fire reads its trigger: it must be running.
fire(r) ==
    /\ Source[r] = "fire"
    /\ path[r] = "idle"
    /\ trigger.enabled
    /\ path' = [path EXCEPT ![r] = "checked"]
    /\ read' = [read EXCEPT ![r] = trigger.generation]
    /\ Begins(r)
    /\ UNCHANGED <<log, number, queued, trigger, order, stops, req, faults>>

\* put_run writes the row, which takes the next number ...
PutRow(r) ==
    /\ path[r] = "checked"
    /\ path' = [path EXCEPT ![r] = "putting"]
    /\ log' = [log EXCEPT ![r] = "writing"]
    /\ order' = order + 1
    /\ number' = [number EXCEPT ![r] = order + 1]
    /\ UNCHANGED <<queued, trigger, read, stops, req, faults, hist>>

\* ... and commits it with its events, or fails.  A producer that is told of a
\* failure ends the run, in case it was stored; a fire leaves it to the sweep.
PutCommit(r) ==
    /\ path[r] = "putting"
    /\ \/ /\ log' = [log EXCEPT ![r] = "queued"]
          /\ path' = [path EXCEPT ![r] = "stored"]
          /\ UNCHANGED faults
       \/ /\ Fault
          /\ \E left \in {"none"} \cup (IF Source[r] = "fire" THEN {} ELSE {"done"}) :
                 log' = [log EXCEPT ![r] = left]
          /\ path' = [path EXCEPT ![r] = "end"]
    /\ UNCHANGED <<number, queued, trigger, read, order, stops, req, hist>>

\* A posted run and a child are pushed as they are stored.  A failed push ends
\* a posted run; a child's is left to the sweep, which pushes it.
Push(r) ==
    /\ Source[r] # "fire"
    /\ path[r] = "stored"
    /\ path' = [path EXCEPT ![r] = "end"]
    /\ \/ /\ queued' = [queued EXCEPT ![r] = TRUE]
          /\ UNCHANGED <<log, faults>>
       \/ /\ Source[r] = "post"
          /\ Fault
          /\ log' = [log EXCEPT ![r] = IF @ = "cancelled" THEN @ ELSE "done"]
          /\ UNCHANGED queued
    /\ UNCHANGED <<number, trigger, read, order, stops, req, hist>>

\* The gate of a fire: open while its trigger runs as the fire read it.
gate_of(r) ==
    IF trigger.enabled /\ trigger.generation = read[r] THEN "open" ELSE "shut"

\* The fire, or the sweep for a fire that died, reads the gate of a waiting
\* run; a run that no longer waits is left.
SettleGate(r) ==
    /\ Source[r] = "fire"
    /\ path[r] = "stored"
    /\ path' = [path EXCEPT ![r] = IF log[r] = "queued" THEN gate_of(r) ELSE "end"]
    /\ UNCHANGED <<log, number, queued, trigger, read, order, stops, req, faults, hist>>

\* Open: the run is pushed.  Shut: it is held, cancelled and never pushed.  A
\* gate that cannot tell and a cancel that fails change nothing: the sweep
\* tries again.
settle_fire(r) ==
    /\ \/ /\ path[r] = "open"
          /\ queued' = [queued EXCEPT ![r] = TRUE]
          /\ path' = [path EXCEPT ![r] = "end"]
          /\ UNCHANGED log
       \/ /\ path[r] = "shut"
          /\ log[r] = "queued"
          /\ log' = [log EXCEPT ![r] = "cancelled"]
          /\ UNCHANGED <<queued, path>>
    /\ UNCHANGED <<number, trigger, read, order, stops, req, faults, hist>>

\* The owner resumes the trigger.
Resume ==
    /\ ~trigger.enabled
    /\ trigger.generation <= MaxResumes
    /\ trigger' = [enabled |-> TRUE, generation |-> trigger.generation + 1]
    /\ UNCHANGED <<log, number, path, queued, read, order, stops, req, faults, hist>>

-----------------------------------------------------------------------------
(* The worker. *)

\* A claimed run is asked for a stop before it is scheduled.  A store that
\* cannot say is taken as no stop.
Claim(r) ==
    /\ queued[r]
    /\ queued' = [queued EXCEPT ![r] = FALSE]
    /\ \/ /\ log[r] # "queued"
          /\ UNCHANGED <<log, faults>>
       \/ /\ log[r] = "queued"
          /\ log' = [log EXCEPT ![r] = IF stopped(r) THEN "cancelled" ELSE "running"]
          /\ UNCHANGED faults
       \/ /\ log[r] = "queued"
          /\ Fault
          /\ log' = [log EXCEPT ![r] = "running"]
    /\ UNCHANGED <<number, path, trigger, read, order, stops, req, hist>>

\* Bug: a run that started is not asked again.
NoBoundary(r) == FALSE /\ UNCHANGED vars

\* At a step boundary a covered run ends cancelled.
Boundary(r) ==
    /\ log[r] = "running"
    /\ stopped(r)
    /\ log' = [log EXCEPT ![r] = "cancelled"]
    /\ UNCHANGED <<number, path, queued, trigger, read, order, stops, req, faults, hist>>

\* A run whose step was its last ends.
Finish(r) ==
    /\ log[r] = "running"
    /\ log' = [log EXCEPT ![r] = "done"]
    /\ UNCHANGED <<number, path, queued, trigger, read, order, stops, req, faults, hist>>

-----------------------------------------------------------------------------
(* Stop requests. *)

Step(q, pc) == req' = [req EXCEPT ![q].pc = pc]

\* The run, or the root of the thread or one of its open runs, must be there.
Found(scope) ==
    CASE scope.kind = "run"    -> Visible(scope.key)
      [] scope.kind = "thread" ->
            \/ \E r \in Runs : Visible(r) /\ ThreadOf[r] = scope.key /\ Parent[r] = NoRun
            \/ open_runs_under(scope) # {}
      [] scope.kind = "owner"  -> TRUE

\* stop_run, stop_thread and stop_owner, up to the first write: an owner's
\* triggers are paused first.
StopBegin(q, scope) ==
    /\ req[q].pc = "idle"
    /\ Found(scope)
    /\ req' = [req EXCEPT ![q].pc = IF scope.kind = "owner" THEN "pause" ELSE "number",
                          ![q].scope = scope]
    /\ hist' = [hist EXCEPT !.seen[q] = {r \in Runs : Visible(r)}]
    /\ UNCHANGED <<log, number, path, queued, trigger, read, order, stops, faults>>

\* A pause that failed does not keep the stop from going on.
pause_triggers(q) ==
    /\ req[q].pc = "pause"
    /\ \/ /\ trigger' = [trigger EXCEPT !.enabled = FALSE]
          /\ Step(q, "number")
          /\ UNCHANGED faults
       \/ /\ Fault
          /\ req' = [req EXCEPT ![q].pc = "number", ![q].bad = TRUE]
          /\ UNCHANGED trigger
    /\ hist' = [hist EXCEPT !.fired[q] = {r \in Runs : read[r] # 0}]
    /\ UNCHANGED <<log, number, path, queued, read, order, stops>>

\* The stop's row takes its number; a second stop of the scope waits for the
\* row.  A failed statement answers 503.
PutStop(q) ==
    /\ req[q].pc = "number"
    /\ \/ /\ \A p \in Requests : req[p].pc = "commit" => req[p].scope # req[q].scope
          /\ order' = order + 1
          /\ req' = [req EXCEPT ![q].pc = "commit", ![q].number = order + 1]
          /\ UNCHANGED faults
       \/ /\ Fault
          /\ Step(q, "failed")
          /\ UNCHANGED order
    /\ UNCHANGED <<log, number, path, queued, trigger, read, stops, hist>>

\* It replaces the earlier stop of its scope.
put_stop(q) ==
    /\ req[q].pc = "commit"
    /\ stops' = [stops EXCEPT ![req[q].scope] = req[q].number]
    /\ Step(q, "snapshot")
    /\ UNCHANGED <<log, number, path, queued, trigger, read, order, faults, hist>>

\* The open runs of the scope as they are now; the queued ones are cancelled.
StopSnapshot(q) ==
    /\ req[q].pc = "snapshot"
    /\ req' = [req EXCEPT ![q].pc = "cancel",
                          ![q].open = {r \in open_runs_under(req[q].scope) : log[r] = "queued"}]
    /\ UNCHANGED <<log, number, path, queued, trigger, read, order, stops, faults, hist>>

\* One run of the snapshot: cancelled if a stop covers it and its log has not
\* moved.  A failed read or append is remembered, and the others go on.
StopCancel(q, r) ==
    /\ req[q].pc = "cancel"
    /\ r \in req[q].open
    /\ \/ /\ req' = [req EXCEPT ![q].open = @ \ {r}]
          /\ log' = [log EXCEPT ![r] = IF @ = "queued" /\ stopped(r) THEN "cancelled" ELSE @]
          /\ UNCHANGED faults
       \/ /\ Fault
          /\ req' = [req EXCEPT ![q].open = @ \ {r}, ![q].bad = TRUE]
          /\ UNCHANGED log
    /\ UNCHANGED <<number, path, queued, trigger, read, order, stops, hist>>

\* The answer: 503 when something failed on the way.
StopAnswer(q) ==
    /\ req[q].pc = "cancel"
    /\ req[q].open = {}
    /\ Step(q, IF req[q].bad THEN "failed" ELSE "ok")
    /\ UNCHANGED <<log, number, path, queued, trigger, read, order, stops, faults, hist>>

\* The server dies under the request: what was not committed is undone.
StopDies(q) ==
    /\ req[q].pc \notin {"idle", "ok", "failed", "dead"}
    /\ Fault
    /\ Step(q, "dead")
    /\ UNCHANGED <<log, number, path, queued, trigger, read, order, stops, hist>>

-----------------------------------------------------------------------------

Init ==
    /\ log = [r \in Runs |-> "none"]
    /\ number = [r \in Runs |-> 0]
    /\ path = [r \in Runs |-> "idle"]
    /\ queued = [r \in Runs |-> FALSE]
    /\ trigger = [enabled |-> TRUE, generation |-> 1]
    /\ read = [r \in Runs |-> 0]
    /\ order = 0
    /\ stops = [s \in Scopes |-> 0]
    /\ req = [q \in Requests |-> [pc |-> "idle", scope |-> CHOOSE s \in Scopes : TRUE,
                                  number |-> 0, open |-> {}, bad |-> FALSE]]
    /\ faults = 0
    /\ hist = [after |-> [r \in Runs |-> {}],
               seen  |-> [q \in Requests |-> {}],
               fired |-> [q \in Requests |-> {}]]

Produce(r) ==
    \/ PutRow(r) \/ PutCommit(r) \/ Push(r) \/ SettleGate(r) \/ settle_fire(r)
Work(r) == Claim(r) \/ Boundary(r)
Stop(q) ==
    \/ pause_triggers(q) \/ PutStop(q) \/ put_stop(q) \/ StopSnapshot(q)
    \/ \E r \in Runs : StopCancel(q, r)
    \/ StopAnswer(q)

Next ==
    \/ \E r \in Runs : PostBegin(r) \/ child_spec(r) \/ fire(r) \/ Finish(r)
    \/ \E r \in Runs : Produce(r) \/ Work(r)
    \/ \E q \in Requests, s \in Scopes : StopBegin(q, s)
    \/ \E q \in Requests : Stop(q) \/ StopDies(q)
    \/ Resume

Spec == Init /\ [][Next]_vars

\* A run being stored goes on (the sweep takes over from a producer that
\* died), and a worker's loop claims what is queued and reaches the next
\* boundary of what runs.  Requests owe nothing: one may die anywhere.
FairSpec ==
    /\ Spec
    /\ \A r \in Runs : WF_vars(Produce(r)) /\ WF_vars(Claim(r)) /\ WF_vars(Boundary(r))

-----------------------------------------------------------------------------
(* Properties. *)

TypeOK ==
    /\ log \in [Runs -> Phases]
    /\ number \in [Runs -> 0..order]
    /\ path \in [Runs -> Paths]
    /\ queued \in [Runs -> BOOLEAN]
    /\ trigger \in [enabled : BOOLEAN, generation : 1..(MaxResumes + 1)]
    /\ read \in [Runs -> 0..(MaxResumes + 1)]
    /\ order \in 0..(Cardinality(Runs) + Cardinality(Requests))
    /\ stops \in [Scopes -> 0..order]
    /\ req \in [Requests -> [pc : Pcs, scope : Scopes, number : 0..order,
                             open : SUBSET Runs, bad : BOOLEAN]]
    /\ faults \in 0..MaxFaults
    /\ hist \in [after : [Runs -> SUBSET Requests], seen : [Requests -> SUBSET Runs],
                 fired : [Requests -> SUBSET Runs]]

\* A run that was there when a stop of its scope was asked for is covered from
\* the moment the stop is recorded, and so is every run under it, one that its
\* spawner checked before the stop and stored after it too (put_stop,
\* stopped): whatever else happens meanwhile, and also when the scope had been
\* stopped before.
CoversWhatWasThere ==
    \A q \in Requests, r \in Runs :
        /\ req[q].pc \in {"snapshot", "cancel", "ok"}
        /\ Visible(r)
        /\ \E m \in Chain[r] \cap hist.seen[q] : InScope(req[q].scope, m)
        => stopped(r)

\* A stop does not reach what is asked for after it was answered: a run with no
\* parent that is covered by a stop is covered by one that was not yet
\* answered when its request or its fire began (stop_names).  New work in a
\* stopped thread runs.
SparesWhatCameAfter ==
    \A r \in Runs :
        Visible(r) /\ Parent[r] = NoRun /\ stopped(r) =>
            \E q \in Requests \ hist.after[r] :
                req[q].number # 0 /\ InScope(req[q].scope, r)

\* A run is cancelled only because a stop covers it or its gate was shut, also
\* when it was stored between a stop and the stop's snapshot of open runs.
OnlyCoveredCancelled ==
    \A r \in Runs : log[r] = "cancelled" => stopped(r) \/ path[r] = "shut"

\* A stop that answered without an error left none of the runs it found
\* waiting: each was cancelled by it or had been claimed (stop,
\* open_runs_under).
AnsweredLeavesNoneWaiting ==
    \A q \in Requests : \A r \in hist.seen[q] :
        /\ req[q].pc = "ok"
        /\ \E m \in Chain[r] : InScope(req[q].scope, m)
        => log[r] # "queued"

\* Once a stop of the owner is answered without an error, a fire that had read
\* its trigger before the pause does not bring in new work: if its run gets
\* past its gate, the stop covers it.  Resuming the trigger in between does
\* not change that (fire, gate_of, stop_owner).
QuietAfterOwnerStop ==
    \A q \in Requests :
        req[q].pc = "ok" /\ req[q].scope.kind = "owner" =>
            \A r \in hist.fired[q] :
                queued[r] \/ log[r] = "running" \/ path[r] = "open" => stopped(r)

\* What a stop is to do and what it is not: it covers what was there and all
\* that comes under it, it reaches nothing that began after its answer, and
\* nothing else is cancelled (put_stop, stopped, stop_names).
StopsAreExact == CoversWhatWasThere /\ SparesWhatCameAfter /\ OnlyCoveredCancelled

\* What an answer without an error says: nothing that was found still waits
\* (stop, open_runs_under), and no fire from before an owner's pause brings in
\* work the stop does not cover (stop_owner, gate_of).
AnsweredStopsHold == AnsweredLeavesNoneWaiting /\ QuietAfterOwnerStop

\* A covered run ends, wherever the stop found it and also when the request
\* that recorded the stop died: queued runs are cancelled by the stop or by the
\* claim, running ones at a boundary.
CoveredRunsEnd ==
    \A r \in Runs :
        (Visible(r) /\ stopped(r)) ~> (log[r] \in {"cancelled", "done"})

-----------------------------------------------------------------------------
(* A small instance: a posted run and its child, in one thread, and a fire  *)
(* of a trigger; stops of the run, of the thread and of everything.         *)

Some == {"r1", "r2", "f"}

SomeSource == [r \in Some |-> CASE r = "r1" -> "post" [] r = "r2" -> "child" [] r = "f" -> "fire"]
SomeParent == [r \in Some |-> IF r = "r2" THEN "r1" ELSE "none"]
SomeThread == [r \in Some |-> IF r = "f" THEN "none" ELSE "t"]
SomeScopes == {[kind |-> "run", key |-> "r1"], [kind |-> "thread", key |-> "t"],
               [kind |-> "owner", key |-> "me"]}
=============================================================================
