--------------------------- MODULE MCTriggerCases ---------------------------
(***************************************************************************)
(* Triggers at work in several small cases at once: instances of Triggers   *)
(* that differ in who fires, and of StopScopes for an owner who stops       *)
(* everything.  The variable case says which of them a behaviour belongs to *)
(* and never changes; the variables of the other module are Off.            *)
(***************************************************************************)
EXTENDS Naturals, TLC

CONSTANTS t1, h1, e1, q1, w1, s1, s2, d0, d1, d2, v1, p1, p2, NoLease, Off

VARIABLES case,
    log, stops, faults,                                      \* of both
    trig, now, rq, queue, made, stopGen, pushes, th,         \* Triggers
    number, path, queued, trigger, read, order, req, hist    \* StopScopes

triggerVars == <<trig, now, rq, queue, made, stopGen, pushes, th>>
scopeVars   == <<number, path, queued, trigger, read, order, req, hist>>
vars        == <<case, log, stops, faults, triggerVars, scopeVars>>

\* Two schedulers fire one schedule.
Schedule == [name |-> "schedule", schedules |-> {t1}, hooks |-> {}, ticks |-> {1, 2, 4},
             clock |-> 2, rotations |-> 0, faults |-> 0,
             schedulers |-> {s1, s2}, deliveries |-> {}, sweeps |-> {}]

\* An event is delivered twice, a call may fail and the secret is rotated.
Hook == [Schedule EXCEPT !.name = "hook", !.schedules = {}, !.hooks = {h1}, !.ticks = {1},
                         !.clock = 0, !.rotations = 1, !.faults = 1,
                         !.schedulers = {}, !.deliveries = {d1, d2}]

\* An event is delivered beside the queue's sweep.
Swept == [Hook EXCEPT !.name = "swept", !.rotations = 0, !.deliveries = {d0}, !.sweeps = {v1}]

Cases == {Schedule, Hook, Swept}

Of(c) == INSTANCE Triggers WITH
    Schedules <- c.schedules, Hooks <- c.hooks, Events <- {e1}, Requests <- {q1},
    TickTimes <- c.ticks, MaxNow <- c.clock, MaxGen <- 1, MaxRotation <- c.rotations,
    MaxTriggers <- 2, Skew <- 0, MaxFaults <- c.faults,
    Schedulers <- c.schedulers, Deliveries <- c.deliveries, Sweeps <- c.sweeps,
    MissedAfter <- 0, SkipsMissed <- {},
    Runs <- (c.schedules \X c.ticks) \cup (c.hooks \X {e1}),
    Workers <- {w1}, MaxDecisions <- 1

\* Two stops of everything, against a posted run and a fire of a trigger that
\* the owner resumes.
TwoStops == INSTANCE StopScopes WITH
    Runs <- {"post", "fire"}, NoRun <- "none",
    Source <- [r \in {"post", "fire"} |-> r],
    Parent <- [r \in {"post", "fire"} |-> "none"],
    ThreadOf <- [r \in {"post", "fire"} |-> IF r = "post" THEN "t" ELSE "none"],
    Scopes <- {[kind |-> "owner", key |-> "me"]},
    Requests <- {p1, p2}, MaxResumes <- 1, MaxFaults <- 0

ASSUME OwnerLineage == TwoStops!Lineage

NoTriggers == /\ trig = Off /\ now = Off /\ rq = Off /\ queue = Off
              /\ made = Off /\ stopGen = Off /\ pushes = Off /\ th = Off
NoScopes   == /\ number = Off /\ path = Off /\ queued = Off /\ trigger = Off
              /\ read = Off /\ order = Off /\ req = Off /\ hist = Off

Init ==
    \/ \E c \in Cases : case = c.name /\ Of(c)!Init /\ NoScopes
    \/ case = "two stops" /\ TwoStops!Init /\ NoTriggers

Next ==
    \/ \E c \in Cases : case = c.name /\ Of(c)!Next /\ UNCHANGED <<case, scopeVars>>
    \/ case = "two stops" /\ TwoStops!Next /\ UNCHANGED <<case, triggerVars>>

Spec == Init /\ [][Next]_vars

\* Schedulers are alike, and so are the two deliveries and the two stops.
Alike == Permutations({s1, s2}) \cup Permutations({d1, d2}) \cup Permutations({p1, p2})

(***************************************************************************)
(* Properties                                                              *)
(***************************************************************************)
\* Whoever else pushes it, a fired run is on the queue or with a worker once
\* (queue.rs PUSH_ONCE); and no sender is told of a run that no worker was
\* given: an event answered as started or as a duplicate was pushed (triggers.rs
\* fire_webhook).
\* A stop covers the run of every fire that read its trigger before the stop's
\* pause, fired by a scheduler, a delivery or the sweep (http.rs stop_owner);
\* and with two schedulers a run no stop covers is held only because its trigger
\* was paused, resumed or deleted after the run was stored (triggers.rs gate_of).
\* Of two owner's stops at once each covers what was there and spares what came
\* after, and once one is answered no earlier fire brings in work it does not
\* cover, though the trigger be resumed in between (http.rs stop).
FiresAreSafe ==
    /\ \A c \in Cases : case = c.name => Of(c)!QueuedOnce /\ Of(c)!StopHolds
    /\ \A c \in {Hook, Swept} : case = c.name => Of(c)!AcceptedMeansPushed
    /\ case = Schedule.name => Of(Schedule)!HeldOnlyAcrossPause
    /\ case = "two stops" => TwoStops!StopsAreExact /\ TwoStops!AnsweredStopsHold

\* Of two schedulers neither moves a trigger past a tick that was not fired,
\* however late it acts on what it read (store.rs advance_trigger).
NoTickIsSkipped == [][case = Schedule.name => Of(Schedule)!TickKept]_vars
=============================================================================
