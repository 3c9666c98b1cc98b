----------------------------- MODULE MCRunCases -----------------------------
(***************************************************************************)
(* The run queue in several small cases at once: instances of RunQueue     *)
(* that differ in who takes part and in their bounds.  The variable case   *)
(* says which of them a behaviour belongs to and never changes, so TLC     *)
(* explores them side by side.                                             *)
(***************************************************************************)
EXTENDS Naturals, TLC

CONSTANTS r1, r2, p1, p2, w0, w1, w2, d0, d1, d2, NoRun, NoLease,
          Cases    \* the cases of this run: Races or Endings

VARIABLES queue, log, rows, stops, faults, pr, late, wk, expiries, dl, st, sw, case

vars == <<queue, log, rows, stops, faults, pr, late, wk, expiries, dl, st, sw, case>>

(***************************************************************************)
(* Who races for a run.                                                    *)
(***************************************************************************)
\* Asks of an agent, and two workers, one of which may lose its lease.
Mail == [name |-> "mail", runs |-> {r1}, producers |-> {p1}, children |-> {},
         workers |-> {w1, w2}, couriers |-> {d0}, kinds |-> {"MessageSent"},
         answerable |-> {}, tries |-> 1, stoppable |-> {}, decisions |-> 1,
         deliveries |-> 2, reloads |-> 1, faults |-> 0, expiries |-> 1,
         hostile |-> FALSE]

\* Two asks, one start allowed, and two couriers that move the log under the
\* worker.
Asks == [Mail EXCEPT !.name = "asks", !.workers = {w0}, !.couriers = {d1, d2},
                     !.decisions = 2, !.deliveries = 1, !.reloads = 3, !.expiries = 0]

\* Two questions, and two answers of the user at once.
Users == [Asks EXCEPT !.name = "users", !.kinds = {"UserAsked"}, !.answerable = {r1},
                      !.tries = 2, !.reloads = 1, !.expiries = 1]

\* A question, a stop and two workers.
Stops == [Mail EXCEPT !.name = "stops", !.kinds = {"UserAsked"}, !.stoppable = {r1},
                      !.deliveries = 1]

\* A question, its answer and a stop.
Meets == [Stops EXCEPT !.name = "meets", !.workers = {w0}, !.answerable = {r1},
                       !.tries = 2]

\* A child that is asked for twice; both requests may die.
Child == [Mail EXCEPT !.name = "child", !.producers = {p1, p2}, !.children = {p1, p2},
                      !.workers = {w0}, !.couriers = {}, !.kinds = {},
                      !.faults = 2, !.expiries = 0]

Races == {Mail, Asks, Users, Stops, Meets, Child}

(***************************************************************************)
(* What must come to an end.                                               *)
(***************************************************************************)
\* A run with an ask to wait on, a fault and a lost lease.
Waiting == [Mail EXCEPT !.name = "waiting", !.runs = {r1, r2}, !.workers = {w0},
                        !.faults = 1]

\* A stopped run, and a user who need not answer.
Stopped == [Waiting EXCEPT !.name = "stopped", !.kinds = {"UserAsked"},
                           !.answerable = {r1}, !.stoppable = {r1}, !.expiries = 0]

\* r1 can never be loaded, and r2 panics at every decision.
Hostile == [Waiting EXCEPT !.name = "hostile", !.producers = {p1, p2}, !.kinds = {},
                           !.reloads = 0, !.faults = 0, !.expiries = 0, !.hostile = TRUE]

Endings == {Waiting, Stopped, Hostile}

(***************************************************************************)
(* The specification of a case.                                            *)
(***************************************************************************)
ProducedIn(c) ==
    [p \in c.producers |-> IF c.hostile /\ p = p2 THEN r2 ELSE r1]

Of(c) == INSTANCE RunQueue WITH
    Runs <- c.runs, Producers <- c.producers, Children <- c.children,
    ProducedRun <- ProducedIn(c), Workers <- c.workers, Couriers <- c.couriers,
    AskKinds <- c.kinds, Answerable <- c.answerable, MaxTries <- c.tries,
    Stoppable <- c.stoppable, MaxDecisions <- c.decisions,
    MaxDeliveries <- c.deliveries, Reloads <- c.reloads, MaxFaults <- c.faults,
    MaxExpiries <- c.expiries, Forgettable <- {},
    Unloadable <- IF c.hostile THEN {r1} ELSE {},
    Poison <- IF c.hostile THEN {r2} ELSE {}

In(c) == case = c.name /\ UNCHANGED case

Next == \E c \in Cases : In(c) /\ Of(c)!Next

Spec == (\E c \in Cases : case = c.name /\ Of(c)!Init) /\ [][Next]_vars

\* The fairness RunQueue states, in the case at hand.  The reaper's is asked
\* of r1 only: in the hostile case nothing is left to it.
Fairness ==
    LET noProducer == <<wk, expiries, dl, st, sw>>
        noWorker   == <<pr, late, dl, st, sw>>
        noCourier  == <<pr, late, wk, expiries, st, sw>>
        noStopper  == <<pr, late, wk, expiries, dl, sw>>
        noSweeper  == <<pr, late, wk, expiries, dl, st>>
    IN  /\ \A p \in {p1, p2} :
             WF_vars(\E c \in Cases : /\ In(c) /\ p \in c.producers
                                      /\ Of(c)!ProducerSteps(p) /\ UNCHANGED noProducer)
        /\ WF_vars(\E c \in Cases : In(c) /\ Of(c)!WorkerSteps(w0) /\ UNCHANGED noWorker)
        /\ \A r \in {r1, r2} :
             WF_vars(\E c \in Cases : In(c) /\ Of(c)!AbandonedLeaseExpires(r) /\ UNCHANGED noWorker)
        /\ WF_vars(\E c \in Cases : In(c) /\ Of(c)!CourierCarries(d0) /\ UNCHANGED noCourier)
        /\ SF_vars(\E c \in Cases : In(c) /\ Of(c)!SweepParked(d0, r1) /\ UNCHANGED noCourier)
        /\ SF_vars(\E c \in Cases : In(c) /\ Of(c)!AskIsDue(d0, r1, 1) /\ UNCHANGED noCourier)
        /\ WF_vars(\E c \in Cases : In(c) /\ Of(c)!StopperSteps /\ UNCHANGED noStopper)
        /\ WF_vars(\E c \in Cases : In(c) /\ Of(c)!ReapExpired /\ UNCHANGED noSweeper)
        /\ SF_vars(\E c \in Cases : In(c) /\ Of(c)!ListPending(r1) /\ UNCHANGED noSweeper)
        /\ WF_vars(\E c \in Cases : In(c) /\ Of(c)!SweeperSteps /\ UNCHANGED noSweeper)

FairSpec == Spec /\ Fairness

\* In a case with two workers, or two couriers, they are alike.
Alike == Permutations({w1, w2}) \cup Permutations({d1, d2})

(***************************************************************************)
(* Properties                                                              *)
(***************************************************************************)
\* One end, one ladder, one start, and nothing between an ask and its answer,
\* however many workers, couriers and stops write the log from what they read
\* of it earlier (worker.rs run_from, deliverer.rs deliver, http.rs stop); and
\* of two answers of the user to one question one is stored (http.rs
\* answer_question appends only onto the log it read).
LogsKeepTheirOrder ==
    /\ \A c \in Cases : case = c.name => Of(c)!LogWellFormed
    /\ case = Users.name => Of(Users)!AnswerOnlyWhileOpen

\* No order of request, park, answer, stop and wake strands a run: a stored
\* run that has not ended is on a list that leads to a worker, also when two
\* requests for a child race and die (spawner.rs settle_existing), and one that
\* is parked on an answered ask, or under a stop, has a thread on its way to
\* wake it (worker.rs Done::ack).
NoRunIsStranded ==
    \A c \in Cases : case = c.name => Of(c)!NothingLost /\ Of(c)!NoLostWakeup

\* Waiting twice, with couriers that move the log under the worker, uses up no
\* start of a run that is allowed one (queue.rs PARK, worker.rs RELOADS).
WaitsUseNoStart == case = Asks.name => Of(Asks)!NoFalseExhaustion

\* What must end, ends: a stored run, through one fault, one lost lease and an
\* ask to wait on; a stopped run, also when its user never answers and the stop
\* request dies half way; and a run that panics at every decision, beside one
\* that can never be loaded (worker.rs work_forever, reap_forever).
WhatMustEndEnds ==
    LET r == IF case = Hostile.name THEN r2 ELSE r1
    IN  (IF case = Stopped.name THEN r \in stops ELSE log[r] # <<>>)
            ~> Of(Waiting)!Ended(log[r])
=============================================================================
