------------------------------ MODULE MCTurns -------------------------------
(***************************************************************************)
(* Coworker turns in several small cases at once: instances of Turns with   *)
(* one turn each.  The variable case says which of them a behaviour belongs *)
(* to and never changes.                                                    *)
(***************************************************************************)
EXTENDS Naturals

CONSTANTS r1, w1, w2, q1, q2, NoRun, NoLease

VARIABLES queue, log, rows, stops, faults, host, late, opener, req, told, wk, expiries,
          astray, sweep, case

vars == <<queue, log, rows, stops, faults, host, late, opener, req, told, wk, expiries,
          astray, sweep, case>>

\* A gateway turn, run in its request.
Gateway == [name |-> "gateway", kind |-> "gateway", boxes |-> {r1}, workers |-> {},
            requests |-> {}, faults |-> 2, expiries |-> 0, stoppable |-> {}]

\* A subscription turn that two requests of the desktop race to end.
Subscription == [Gateway EXCEPT !.name = "subscription", !.kind = "subscription",
                                !.requests = {q1, q2}]

\* A background turn in a Box, with two workers, one of which may lose its
\* lease.
Box == [Gateway EXCEPT !.name = "box", !.kind = "background", !.workers = {w1, w2},
                       !.faults = 1, !.expiries = 1]

\* The same stopped, with one worker.
Stopped == [Box EXCEPT !.name = "stopped", !.workers = {w1}, !.expiries = 0,
                       !.stoppable = {r1}]

\* A background turn without a Box.
NoBox == [Box EXCEPT !.name = "no_box", !.boxes = {}, !.stoppable = {r1}]

Cases == {Gateway, Subscription, Box, Stopped, NoBox}

Of(c) == INSTANCE Turns WITH
    Runs <- {r1}, Kind <- [r \in {r1} |-> c.kind], Boxes <- c.boxes,
    Workers <- c.workers, Requests <- c.requests, EarlyRequests <- FALSE,
    MaxFaults <- c.faults, MaxExpiries <- c.expiries, Stoppable <- c.stoppable,
    MaxDeliveries <- 2, Reloads <- 1, MaxDecisions <- 1

ASSUME \A c \in Cases : Of(c)!TurnAssumption

In(c) == case = c.name /\ UNCHANGED case

Next == \E c \in Cases : In(c) /\ Of(c)!Next

\* The fairness Turns states, in the case at hand.
Fairness ==
    LET noQuick  == <<wk, expiries, astray, sweep>>
        noQueued == <<opener, req, told, sweep>>
        noSweep  == <<opener, req, told, wk, expiries, astray>>
    IN  /\ WF_vars(\E c \in Cases : In(c) /\ Of(c)!OpenSteps(r1) /\ UNCHANGED noQuick)
        /\ \A w \in {w1, w2} :
             WF_vars(\E c \in Cases :
                        /\ In(c) /\ w \in c.workers
                        /\ Of(c)!TurnSteps(w) \/ (Of(c)!ClaimTurn(w) /\ UNCHANGED expiries)
                        /\ UNCHANGED noQueued)
        /\ WF_vars(\E c \in Cases : In(c) /\ Of(c)!ReapTurns /\ UNCHANGED noQueued)
        /\ WF_vars(\E c \in Cases : /\ In(c) /\ Of(c)!TurnLeaseExpires(r1)
                                    /\ UNCHANGED expiries /\ UNCHANGED noQueued)
        /\ WF_vars(\E c \in Cases : In(c) /\ Of(c)!SweepSteps /\ UNCHANGED noSweep)

FairSpec ==
    /\ \E c \in Cases : case = c.name /\ Of(c)!Init
    /\ [][Next]_vars
    /\ Fairness

(***************************************************************************)
(* Properties                                                              *)
(***************************************************************************)
\* Of all that race to end a turn one is told that it did, and the log says the
\* same (inference.rs record_completion, fail_turn).
OneIsTold == \A c \in Cases : case = c.name => Of(c)!OneIsTold

\* No sweep, and no worker of an earlier attempt, takes away the sandbox in
\* which the holder of the lease works (worker.rs clean_box, sweep_sandboxes).
HolderKeepsItsSandbox == \A c \in Cases : case = c.name => Of(c)!HolderKeepsItsSandbox

\* A turn never ends with its sandbox up, whoever ends it and whatever failed
\* on the way (inference.rs finish_turn, fail_turn; worker.rs end_box).
TurnsEndClean == [][\A c \in Cases : case = c.name => Of(c)!EndsClean]_vars

\* A background turn ends: a death or a failing host leaves it to the next
\* delivery, and past the last one it is failed.  Of a turn that has ended no
\* sandbox and no volume stays, whoever made them and however late (worker.rs
\* run_turn, sweep_sandboxes).  A turn run in a request that dies stays open.
NothingStays ==
    LET background == case \in {Box.name, Stopped.name, NoBox.name}
        ended == Of(Gateway)!Ended(log[r1])
    IN  <>(IF background THEN log[r1] # <<>> ELSE ended)
            => <>[](ended /\ host.up = {} /\ host.volumes = {})
=============================================================================
