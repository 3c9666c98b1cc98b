----------------------------- MODULE TurnWorker -----------------------------
(***************************************************************************)
(* Background turns (worker.rs): a queue worker that claims one runs it in  *)
(* a sandbox of its attempt (run_turn, run_box_turn), and ends it only once *)
(* the sandboxes of every attempt up to its own are gone (end_box).  One    *)
(* action per call on Redis, the store, the host or the gateway.            *)
(*                                                                         *)
(* pc        the worker has                                                *)
(* load      claimed the run; start, found it open                         *)
(* stop      to ask for a stop (run_from); ladder, begin: to store the      *)
(*           ladder, RunStarted; stop_begun: to ask for a stop again       *)
(* fence, reread, enter   to check the lease, the log and the lease again  *)
(* provision, made, stop_made, call, called   run_box_turn                 *)
(* drop      lost its lease with a sandbox up                              *)
(* clean, destroy, confirm   the sandboxes of `todo` to remove (clean_box), *)
(*           then `end` to store                                           *)
(* gone      them all removed, and the lease to check; end, checked        *)
(* tail, failed   a turn without a sandbox: its completion or failure      *)
(***************************************************************************)
EXTENDS TurnState

CONSTANTS
    MaxDeliveries,  \* QueueTiming.max_deliveries
    Reloads,        \* RELOADS
    Stoppable,      \* the runs a client may ask to stop
    MaxExpiries     \* bound: leases that run out under a working worker

VARIABLES
    wk, expiries,
    astray   \* history: the runs a worker went on with after it had lost their lease,
             \* since it could not ask

Idle == [pc |-> "idle", run |-> NoRun, attempt |-> 0, seen |-> 0, reloads |-> 0,
         held |-> FALSE, end |-> <<>>, todo |-> {}]

WorkerInit == wk = [w \in Workers |-> Idle] /\ expiries = 0 /\ astray = {}

At(w, pc) == wk[w].pc = pc
Becomes(w, record) == wk' = [wk EXCEPT ![w] = record]
Goes(w, pc) == Becomes(w, [wk[w] EXCEPT !.pc = pc])
\* Done::ack of what the store answered; a lost lease counts as Moved.
Finishes(w, pc) == Becomes(w, [Idle EXCEPT !.pc = pc, !.run = wk[w].run])
\* The claim is dropped unacknowledged, to come back when its lease expires.
Abandons(w) == Becomes(w, Idle)

others == <<rows, stops, late, astray>>

Holds(w, answer) ==
    LET held == Renew(queue, wk[w].run, w)
    IN  \/ answer = held /\ UNCHANGED <<faults, astray>>
        \/ ~held /\ answer /\ Fault /\ astray' = astray \cup {wk[w].run}

IsBox(w) == wk[w].run \in Boxes

(***************************************************************************)
(* Claim and prepare                                                       *)
(***************************************************************************)
ClaimTurn(w) ==
    /\ At(w, "idle") /\ queue.runs # <<>>
    /\ queue' = Claim(queue, w)
    /\ IF queue.lease[Head(queue.runs)] = NoLease
       THEN Becomes(w, [Idle EXCEPT !.pc = "load", !.run = Head(queue.runs)])
       ELSE UNCHANGED wk
    /\ UNCHANGED <<log, faults, host, others>>

LoadTurn(w) ==
    LET l == log[wk[w].run]
    IN  /\ At(w, "load")
        /\ \/ /\ IF Ended(l) THEN Finishes(w, "ack")
                 ELSE Becomes(w, [wk[w] EXCEPT !.pc = "start", !.seen = Len(l)])
              /\ UNCHANGED faults
           \/ Fault /\ Finishes(w, "release")
        /\ UNCHANGED <<queue, log, host, others>>

\* The sandboxes of attempts 1 to k.
AttemptsTo(r, k) == {Name(r, i) : i \in 1..k}

\* The start is counted; past the limit the turn is failed, a Box turn once
\* every attempt's sandbox is gone.
StartTurn(w) ==
    LET r == wk[w].run
        starts == queue.deliveries[r] + 1
    IN  /\ At(w, "start")
        /\ \/ /\ queue' = Start(queue, r)
              /\ Becomes(w, IF starts <= MaxDeliveries
                            THEN [wk[w] EXCEPT !.pc = "stop", !.attempt = starts]
                            ELSE IF IsBox(w)
                            THEN [wk[w] EXCEPT !.pc = "clean", !.end = Failure,
                                               !.attempt = MaxDeliveries, !.todo = AttemptsTo(r, MaxDeliveries)]
                            ELSE [wk[w] EXCEPT !.pc = "end", !.end = Failure])
              /\ UNCHANGED faults
           \/ Fault /\ Finishes(w, "release") /\ queue' \in {queue, Start(queue, r)}
        /\ UNCHANGED <<log, host, others>>

(***************************************************************************)
(* run_from and run_turn                                                   *)
(***************************************************************************)
\* end_box with an end: the sandboxes of its own attempt and of those before.
EndBox(w, end) ==
    Becomes(w, [wk[w] EXCEPT !.pc = "clean", !.end = end,
                             !.todo = AttemptsTo(wk[w].run, wk[w].attempt)])

\* A stop covers the run: it ends, a Box turn by end_box.
StopSeen(w, pc, next) ==
    /\ At(w, pc)
    /\ \E found \in BOOLEAN :
         /\ Stopped(wk[w].run, found)
         /\ IF ~found THEN Goes(w, next)
            ELSE IF IsBox(w) THEN EndBox(w, Cancellation)
            ELSE Becomes(w, [wk[w] EXCEPT !.pc = "cancel"])
    /\ UNCHANGED <<queue, log, host, others>>

\* run_from's append: the lease is checked, then the log must be as it was
\* read; a log that moved is read again, at most Reloads times.
AppendAfter(w, pc, events, next) ==
    LET r == wk[w].run
        result == AppendResult(log[r], wk[w].seen)
        after == [wk[w] EXCEPT !.held = FALSE]
    IN  /\ At(w, pc)
        /\ \/ /\ ~wk[w].held /\ UNCHANGED log
              /\ \/ Holds(w, FALSE) /\ Finishes(w, "release")
                 \/ Holds(w, TRUE) /\ Becomes(w, [wk[w] EXCEPT !.held = TRUE])
           \/ /\ wk[w].held /\ UNCHANGED <<faults, astray>>
              /\ log' = [log EXCEPT ![r] = AppendEventsAfter(@, wk[w].seen, events)]
              /\ CASE result = "Appended" ->
                        IF next = "ack" THEN Finishes(w, "ack")
                        ELSE Becomes(w, [after EXCEPT !.pc = next, !.seen = @ + Len(events)])
                   [] result = "Moved" ->
                        IF wk[w].reloads < Reloads THEN Becomes(w, [after EXCEPT !.pc = "reload", !.reloads = @ + 1])
                        ELSE Finishes(w, "release")
                   [] OTHER -> Finishes(w, "ack")
           \/ /\ wk[w].held /\ Fault /\ UNCHANGED astray
              /\ AppendLost(r, wk[w].seen, events) /\ Abandons(w)
        /\ UNCHANGED <<queue, host, rows, stops, late>>

Reload(w) ==
    LET l == log[wk[w].run]
    IN  /\ At(w, "reload")
        /\ \/ /\ IF Ended(l) THEN Finishes(w, "ack")
                 ELSE Becomes(w, [wk[w] EXCEPT !.pc = "stop", !.seen = Len(l)])
              /\ UNCHANGED faults
           \/ Fault /\ Abandons(w)
        /\ UNCHANGED <<queue, log, host, others>>

\* What the worker has read of the log.
Read(w) == SubSeq(log[wk[w].run], 1, wk[w].seen)

LogLadder(w) ==
    /\ At(w, "ladder")
    /\ IF DispatchQueued(Read(w)) THEN AppendAfter(w, "ladder", <<Plain("RunScheduled")>>, "begin")
       ELSE Goes(w, "begin") /\ UNCHANGED <<shared, host, late, astray>>

LogStarted(w) ==
    /\ At(w, "begin")
    /\ IF ~Has(Read(w), {"RunStarted"}) THEN AppendAfter(w, "begin", <<Plain("RunStarted")>>, "stop_begun")
       ELSE Goes(w, "stop_begun") /\ UNCHANGED <<shared, host, late, astray>>

CancelTurn(w) == AppendAfter(w, "cancel", Cancellation, "ack")

\* The lease once more: a worker that lost it stops, with its own sandbox to
\* remove if it made one.
CheckLease(w, pc, next, lost) ==
    /\ At(w, pc)
    /\ \/ Holds(w, TRUE) /\ Goes(w, next)
       \/ Holds(w, FALSE) /\ IF lost = "drop" THEN Goes(w, lost) ELSE Finishes(w, lost)
    /\ UNCHANGED <<queue, log, host, rows, stops, late>>

\* Just before the gateway call: another worker may have ended the turn.
Reread(w) ==
    /\ At(w, "reread")
    /\ \/ /\ IF Ended(log[wk[w].run]) THEN Finishes(w, "ack")
             ELSE Goes(w, IF IsBox(w) THEN "enter" ELSE "tail")
          /\ UNCHANGED faults
       \/ Fault /\ Abandons(w)
    /\ UNCHANGED <<queue, log, host, others>>

(***************************************************************************)
(* A turn without a sandbox: finish_turn                                   *)
(***************************************************************************)
\* The gateway's answer is stored; a failure is stored if the store can, and
\* the turn is acknowledged only if it has ended.
FinishTurn(w) ==
    LET r == wk[w].run
    IN  /\ At(w, "tail")
        /\ \/ log' = [log EXCEPT ![r] = AppendEvents(@, Completion)] /\ Finishes(w, "ack") /\ UNCHANGED faults
           \/ Fault /\ EndLost(r, Completion) /\ Goes(w, "failed")
           \/ Fault /\ EndLost(r, Failure) /\ Goes(w, "failed")
        /\ UNCHANGED <<queue, host, others>>

FailedTurn(w) ==
    /\ At(w, "failed")
    /\ \/ UNCHANGED faults /\ IF Ended(log[wk[w].run]) THEN Finishes(w, "ack") ELSE Abandons(w)
       \/ Fault /\ Abandons(w)
    /\ UNCHANGED <<queue, log, host, others>>

(***************************************************************************)
(* A turn in a Box: run_box_turn, end_box, clean_box, drop_own             *)
(***************************************************************************)
\* A worker that is ending the turn has found n gone.
FoundGone(n) ==
    \E w \in Workers : /\ wk[w].run = RunOf(n) /\ n[2] <= wk[w].attempt
                       /\ wk[w].pc \in {"clean", "destroy", "confirm", "gone", "end"}
                       /\ n \notin wk[w].todo

ProvisionBox(w) ==
    LET n == Name(wk[w].run, wk[w].attempt)
    IN  /\ At(w, "provision")
        /\ \E a \in Provision(host, n) \cup ProvisionFails(host, n) :
             /\ HostCall(Provision(host, n), ProvisionFails(host, n), a)
             /\ host' = a.host
             /\ late' = IF n \in a.host.up /\ n \notin host.up /\ FoundGone(n)
                        THEN late \cup {n} ELSE late
             /\ IF a.ok THEN Goes(w, "made") ELSE EndBox(w, Failure)
        /\ UNCHANGED <<queue, log, rows, stops, astray>>

\* The gateway's answer; its failure ends the turn too.
CallGateway(w) ==
    /\ At(w, "call")
    /\ \/ Becomes(w, [wk[w] EXCEPT !.pc = "called", !.end = Completion]) /\ UNCHANGED faults
       \/ Becomes(w, [wk[w] EXCEPT !.pc = "called", !.end = Failure]) /\ Fault
    /\ UNCHANGED <<queue, log, host, others>>

\* The lease after the call; then end_box.
CheckCalled(w) ==
    /\ At(w, "called")
    /\ \/ Holds(w, TRUE) /\ EndBox(w, wk[w].end)
       \/ Holds(w, FALSE) /\ Goes(w, "drop")
    /\ UNCHANGED <<queue, log, host, rows, stops, late>>

DropOwn(w) ==
    LET n == Name(wk[w].run, wk[w].attempt)
    IN  /\ At(w, "drop")
        /\ \E a \in Destroy(host, n) \cup DestroyFails(host, n) :
             HostCall(Destroy(host, n), DestroyFails(host, n), a) /\ host' = a.host
        /\ Finishes(w, "release")
        /\ UNCHANGED <<queue, log, others>>

FirstOf(w) == CHOOSE m \in wk[w].todo : \A k \in wk[w].todo : m[2] <= k[2]

\* Mutant: every attempt there has been is cleaned, not only those up to its own.
CleanBoxAll(w) ==
    /\ At(w, "clean")
    /\ host' = [host EXCEPT !.up = {n \in @ : RunOf(n) # wk[w].run}]
    /\ Becomes(w, [wk[w] EXCEPT !.pc = "gone", !.todo = {}])
    /\ UNCHANGED <<queue, log, faults, others>>

\* clean_box takes the sandboxes in turn: one the host confirms gone is passed
\* over, another is destroyed and must then be confirmed gone.  A host that
\* cannot, leaves the turn open.
CleanBox(w) ==
    /\ At(w, "clean")
    /\ IF wk[w].todo = {} THEN Goes(w, "gone") /\ UNCHANGED faults
       ELSE \E confirmed \in BOOLEAN :
              /\ ConfirmsAbsent(FirstOf(w), confirmed)
              /\ IF confirmed THEN Becomes(w, [wk[w] EXCEPT !.todo = @ \ {FirstOf(w)}])
                 ELSE Goes(w, "destroy")
    /\ UNCHANGED <<queue, log, host, others>>

DestroyBox(w) ==
    /\ At(w, "destroy")
    /\ \E a \in Destroy(host, FirstOf(w)) \cup DestroyFails(host, FirstOf(w)) :
         /\ HostCall(Destroy(host, FirstOf(w)), DestroyFails(host, FirstOf(w)), a)
         /\ host' = a.host
         /\ IF a.ok THEN Goes(w, "confirm") ELSE Abandons(w)
    /\ UNCHANGED <<queue, log, others>>

ConfirmGone(w) ==
    /\ At(w, "confirm")
    /\ \E confirmed \in BOOLEAN :
         /\ ConfirmsAbsent(FirstOf(w), confirmed)
         /\ IF confirmed THEN Becomes(w, [wk[w] EXCEPT !.pc = "clean", !.todo = @ \ {FirstOf(w)}])
            ELSE Abandons(w)
    /\ UNCHANGED <<queue, log, host, others>>

\* end_box stores the end on whatever the log is; so does record.
StoreEnd(w) ==
    LET r == wk[w].run
    IN  /\ At(w, "end")
        /\ \/ log' = [log EXCEPT ![r] = AppendEvents(@, wk[w].end)] /\ Finishes(w, "ack") /\ UNCHANGED faults
           \/ Fault /\ EndLost(r, wk[w].end) /\ Abandons(w)
        /\ UNCHANGED <<queue, host, others>>

AckTurn(w) ==
    /\ wk[w].pc \in {"ack", "release"}
    /\ LET new == IF At(w, "ack") THEN Ack(queue, wk[w].run, w) ELSE Release(queue, wk[w].run, w)
       IN  \/ queue' = new /\ UNCHANGED faults
           \/ Fault /\ queue' \in {queue, new}
    /\ Abandons(w)
    /\ UNCHANGED <<log, host, others>>

(***************************************************************************)
(* Leases, deaths, the reaper, and a stop                                  *)
(***************************************************************************)
\* A lease nobody renews runs out; one under a working worker may, when its
\* heartbeats do not get through.
TurnLeaseExpires(r) ==
    /\ queue.lease[r] # NoLease
    /\ IF wk[queue.lease[r]].run = r
       THEN expiries < MaxExpiries /\ expiries' = expiries + 1 ELSE UNCHANGED expiries
    /\ queue' = LeaseExpires(queue, r)
    /\ UNCHANGED <<log, faults, host, wk, others>>

WorkerDies(w) ==
    /\ ~At(w, "idle") /\ Fault
    /\ Abandons(w)
    /\ UNCHANGED <<queue, log, host, others>>

ReapTurns ==
    /\ Orphans(queue) # {}
    /\ \E order \in ReapOrders(queue) : queue' = Reap(queue, order)
    /\ UNCHANGED <<log, faults, host, wk, expiries, others>>

\* http.rs stop, as two steps: the stop is recorded; a run still queued is
\* cancelled, on the very log it was read in, with the worker's own append.
PutStop(r) ==
    /\ r \in Stoppable /\ Stored(r) /\ r \notin stops /\ ~Ended(log[r])
    /\ stops' = stops \cup {r}
    /\ UNCHANGED <<queue, log, rows, faults, host, late, wk, expiries, astray>>

StopQueued(r) ==
    /\ r \in stops /\ StillWaiting(log[r])
    /\ log' = [log EXCEPT ![r] = AppendEvents(@, Cancellation)]
    /\ UNCHANGED <<queue, faults, host, wk, expiries, others>>

TurnSteps(w) ==
    /\ \/ LoadTurn(w) \/ StartTurn(w) \/ Reload(w) \/ AckTurn(w)
       \/ StopSeen(w, "stop", "ladder") \/ LogLadder(w) \/ LogStarted(w)
       \/ StopSeen(w, "stop_begun", "fence") \/ CancelTurn(w)
       \/ CheckLease(w, "fence", "reread", "release") \/ Reread(w)
       \/ FinishTurn(w) \/ FailedTurn(w)
       \/ CheckLease(w, "enter", "provision", "release") \/ ProvisionBox(w)
       \/ CheckLease(w, "made", "stop_made", "drop") \/ StopSeen(w, "stop_made", "call")
       \/ CallGateway(w) \/ CheckCalled(w) \/ DropOwn(w)
       \/ CleanBox(w) \/ DestroyBox(w) \/ ConfirmGone(w) \/ CheckLease(w, "gone", "end", "release") \/ StoreEnd(w)
    /\ UNCHANGED expiries
=============================================================================
