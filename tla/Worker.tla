------------------------------- MODULE Worker -------------------------------
(***************************************************************************)
(* A queue worker (worker.rs): work_one from the claim to the              *)
(* acknowledgement, one action per call it makes on Redis or the store.    *)
(*                                                                         *)
(* pc      run has                                                         *)
(* load    been claimed; start, the run is open and its start not counted  *)
(* run     a log to run from (run_from)                                    *)
(* resume  its ladder stored; the lease is checked before run_until        *)
(* bound   reached a step boundary with `batch` not stored                 *)
(* decide  everything stored, and the harness is to decide                 *)
(* send    decided to ask another agent, and no row of the ask stored      *)
(* hold    a batch to append, and the lease to check first                 *)
(* append  the lease checked                                               *)
(* ...     and what Done::ack does with the outcome                        *)
(***************************************************************************)
EXTENDS SharedState

CONSTANTS
    MaxDeliveries,   \* QueueTiming.max_deliveries
    Reloads,         \* RELOADS
    MaxExpiries,     \* bound: leases that run out under a working worker
    AskKinds,        \* the asks a decision may make, a subset of AskTypes
    Poison,          \* the runs whose harness panics whenever it decides
    Unloadable       \* the runs whose load the store always fails

ASSUME WorkerAssumption == /\ MaxDeliveries \in Nat \ {0}
                           /\ Reloads \in Nat
                           /\ MaxExpiries \in Nat
                           /\ AskKinds \subseteq AskTypes

VARIABLES wk, expiries

WorkerPcs == {"idle", "load", "start", "exhausted", "run", "resume", "bound",
              "decide", "send", "hold", "append", "reload",
              "park", "recheck", "restop", "wake", "release", "ack"}

IdleWorker == [pc |-> "idle", run |-> NoRun, events |-> <<>>, batch |-> <<>>,
               reloads |-> 0, ask |-> 0]

WorkerInit == wk = [w \in Workers |-> IdleWorker] /\ expiries = 0

Working(w, pc) == wk[w].pc = pc
Becomes(w, record) == wk' = [wk EXCEPT ![w] = record]
Goes(w, pc) == Becomes(w, [wk[w] EXCEPT !.pc = pc])
\* What the worker read and decided is dropped: only the run, and the ask it
\* waits on, matter to the acknowledgement.
Finishes(w, pc, ask) ==
    Becomes(w, [IdleWorker EXCEPT !.pc = pc, !.run = wk[w].run, !.ask = ask])
Rests(w) == Becomes(w, IdleWorker)

\* What the claim's holds closure answers: Redis saying no is the only no.
Holds(w, answer) ==
    LET held == Renew(queue, wk[w].run, w)
    IN  \/ answer = held /\ UNCHANGED faults
        \/ ~held /\ answer /\ Fault

(***************************************************************************)
(* Claim, prepare                                                          *)
(***************************************************************************)
ClaimRun(w) ==
    /\ Working(w, "idle")
    /\ queue.runs # <<>>
    /\ queue' = Claim(queue, w)
    /\ LET r == Head(queue.runs)
       IN  IF queue.lease[r] = NoLease
           THEN Becomes(w, [IdleWorker EXCEPT !.pc = "load", !.run = r])
           ELSE UNCHANGED wk
    /\ UNCHANGED <<log, rows, stops, faults, expiries>>

LoadRun(w) ==
    LET l == log[wk[w].run]
    IN  /\ Working(w, "load")
        /\ wk[w].run \notin Unloadable
        /\ IF l = <<>> \/ Ended(l)
           THEN Finishes(w, "ack", 0)
           ELSE Becomes(w, [wk[w] EXCEPT !.pc = "start", !.events = l])
        /\ UNCHANGED <<shared, expiries>>

\* store.run failed: straight back to the back of the queue, uncounted.
LoadFails(w) ==
    /\ Working(w, "load")
    /\ \/ wk[w].run \in Unloadable /\ UNCHANGED faults
       \/ wk[w].run \notin Unloadable /\ Fault
    /\ queue' = Release(queue, wk[w].run, w)
    /\ Rests(w)
    /\ UNCHANGED <<log, rows, stops, expiries>>

StartRun(w) ==
    /\ Working(w, "start")
    /\ queue' = Start(queue, wk[w].run)
    /\ IF queue'.deliveries[wk[w].run] > MaxDeliveries
       THEN Finishes(w, "exhausted", 0)
       ELSE Goes(w, "run")
    /\ UNCHANGED <<log, rows, stops, faults, expiries>>

\* The start failed, counted by Redis or not, and the claim is handed back.
StartFails(w) ==
    /\ Working(w, "start")
    /\ Fault
    /\ \E counted \in {queue, Start(queue, wk[w].run)} :
          queue' = Release(counted, wk[w].run, w)
    /\ Rests(w)
    /\ UNCHANGED <<log, rows, stops, expiries>>

\* Started too often: failed instead of run again.  No lease is checked and
\* the append is unconditional; whatever the store answers is acknowledged.
FailExhausted(w) ==
    /\ Working(w, "exhausted")
    /\ log' = [log EXCEPT ![wk[w].run] = AppendEvents(@, <<Plain("RunFailed")>>)]
    /\ Finishes(w, "ack", 0)
    /\ UNCHANGED <<queue, rows, stops, faults, expiries>>

(***************************************************************************)
(* run_from                                                                *)
(***************************************************************************)
\* A log another writer ended is acknowledged; a stopped run is cancelled,
\* unrun; a queued one is scheduled first; any other is resumed.
RunFrom(w) ==
    LET r == wk[w].run
        l == wk[w].events
    IN  /\ Working(w, "run")
        /\ IF Ended(l)
           THEN Finishes(w, "ack", 0) /\ UNCHANGED faults
           ELSE \E found \in BOOLEAN :
                  /\ Stopped(r, found)
                  /\ Becomes(w,
                       IF found
                       THEN [wk[w] EXCEPT !.pc = "hold",
                                          !.batch = <<Plain("RunCancelled")>>]
                       ELSE IF DispatchQueued(l)
                       THEN [wk[w] EXCEPT !.pc = "hold",
                                          !.batch = <<Plain("RunScheduled")>>]
                       ELSE [wk[w] EXCEPT !.pc = "resume"])
        /\ UNCHANGED <<queue, log, rows, stops, expiries>>

\* Driver::resume, then the lease: run_until may perform an effect at once.
Resume(w) ==
    /\ Working(w, "resume")
    /\ \E held \in BOOLEAN :
          /\ Holds(w, held)
          /\ IF held
             THEN Becomes(w, [wk[w] EXCEPT !.pc = "bound",
                                           !.batch = ResumeEvents(wk[w].events)])
             ELSE Finishes(w, "release", 0)
    /\ UNCHANGED <<queue, log, rows, stops, expiries>>

\* No decider can be had (jev_client): the run fails with what it was resumed
\* with.  The lease is checked as for any write.
NoDecider(w) ==
    /\ Working(w, "resume")
    /\ Becomes(w, [wk[w] EXCEPT !.pc = "hold",
                                !.batch = Append(StartEvents(wk[w].events), Plain("RunFailed"))])
    /\ UNCHANGED <<shared, expiries>>

\* The boundary of run_until: a stop cancels here, with the step's events in
\* front of it; new events are stored; then the harness waits or decides.
AtBoundary(w) ==
    LET r == wk[w].run
        waits == WaitingForMessage(wk[w].events)
    IN  /\ Working(w, "bound")
        /\ \E found \in BOOLEAN :
              /\ Stopped(r, found)
              /\ IF found
                 THEN Becomes(w, [wk[w] EXCEPT !.pc = "hold",
                                               !.batch = Append(@, Plain("RunCancelled"))])
                 ELSE IF wk[w].batch # <<>> THEN Goes(w, "hold")
                 ELSE IF waits # 0 THEN Finishes(w, "park", waits)
                 ELSE Goes(w, "decide")
        /\ UNCHANGED <<queue, log, rows, stops, expiries>>

\* Decides, and performs what was decided.  A step in the budget, or the end:
\* completed, or failed by its tool, its model, its memory, its decider or the
\* budget.  The end is not asked about at a boundary.
Decide(w) ==
    LET n == Decisions(wk[w].events)
        Does(pc, type, ask) == Becomes(w, [wk[w] EXCEPT !.pc = pc,
                                                        !.batch = <<About(type, ask)>>])
    IN  /\ Working(w, "decide")
        /\ wk[w].run \notin Poison
        /\ \/ n < MaxDecisions /\ Does("bound", "Step", 0)
           \/ n < MaxDecisions /\ "UserAsked" \in AskKinds /\ Does("bound", "UserAsked", n + 1)
           \/ /\ n < MaxDecisions /\ "MessageSent" \in AskKinds
              /\ Becomes(w, [wk[w] EXCEPT !.pc = "send", !.ask = n + 1])
           \/ \E end \in {"RunCompleted", "RunFailed"} : Does("hold", end, 0)
        /\ UNCHANGED <<shared, expiries>>

\* OwnedDeliverer::send: the row is stored once for its run and decision,
\* and a resend that asks the same gets the first row.  One that asks
\* something else at the same decision is refused, which the log says.
SendAsk(w) ==
    LET r == wk[w].run
        a == wk[w].ask
        Logs(event) == Becomes(w, [wk[w] EXCEPT !.pc = "bound", !.batch = <<event>>, !.ask = 0])
    IN  /\ Working(w, "send")
        /\ \/ /\ rows' = [rows EXCEPT ![r][a] = IF @ = "none" THEN "open" ELSE @]
              /\ Logs(About("MessageSent", a))
           \/ /\ rows[r][a] # "none"
              /\ UNCHANGED rows
              /\ Logs(Plain("Step"))
        /\ UNCHANGED <<queue, log, stops, faults, expiries>>

\* The lease is checked before every write.
CheckLease(w) ==
    /\ Working(w, "hold")
    /\ \E held \in BOOLEAN :
          /\ Holds(w, held)
          /\ IF held THEN Goes(w, "append") ELSE Finishes(w, "release", 0)
    /\ UNCHANGED <<queue, log, rows, stops, expiries>>

\* append_events_after, and what run_from and store_as_it_goes make of the
\* answer.  Moved is reloaded Reloads times, then handed back.
AppendBatch(w) ==
    LET r == wk[w].run
        seen == Len(wk[w].events)
        result == AppendResult(log[r], seen)
        events == wk[w].events \o wk[w].batch
        waits == WaitingForMessage(events)
    IN  /\ Working(w, "append")
        /\ log' = [log EXCEPT ![r] = AppendEventsAfter(@, seen, wk[w].batch)]
        /\ CASE result = "Appended" ->
                  IF Ended(events) THEN Finishes(w, "ack", 0)
                  ELSE IF waits # 0 THEN Finishes(w, "park", waits)
                  ELSE Becomes(w, [wk[w] EXCEPT
                          !.pc = IF Has(wk[w].batch, {"RunScheduled"})
                                 THEN "resume" ELSE "decide",
                          !.events = events,
                          !.batch = <<>>])
             [] result = "Moved" ->
                  IF wk[w].reloads < Reloads
                  THEN Becomes(w, [wk[w] EXCEPT !.pc = "reload", !.batch = <<>>,
                                                !.events = <<>>, !.reloads = @ + 1])
                  ELSE Finishes(w, "release", 0)
             [] OTHER -> Finishes(w, "ack", 0)
        /\ UNCHANGED <<queue, rows, stops, faults, expiries>>

Reload(w) ==
    LET l == log[wk[w].run]
    IN  /\ Working(w, "reload")
        /\ IF l = <<>>
           THEN Finishes(w, "ack", 0)
           ELSE Becomes(w, [wk[w] EXCEPT !.pc = "run", !.events = l])
        /\ UNCHANGED <<shared, expiries>>

(***************************************************************************)
(* Done::ack                                                               *)
(***************************************************************************)
\* A claim that lost its lease parks nothing and is done.
ParkRun(w) ==
    LET r == wk[w].run
    IN  /\ Working(w, "park")
        /\ queue' = Park(queue, r, w, wk[w].ask)
        /\ IF queue.lease[r] = w THEN Goes(w, "recheck") ELSE Rests(w)
        /\ UNCHANGED <<log, rows, stops, faults, expiries>>

\* Mutant: parked, the log is not read again.
RecheckNothing(w) ==
    /\ Working(w, "recheck")
    /\ Goes(w, "restop")
    /\ UNCHANGED <<shared, expiries>>

\* Parked, the log is read again: the answer may have come before the park.
Recheck(w) ==
    /\ Working(w, "recheck")
    /\ Goes(w, IF AskState(log[wk[w].run], wk[w].ask) # "Open" THEN "wake" ELSE "restop")
    /\ UNCHANGED <<shared, expiries>>

\* And so may a stop.
RecheckStop(w) ==
    /\ Working(w, "restop")
    /\ \E found \in BOOLEAN :
          /\ Stopped(wk[w].run, found)
          /\ IF found THEN Goes(w, "wake") ELSE Rests(w)
    /\ UNCHANGED <<queue, log, rows, stops, expiries>>

WakeSelf(w) ==
    /\ Working(w, "wake")
    /\ queue' = Wake(queue, wk[w].run, wk[w].ask)
    /\ Rests(w)
    /\ UNCHANGED <<log, rows, stops, faults, expiries>>

ReleaseRun(w) ==
    /\ Working(w, "release")
    /\ queue' = Release(queue, wk[w].run, w)
    /\ Rests(w)
    /\ UNCHANGED <<log, rows, stops, faults, expiries>>

AckRun(w) ==
    /\ Working(w, "ack")
    /\ queue' = Ack(queue, wk[w].run, w)
    /\ Rests(w)
    /\ UNCHANGED <<log, rows, stops, faults, expiries>>

(***************************************************************************)
(* What goes wrong                                                         *)
(***************************************************************************)
\* An error that work_one passes on, a panic it catches, or the death of the
\* process: the claim is dropped where it stands and waits out its lease.
Abandon(w) ==
    /\ ~Working(w, "idle")
    /\ Fault
    /\ Rests(w)
    /\ UNCHANGED <<queue, log, rows, stops, expiries>>

\* The harness of a poison run panics.
Panics(w) ==
    /\ Working(w, "decide")
    /\ wk[w].run \in Poison
    /\ Rests(w)
    /\ UNCHANGED <<shared, expiries>>

\* A lease nobody renews any more runs out.
AbandonedLeaseExpires(r) ==
    /\ queue.lease[r] # NoLease
    /\ wk[queue.lease[r]].run # r
    /\ queue' = LeaseExpires(queue, r)
    /\ UNCHANGED <<log, rows, stops, faults, wk, expiries>>

\* A lease runs out under a worker that is slow or cut off from Redis.
LiveLeaseExpires(r) ==
    /\ queue.lease[r] # NoLease
    /\ wk[queue.lease[r]].run = r
    /\ expiries < MaxExpiries
    /\ expiries' = expiries + 1
    /\ queue' = LeaseExpires(queue, r)
    /\ UNCHANGED <<log, rows, stops, faults, wk>>

WorkerSteps(w) ==
    \/ ClaimRun(w) \/ LoadRun(w) \/ LoadFails(w) \/ StartRun(w) \/ FailExhausted(w)
    \/ RunFrom(w) \/ Resume(w) \/ NoDecider(w) \/ AtBoundary(w) \/ Decide(w)
    \/ SendAsk(w) \/ CheckLease(w) \/ AppendBatch(w) \/ Reload(w)
    \/ ParkRun(w) \/ Recheck(w) \/ RecheckStop(w) \/ WakeSelf(w)
    \/ ReleaseRun(w) \/ AckRun(w) \/ Panics(w)

WorkerFaults(w) == StartFails(w) \/ Abandon(w)
=============================================================================
