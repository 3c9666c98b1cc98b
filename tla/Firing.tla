------------------------------- MODULE Firing -------------------------------
(***************************************************************************)
(* The threads that fire triggers, one step per call to the store or to     *)
(* Redis: a scheduler's pass (scheduler.rs), a webhook's delivery           *)
(* (triggers.rs `fire_webhook`, http.rs `webhook_hook`) and the queue       *)
(* sweep's settling of a pending run (worker.rs `sweep`).  All end in       *)
(* spawner.rs `settle_fire`.  Workers are here only as far as they change   *)
(* what a fire reads: Worker.tla has their steps.                           *)
(***************************************************************************)
EXTENDS TriggerStore

CONSTANTS Schedulers, Deliveries, Sweeps,
          MissedAfter,   \* MISSED_AFTER_MS, in minutes
          SkipsMissed    \* the schedules whose rule for missed ticks is Skip

Threads == Schedulers \cup Deliveries \cup Sweeps

ASSUME FiringAssumption == /\ MissedAfter \in Nat
                           /\ SkipsMissed \subseteq Schedules
                           /\ Schedulers \cap Deliveries = {}
                           /\ Deliveries \cap Sweeps = {}

VARIABLE th

Pcs == {"idle", "first", "lookup", "event", "load", "read", "pend", "put",
        "settle", "gate", "push", "cancel", "drop", "unpend", "replay", "advance", "done"}

Answers == {"none", "Started", "Duplicate", "Refused", "Rejected", "Error"}

\* t: the trigger; run: what it fires; gen: the generation the fire gates on;
\* due and at: the tick and the clock a pass read; known: the event's run was
\* stored when the delivery came; why: why a run was held.
IdleThread == [pc |-> "idle", t |-> "none", run |-> <<>>, gen |-> 0, due |-> 0, at |-> 0,
               rotation |-> 0, known |-> FALSE, why |-> "none", answer |-> "none"]

FiringInit == th = [s \in Threads |-> IdleThread]

At(s, pc) == th[s].pc = pc

Goto(s, pc) == th' = [th EXCEPT ![s].pc = pc]

\* The fire is over and the scheduler goes on to move the trigger.
MoveOn(s) == th' = [th EXCEPT ![s].pc = "advance", ![s].gen = 0, ![s].why = "none"]

\* A delivery answers its sender; a sweep or a pass drops what it had in hand.
Conclude(s, answer) ==
    th' = [th EXCEPT ![s] = IF s \in Deliveries
                            THEN [IdleThread EXCEPT !.pc = "done", !.run = th[s].run,
                                                    !.answer = answer]
                            ELSE IdleThread]

(***************************************************************************)
(* A scheduler's pass.                                                     *)
(***************************************************************************)
FindUnscheduled(s, t) ==
    /\ s \in Schedulers /\ At(s, "idle")
    /\ Unscheduled(t)
    /\ th' = [th EXCEPT ![s] = [IdleThread EXCEPT !.pc = "first", !.t = t, !.at = now]]
    /\ UNCHANGED shared

\* Its first tick; a schedule that does not parse is paused.
SetFirst(s) ==
    LET t == th[s].t
    IN  /\ At(s, "first")
        /\ trig' = IF ~trig[t].parses
                   THEN [trig EXCEPT ![t] = IF @.stored THEN Paused(@) ELSE @]
                   ELSE Advanced(t, 0, FirstTick(t, th[s].at))
        /\ th' = [th EXCEPT ![s] = IdleThread]
        /\ UNCHANGED <<now, rq, queue, log, made, stops, stopGen, pushes, faults>>

Missed(due) == now - due > MissedAfter

\* A due trigger, as read; a missed tick of a trigger that skips them is not
\* fired.
FindDue(s, t) ==
    LET due == trig[t].next
    IN  /\ s \in Schedulers /\ At(s, "idle")
        /\ Due(t)
        /\ th' = [th EXCEPT ![s] =
                     [IdleThread EXCEPT !.t = t, !.due = due, !.run = <<t, due>>, !.at = now,
                          !.pc = IF Missed(due) /\ t \in SkipsMissed THEN "advance" ELSE "read"]]
        /\ UNCHANGED shared

AdvanceTrigger(s) ==
    LET x == th[s]
    IN  /\ At(s, "advance")
        /\ trig' = Advanced(x.t, x.due, FirstTick(x.t, x.at))
        /\ th' = [th EXCEPT ![s] = IdleThread]
        /\ UNCHANGED <<now, rq, queue, log, made, stops, stopGen, pushes, faults>>

(***************************************************************************)
(* A webhook's delivery.                                                   *)
(***************************************************************************)
\* A request signed with the secret of some rotation given out so far.
Deliver(s, t, e) ==
    /\ s \in Deliveries /\ At(s, "idle")
    /\ t \in Hooks /\ trig[t].stored
    /\ \E n \in 0..trig[t].rotation :
          th' = [th EXCEPT ![s] = [IdleThread EXCEPT !.pc = "lookup", !.t = t, !.run = <<t, e>>,
                                                    !.rotation = n]]
    /\ UNCHANGED shared

\* webhook_trigger and verify: the secret of today's rotation; the sizes and
\* the form of the body are refused here too.
Lookup(s) ==
    LET x == th[s]
    IN  /\ At(s, "lookup")
        /\ IF trig[x.t].stored /\ trig[x.t].rotation = x.rotation
           THEN Goto(s, "event") ELSE Conclude(s, "Rejected")
        /\ UNCHANGED shared

\* replay_of
Replay(l) ==
    IF StillWaiting(l) THEN "Waiting"
    ELSE IF Has(l, {"RunCancelled"}) /\ ~Has(l, {"RunScheduled"}) THEN "Refused"
    ELSE "Duplicate"

\* The event's run answers for it, unless it still waits; a run not stored yet
\* is fired.
ReadEvent(s) ==
    LET r == th[s].run
    IN  /\ At(s, "event")
        /\ IF log[r] = <<>> THEN Goto(s, "read")
           ELSE IF Replay(log[r]) = "Waiting"
           THEN th' = [th EXCEPT ![s].pc = "settle", ![s].gen = made[r], ![s].known = TRUE]
           ELSE Conclude(s, Replay(log[r]))
        /\ UNCHANGED shared

\* replay_now, after a settle that found the run queued or past waiting.
ReplayNow(s) ==
    LET answer == Replay(log[th[s].run])
    IN  /\ At(s, "replay")
        /\ Conclude(s, IF answer # "Waiting" THEN answer
                   ELSE IF th[s].known THEN "Duplicate" ELSE "Started")
        /\ UNCHANGED shared

(***************************************************************************)
(* The sweep of pending runs.                                              *)
(***************************************************************************)
SweepLists(s, r) ==
    /\ s \in Sweeps /\ At(s, "idle")
    /\ queue.pending[r] # "no"
    /\ th' = [th EXCEPT ![s] = [IdleThread EXCEPT !.pc = "load", !.t = r[1], !.run = r]]
    /\ UNCHANGED shared

\* Mutant: a waiting run of a trigger comes off pending like any other.
SweepUnpends(s) ==
    LET r == th[s].run
    IN  /\ At(s, "load")
        /\ IF log[r] = <<>> /\ queue.pending[r] # "old" THEN Conclude(s, "none")
           ELSE Goto(s, "unpend")
        /\ UNCHANGED shared

\* A waiting run of a trigger is settled by the generation it recorded; one not
\* stored is kept until it is forgotten; any other comes off pending.
SweepLoads(s) ==
    LET r == th[s].run
    IN  /\ At(s, "load")
        /\ IF log[r] = <<>> /\ queue.pending[r] # "old" THEN Conclude(s, "none")
           ELSE IF log[r] # <<>> /\ StillWaiting(log[r])
           THEN th' = [th EXCEPT ![s].pc = "settle", ![s].gen = made[r]]
           ELSE Goto(s, "unpend")
        /\ UNCHANGED shared

\* A pending entry no fire is about to store grows old.
PendingForgotten(r) ==
    /\ queue.pending[r] = "fresh" /\ log[r] = <<>>
    /\ \A s \in Threads : th[s].run = r => ~At(s, "put")
    /\ queue' = PendingAges(queue, r)
    /\ UNCHANGED <<trig, now, rq, log, made, stops, stopGen, pushes, faults, th>>

(***************************************************************************)
(* triggers.rs fire, and spawner.rs enqueue_fire.                          *)
(***************************************************************************)
\* Where a fire that started nothing leads: a scheduler moves the trigger on.
NothingFired(s, answer) ==
    IF s \in Schedulers THEN MoveOn(s) ELSE Conclude(s, answer)

ReadTrigger(s) ==
    LET x == th[s]
        row == trig[x.t]
    IN  /\ At(s, "read")
        /\ IF ~row.stored THEN NothingFired(s, "Rejected")
           ELSE IF ~row.enabled \/ (s \in Schedulers /\ row.next # x.due)
           THEN NothingFired(s, "Refused")
           ELSE th' = [th EXCEPT ![s].pc = "pend", ![s].gen = row.gen]
        /\ UNCHANGED shared

PendFire(s) ==
    /\ At(s, "pend")
    /\ queue' = Pend(queue, th[s].run)
    /\ Goto(s, "put")
    /\ UNCHANGED <<trig, now, rq, log, made, stops, stopGen, pushes, faults>>

\* put_run: a run stored already keeps its spec and its events.
PutFire(s) ==
    LET r == th[s].run
    IN  /\ At(s, "put")
        /\ log' = [log EXCEPT ![r] = IF @ = <<>> THEN <<Plain("RunQueued")>> ELSE @]
        /\ made' = [made EXCEPT ![r] = IF log[r] = <<>> THEN th[s].gen ELSE @]
        /\ Goto(s, "settle")
        /\ UNCHANGED <<trig, now, rq, queue, stops, stopGen, pushes, faults>>

(***************************************************************************)
(* spawner.rs settle_fire.                                                 *)
(***************************************************************************)
\* What a settle that found nothing to do returns.
Found(s) ==
    IF s \in Schedulers THEN MoveOn(s)
    ELSE IF s \in Deliveries THEN Goto(s, "replay") ELSE Conclude(s, "none")

ReadWaiting(s) ==
    /\ At(s, "settle")
    /\ Goto(s, IF StillWaiting(log[th[s].run]) THEN "gate" ELSE "unpend")
    /\ UNCHANGED shared

\* Off pending: past waiting already.
UnpendFound(s) ==
    /\ At(s, "unpend")
    /\ queue' = Unpend(queue, th[s].run)
    /\ Found(s)
    /\ UNCHANGED <<trig, now, rq, log, made, stops, stopGen, pushes, faults>>

\* Mutant: the generation is not compared.
GateOfEnabled(row, gen) == IF row.enabled THEN "Open" ELSE "Refused"

\* gate_of: open while the trigger runs at the fire's generation.
GateOf(row, gen) ==
    IF ~row.stored THEN "Rejected"
    ELSE IF row.enabled /\ row.gen = gen THEN "Open" ELSE "Refused"

ReadGate(s) ==
    LET gate == GateOf(trig[th[s].t], th[s].gen)
    IN  /\ At(s, "gate")
        /\ th' = [th EXCEPT ![s].pc = IF gate = "Open" THEN "push" ELSE "cancel",
                            ![s].why = IF gate = "Open" THEN "none" ELSE gate]
        /\ UNCHANGED shared

\* Mutant: the queue is not looked at.
PushAlways(q, r) == Push(q, r)

\* PUSH_ONCE: off pending, and queued unless it is queued or claimed.
PushOnce(q, r) == IF QueuedOrClaimed(q, r) THEN Unpend(q, r) ELSE Push(q, r)

\* The effect of the script, and whether it queued the run.
PushEffect(r) ==
    /\ queue' = PushOnce(queue, r)
    /\ pushes' = [pushes EXCEPT ![r] = IF queue'.runs # queue.runs THEN @ + 1 ELSE @]

PushFire(s) ==
    LET r == th[s].run
    IN  /\ At(s, "push")
        /\ PushEffect(r)
        /\ IF pushes'[r] = pushes[r] THEN Found(s) ELSE NothingFired(s, "Started")
        /\ UNCHANGED <<trig, now, rq, log, made, stops, stopGen, faults>>

\* Shut: the run is cancelled, whatever it has become since it was read.
CancelHeld(s) ==
    LET r == th[s].run
    IN  /\ At(s, "cancel")
        /\ log' = [log EXCEPT ![r] = AppendEvents(@, <<Plain("RunCancelled")>>)]
        /\ Goto(s, "drop")
        /\ UNCHANGED <<trig, now, rq, queue, made, stops, stopGen, pushes, faults>>

\* Off pending; if that fails the run is held all the same.
DropHeld(s) ==
    /\ At(s, "drop")
    /\ \/ queue' = Unpend(queue, th[s].run) /\ UNCHANGED faults
       \/ Fault /\ UNCHANGED queue
    /\ NothingFired(s, IF th[s].known THEN "Refused" ELSE th[s].why)
    /\ UNCHANGED <<trig, now, rq, log, made, stops, stopGen, pushes>>

\* A call fails, applied or not, or the thread dies: what is stored stays
\* stored and pending, and the trigger stays at its tick.
FireFails(s) ==
    LET r == th[s].run
    IN  /\ ~At(s, "idle") /\ ~At(s, "done")
        /\ Fault
        /\ Conclude(s, "Error")
        /\ \/ UNCHANGED <<queue, log, made, pushes>>
           \/ At(s, "push") /\ PushEffect(r) /\ UNCHANGED <<log, made>>
           \/ At(s, "pend") /\ queue' = Pend(queue, r) /\ UNCHANGED <<log, made, pushes>>
           \/ /\ At(s, "put") /\ log[r] = <<>>
              /\ log' = [log EXCEPT ![r] = <<Plain("RunQueued")>>]
              /\ made' = [made EXCEPT ![r] = th[s].gen]
              /\ UNCHANGED <<queue, pushes>>
           \/ /\ At(s, "cancel")
              /\ log' = [log EXCEPT ![r] = AppendEvents(@, <<Plain("RunCancelled")>>)]
              /\ UNCHANGED <<queue, made, pushes>>
        /\ UNCHANGED <<trig, now, rq, stops, stopGen>>

\* What a delivery does before and after the fire itself.
DeliverySteps(s) == Lookup(s) \/ ReadEvent(s) \/ ReplayNow(s)

FireSteps(s) ==
    \/ SetFirst(s) \/ AdvanceTrigger(s) \/ SweepLoads(s)
    \/ ReadTrigger(s) \/ PendFire(s) \/ PutFire(s)
    \/ ReadWaiting(s) \/ UnpendFound(s) \/ ReadGate(s)
    \/ PushFire(s) \/ CancelHeld(s) \/ DropHeld(s)

FireStarts(s) ==
    \/ \E t \in Triggers : FindUnscheduled(s, t) \/ FindDue(s, t)
    \/ \E t \in Triggers, e \in Events : Deliver(s, t, e)
    \/ \E r \in Runs : SweepLists(s, r)

(***************************************************************************)
(* A worker, as the steps that matter here: it claims, cancels what a stop  *)
(* covers or schedules it, and ends it.                                    *)
(***************************************************************************)
workerOnly == <<trig, now, rq, made, stops, stopGen, pushes, faults, th>>

Take(w) ==
    /\ \A r \in Runs : queue.lease[r] # w
    /\ queue.runs # <<>>
    /\ queue' = Claim(queue, w)
    /\ UNCHANGED <<log, workerOnly>>

Schedule(w, r) ==
    /\ queue.lease[r] = w
    /\ StillWaiting(log[r]) /\ r \notin stops
    /\ log' = [log EXCEPT ![r] = AppendEvents(@, <<Plain("RunScheduled")>>)]
    /\ UNCHANGED <<queue, workerOnly>>

Finish(w, r) ==
    /\ queue.lease[r] = w
    /\ ~StillWaiting(log[r]) \/ r \in stops
    /\ log' = [log EXCEPT ![r] = AppendEvents(@, <<Plain(IF r \in stops THEN "RunCancelled"
                                                         ELSE "RunCompleted")>>)]
    /\ queue' = Ack(queue, r, w)
    /\ UNCHANGED workerOnly

WorkerNext(w) == Take(w) \/ \E r \in Runs : Schedule(w, r) \/ Finish(w, r)
=============================================================================
