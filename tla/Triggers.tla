------------------------------ MODULE Triggers ------------------------------
(***************************************************************************)
(* Triggers at work: schedulers, webhook deliveries, the queue sweep, a     *)
(* worker, the owner's requests and the clock, over one store and one       *)
(* queue.                                                                   *)
(***************************************************************************)
EXTENDS Firing

\* The runs triggers may fire: one for each tick of a schedule and for each
\* event a hook is sent.
FiredRuns == (Schedules \X TickTimes) \cup (Hooks \X Events)

vars == <<shared, th>>

Init == StoreInit /\ FiringInit

FireNext == \/ \E s \in Threads : FireStarts(s) \/ FireSteps(s) \/ FireFails(s)
            \/ \E s \in Deliveries : DeliverySteps(s)
            \/ \E r \in Runs : PendingForgotten(r)

Next == \/ FireNext
        \/ \E w \in Workers : WorkerNext(w)
        \/ (OwnerNext \/ Minute) /\ UNCHANGED th

Spec == Init /\ [][Next]_vars

\* The loops of schedulers, sweeps and workers never end, and a request that
\* reached a server is carried through.
Fairness ==
    /\ \A s \in Schedulers \cup Sweeps : WF_vars(FireSteps(s) \/ FireStarts(s))
    /\ \A s \in Deliveries : WF_vars(FireSteps(s) \/ DeliverySteps(s))
    /\ \A w \in Workers : WF_vars(WorkerNext(w))

FairSpec == Spec /\ Fairness

(***************************************************************************)
(* Properties                                                              *)
(***************************************************************************)
RowType == [stored : BOOLEAN, enabled : BOOLEAN, next : TickTimes \cup {0},
            gen : Nat, rotation : 0..MaxRotation, parses : BOOLEAN]

\* Every row, request, run and thread holds a value of its kind.
TriggersTypeOK ==
    /\ trig \in [Triggers -> RowType]
    /\ now \in 0..MaxNow
    /\ \A q \in Requests : rq[q].pc \in {"idle", "resume", "stop"}
    /\ made \in [Runs -> Nat]
    /\ stops \subseteq Runs
    /\ \A s \in Threads : th[s].pc \in Pcs /\ th[s].answer \in Answers

\* A run two schedulers, a sweep and a retried delivery all push is on the
\* queue or with a worker once (PUSH_ONCE): no two workers can hold it.
QueuedOnce ==
    \A r \in Runs :
        Cardinality({i \in DOMAIN queue.runs : queue.runs[i] = r}) + queue.processing[r] <= 1

\* What stop_owner's order of pause and record is for: whoever is about to push
\* the run of a fire that read its trigger before the stop's pause, the stop
\* covers that run, so the worker that claims it cancels it.
StopHolds ==
    \A s \in Threads : At(s, "push") /\ th[s].gen <= stopGen[th[s].t] => th[s].run \in stops

\* A run is held only because its trigger was paused, resumed or deleted after
\* the run was stored (gate_of, Hooked::Refused).
HeldOnlyAcrossPause ==
    \A r \in Runs : Has(log[r], {"RunCancelled"}) /\ r \notin stops =>
        ~trig[r[1]].enabled \/ trig[r[1]].gen > made[r]

\* An event answered as started or as a duplicate has had its run pushed
\* (fire_webhook): no sender is told of a run that no worker was given.
AcceptedMeansPushed ==
    \A s \in Deliveries :
        th[s].answer \in {"Started", "Duplicate"} => pushes[th[s].run] > 0

\* A step that moves a running trigger on leaves the tick's run stored, unless
\* the tick was missed and the trigger skips such ticks.
TickKept ==
    \A t \in Schedules :
       LET k == trig[t].next
       IN  /\ k # 0 /\ trig[t].enabled
           /\ trig'[t].stored /\ trig'[t].next # k /\ trig'[t].gen = trig[t].gen
           => \/ log[<<t, k>>] # <<>>
              \/ t \in SkipsMissed /\ now - k > MissedAfter

\* No tick is lost to a death between the fire and the move, or to a second
\* scheduler (scheduler.rs fire_due_trigger, store.rs advance_trigger).
NoTickLost == [][TickKept]_vars

\* Whatever failed on the way, a stored run does not wait for ever: the sweep or
\* a later fire pushes it or holds it, and a worker takes it.
StoredRunsSettle == \A r \in Runs : log[r] # <<>> ~> ~StillWaiting(log[r])

\* A due trigger is fired and moved on, or paused or deleted meanwhile.
DueTicksFire ==
    \A t \in Schedules, k \in TickTimes :
        Due(t) /\ trig[t].next = k ~> ~(Due(t) /\ trig[t].next = k)

\* Through failed calls and deaths every tick comes to its end: none is lost
\* between the fire and the move, every due one is moved on, and every stored
\* run is settled (scheduler.rs fire_due_trigger, spawner.rs settle_fire).
FiresSettle == NoTickLost /\ DueTicksFire /\ StoredRunsSettle

=============================================================================
