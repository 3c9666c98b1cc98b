------------------------------ MODULE RunQueue ------------------------------
(***************************************************************************)
(* The run queue at work: producers, workers, couriers of answers, a stop   *)
(* request and the reaper's loop, interleaved call by call over one Redis   *)
(* queue and one run store.                                                 *)
(***************************************************************************)
EXTENDS Producer, Worker, AskDelivery, StopRequest, Sweeper

vars == <<shared, pr, late, wk, expiries, dl, st, sw>>

\* The threads other than the producers, the workers, ...
noProducer == <<wk, expiries, dl, st, sw>>
noWorker   == <<pr, late, dl, st, sw>>
noCourier  == <<pr, late, wk, expiries, st, sw>>
noStopper  == <<pr, late, wk, expiries, dl, sw>>
noSweeper  == <<pr, late, wk, expiries, dl, st>>

Init == /\ SharedInit /\ ProducerInit /\ WorkerInit
        /\ CourierInit /\ StopperInit /\ SweeperInit

ProducerNext ==
    /\ \/ \E p \in Producers : ProducerSteps(p) \/ ProducerFaults(p)
       \/ \E r \in Runs : PendingForgotten(r)
    /\ UNCHANGED noProducer

WorkerNext ==
    /\ \/ \E w \in Workers : WorkerSteps(w) \/ WorkerFaults(w)
       \/ \E r \in Runs : AbandonedLeaseExpires(r) \/ LiveLeaseExpires(r)
    /\ UNCHANGED noWorker

CourierNext ==
    /\ \E d \in Couriers : CourierStarts(d) \/ CourierCarries(d) \/ CourierFails(d)
    /\ UNCHANGED noCourier

StopperNext ==
    /\ (\E r \in Runs : PutStop(r)) \/ StopperSteps \/ StopFails
    /\ UNCHANGED noStopper

SweeperNext ==
    /\ ReapExpired \/ (\E r \in Runs : ListPending(r)) \/ SweeperSteps \/ SweepFails
    /\ UNCHANGED noSweeper

Next == ProducerNext \/ WorkerNext \/ CourierNext \/ StopperNext \/ SweeperNext

Spec == Init /\ [][Next]_vars

(***************************************************************************)
(* Type correctness                                                        *)
(***************************************************************************)
QueueType == [runs       : Seq(Runs),
              processing : [Runs -> Nat],
              deliveries : [Runs -> Nat],
              pending    : [Runs -> PendingAge],
              parked     : [Runs -> 0..MaxDecisions],
              lease      : [Runs -> Workers \cup {NoLease}]]

WorkerType == [pc : WorkerPcs, run : Runs \cup {NoRun}, events : Seq(Event),
               batch : Seq(Event), reloads : Nat, ask : 0..MaxDecisions]

CourierType == [pc : CourierPcs, run : Runs \cup {NoRun}, ask : 0..MaxDecisions,
                leave : BOOLEAN, seen : Nat, tries : Nat]

StopperType == [pc : StopperPcs, run : Runs \cup {NoRun}, ask : 0..MaxDecisions,
                seen : Nat]

SweeperType == [pc : SweeperPcs, run : Runs \cup {NoRun}, forgotten : BOOLEAN]

\* Every variable holds a value of its kind: of all of Redis's keys, the logs,
\* the ask rows and what each thread keeps in hand.
TypeOK ==
    /\ queue \in QueueType
    /\ log \in [Runs -> Seq(Event)]
    /\ rows \in [Runs -> [AskIds -> {"none", "open", "closed"}]]
    /\ stops \subseteq Runs
    /\ faults \in Nat
    /\ pr \in [Producers -> ProducerPcs]
    /\ late \subseteq Producers
    /\ wk \in [Workers -> WorkerType]
    /\ expiries \in Nat
    /\ dl \in [Couriers -> CourierType]
    /\ st \in StopperType
    /\ sw \in SweeperType

(***************************************************************************)
(* Safety                                                                  *)
(***************************************************************************)
\* A stored run that has not ended is always on some list that brings it to a
\* worker again: pending, queued, in processing or parked.  Whoever dies, and
\* whatever two workers, a sweep and a producer do to one run at once, no run
\* is lost (queue.rs, spawner.rs enqueue, worker.rs sweep).
NothingLost == \A r \in Runs : Open(r) => Tracked(r)

\* What a producer's death leaves: a run whose producers are all done and have
\* no put under way is tracked, so a process that dies between the store and
\* the push leaves it to the sweep (spawner.rs enqueue).
DeadProducersLeaveRunToSweep ==
    \A r \in Runs :
        /\ Open(r)
        /\ \A p \in Producers : ProducedRun[p] = r => pr[p] = "done" /\ p \notin late
        => Tracked(r)

\* A leased run that has not ended has an entry in processing, so that the
\* reaper finds it when the lease runs out; CLAIM may drop a second entry of a
\* leased run for this reason only.
LeaseBacked ==
    \A r \in Runs : Open(r) /\ queue.lease[r] # NoLease => queue.processing[r] > 0

\* No run is lost now, and none is when its lease runs out: whoever dies, a
\* stored run leads to a worker, and a leased one back to the reaper.
RunsAreTracked == NothingLost /\ LeaseBacked

\* What every reader of a log relies on: one end, and it is last; one ladder
\* and one start; and between an ask and its answer no step, no other ask and
\* no completion, however many workers run from copies of the log.
LogWellFormed ==
    \A r \in Runs :
      LET l == log[r]
      IN  /\ \A i \in DOMAIN l : l[i].type \in Ends => i = Len(l)
          /\ \A i, j \in DOMAIN l :
                l[i] = l[j] /\ l[i].type \in {"RunScheduled", "RunStarted"} => i = j
          /\ \A i, j \in DOMAIN l :
                /\ i < j
                /\ l[i].type \in AskTypes
                /\ l[j].type \in DecidedTypes \cup {"StepAdvanced", "RunCompleted"}
                => \E k \in (i+1)..(j-1) : l[k] = About("Answer", l[i].ask)

\* The thread still to come that wakes r from ask a.
WillWake(r, a) ==
    \/ \E w \in Workers : /\ wk[w].run = r /\ wk[w].ask = a
                          /\ wk[w].pc \in {"recheck", "restop", "wake"}
    \/ \E d \in Couriers : /\ dl[d].run = r /\ dl[d].ask = a
                           /\ dl[d].pc \in {"mark", "wake"}
    \/ st.run = r /\ st.pc # "idle"

\* A run parked on an ask that is answered has a thread on its way that wakes
\* it, in whichever order the park, the answer and their wakes fall
\* (Done::ack's recheck after PARK).  Only a failed thread leaves it to the
\* sweep.
AnswersWake ==
    \A r \in Runs :
      LET a == queue.parked[r]
      IN  a # 0 /\ faults = 0 /\ AskState(log[r], a) = "Answered" => WillWake(r, a)

\* And so does a run that is parked while a stop covers it.
StopsWake ==
    \A r \in Runs :
      LET a == queue.parked[r]
      IN  a # 0 /\ faults = 0 /\ r \in stops /\ ~Ended(log[r]) => WillWake(r, a)

\* No wakeup is lost.
NoLostWakeup == AnswersWake /\ StopsWake

\* A run is failed for too many starts only after that many of its starts
\* really ended in a failure or a lost lease: waiting on asks, however many,
\* being queued twice, and answers that move the log under a worker use up no
\* start (PARK clears the count, RELOADS outlasts the couriers).
NoFalseExhaustion ==
    \A w \in Workers : wk[w].pc = "exhausted" => faults + expiries >= MaxDeliveries

\* An answer reaches a log only while its ask is open there: none is stored
\* twice, or after its run went on (deliverer.rs deliver).
AnswerOnlyWhileOpen ==
    \A r \in Runs : \A i, j \in DOMAIN log[r] :
        log[r][i].type = "Answer" /\ log[r][i] = log[r][j] => i = j

(***************************************************************************)
(* What a step may never do                                                *)
(***************************************************************************)
\* A stored log only grows, and an ended one not at all, whoever writes: a
\* second producer of the same run, a late put, a stale worker, a courier.
LogsOnlyGrow ==
    [][\A r \in Runs :
         /\ Len(log'[r]) >= Len(log[r])
         /\ SubSeq(log'[r], 1, Len(log[r])) = log[r]
         /\ Ended(log[r]) => log'[r] = log[r]]_vars

(***************************************************************************)
(* Liveness.  Every thread that is not at a fault goes on, Redis expires   *)
(* the leases nobody renews, the reaper's loop looks at every run again    *)
(* and again, and an ask's task ends or its deadline passes.               *)
(***************************************************************************)
Fairness ==
    /\ \A p \in Producers : WF_vars(ProducerSteps(p) /\ UNCHANGED noProducer)
    /\ \A w \in Workers : WF_vars(WorkerSteps(w) /\ UNCHANGED noWorker)
    /\ \A r \in Runs : WF_vars(AbandonedLeaseExpires(r) /\ UNCHANGED noWorker)
    /\ \A d \in Couriers : WF_vars(CourierCarries(d) /\ UNCHANGED noCourier)
    /\ \A r \in Runs : SF_vars((\E d \in Couriers : SweepParked(d, r)) /\ UNCHANGED noCourier)
    /\ \A r \in Runs : \A a \in AskIds :
          SF_vars((\E d \in Couriers : AskIsDue(d, r, a)) /\ UNCHANGED noCourier)
    /\ WF_vars(StopperSteps /\ UNCHANGED noStopper)
    /\ WF_vars(ReapExpired /\ UNCHANGED noSweeper)
    /\ \A r \in Runs : SF_vars(ListPending(r) /\ UNCHANGED noSweeper)
    /\ WF_vars(SweeperSteps /\ UNCHANGED noSweeper)

FairSpec == Spec /\ Fairness

\* A run that is stored ends, with any finite number of faults: unless the
\* store can never load it.
EveryRunEnds == \A r \in Runs \ Unloadable : Stored(r) ~> Ended(log[r])

\* A run a stop covers ends, wherever the stop found it.
StoppedRunsEnd == \A r \in Runs : r \in stops ~> Ended(log[r])
=============================================================================
