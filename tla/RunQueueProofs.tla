--------------------------- MODULE RunQueueProofs ---------------------------
(***************************************************************************)
(* The run queue, in four parts, for any runs, threads and faults.         *)
(*                                                                         *)
(* Types, and no run is lost (where forgettable runs have one producer     *)
(* each).  Kept says what no step may do to any run.  Every script and     *)
(* every append is shown to keep it, from the part of IndInv that speaks   *)
(* of the thread that takes the step; that IndInv is preserved then takes  *)
(* one step for each action, and nothing about the threads that stand      *)
(* still.                                                                  *)
(*                                                                         *)
(* Logs: what a thread is about to append fits the log it read (LogInv).   *)
(*                                                                         *)
(* Wakeups: a run parked on an answered ask, or under a stop, has a thread *)
(* on its way that wakes it (WakeInv, QuestionInv).                        *)
(*                                                                         *)
(* Starts: a counted start is that of the worker under way, or ended in a  *)
(* fault, and that worker has the reloads left that the couriers may ask   *)
(* of it (StartInv).                                                       *)
(***************************************************************************)
EXTENDS RunQueue, FiniteSetTheorems, SequenceTheorems, TLAPS

(***************************************************************************)
(* The inductive invariants behind RunsAreTracked and LogWellFormed.       *)
(*                                                                         *)
(* NothingLost alone is not inductive: a thread that is about to take a    *)
(* run off a list acts on something it read several steps ago.  Each       *)
(* conjunct below says what such a thread's position still guarantees.     *)
(***************************************************************************)
\* A thread that is not idle is at work on a run.
BusyOnRuns ==
    /\ \A w \in Workers : wk[w].pc # "idle" => wk[w].run \in Runs
    /\ \A d \in Couriers : dl[d].pc # "idle" => dl[d].run \in Runs
    /\ st.pc # "idle" => st.run \in Runs
    /\ sw.pc # "idle" => sw.run \in Runs

TypeInv == TypeOK /\ BusyOnRuns

\* Only stored runs are queued, claimed, parked or leased.
QueuedAreStored ==
    \A r \in Runs : Held(r) \/ queue.lease[r] # NoLease => Stored(r)

\* A run that a worker or a courier moved on needs no pending entry.
AdvancedAreHeld ==
    \A r \in Runs : Open(r) /\ ~StillWaiting(log[r]) => Held(r)

\* Nothing will store r any more.
NeverStored(r) ==
    \A p \in Producers : ProducedRun[p] = r => pr[p] \notin {"new", "put"} /\ p \notin late

\* What a producer relies on: a run it is about to store is pending, and the
\* entry it is about to drop is not the run's last.
ProducerSafe(p) ==
    LET r == ProducedRun[p]
    IN  /\ (pr[p] = "put" \/ p \in late) /\ ~Stored(r) => queue.pending[r] # "no"
        /\ pr[p] \in {"push", "existing", "check", "unpend"} => Stored(r)
        /\ pr[p] = "unpend" /\ Open(r) => Held(r)

\* A forgotten entry is of a run nothing will store.
ForgottenInv ==
    \A r \in Runs :
        /\ queue.pending[r] = "old" /\ ~Stored(r) => NeverStored(r)
        /\ r \in Forgettable /\ queue.pending[r] # "no"
             => \A p \in Producers : ProducedRun[p] = r => pr[p] # "new"

\* What a worker relies on: its run is stored, and until it ended the run is
\* on a list, whatever became of the worker's own claim.
WorkerSafe(w) ==
    LET r == wk[w].run
    IN  wk[w].pc # "idle" =>
          /\ Stored(r)
          /\ Open(r) => Held(r)
          /\ wk[w].pc = "ack" => Ended(log[r])
          /\ wk[w].pc = "park" => wk[w].ask # 0
          /\ wk[w].pc = "run" /\ Ended(wk[w].events) => Ended(log[r])
          /\ wk[w].pc \in {"start", "resume", "bound", "decide", "send", "hold", "append"}
               => ~Ended(wk[w].events)

\* A courier about to append once found the ask in the log.
CourierSafe(d) ==
    dl[d].pc \in {"append", "reply"} =>
        Stored(dl[d].run) /\ ~StillWaiting(log[dl[d].run])

\* What the sweep read still holds when it acts on it.
SweeperSafe ==
    sw.pc # "idle" =>
      LET r == sw.run
      IN  /\ sw.pc = "push" => Stored(r)
          /\ sw.pc = "load" /\ sw.forgotten /\ ~Stored(r) => NeverStored(r)
          /\ sw.pc = "unpend" => IF Stored(r) THEN Open(r) => Held(r)
                                 ELSE NeverStored(r)

\* The inductive invariant: what keeps every run on a list also holds of each
\* thread in the middle of its work.  Whatever a producer, a worker, a courier
\* or the sweep read before it takes a run off a list is still true when it
\* does (enqueue_child, Done::ack, deliver, sweep).
IndInv == /\ TypeInv
          /\ NothingLost /\ LeaseBacked
          /\ QueuedAreStored /\ AdvancedAreHeld /\ ForgottenInv
          /\ \A p \in Producers : ProducerSafe(p)
          /\ \A w \in Workers : WorkerSafe(w)
          /\ \A d \in Couriers : CourierSafe(d)
          /\ SweeperSafe

\* No run that may be forgotten has a second producer.  create_run's ids are
\* fresh, so only a child that is asked for again forget_after later is
\* excluded.
SoleProducer ==
    \A p, o \in Producers :
        ProducedRun[p] = ProducedRun[o] /\ ProducedRun[p] \in Forgettable => p = o

(***************************************************************************)
(* The logs.  LogWellFormed is not inductive: a worker appends what it     *)
(* decided from a copy of the log, several steps after it read it.         *)
(***************************************************************************)
\* No ask of log l is open.
NoneOpen(l) == \A a \in AskIds : AskState(l, a) # "Open"

\* What LogWellFormed says of one log.
InOrder(l) ==
    /\ \A i \in DOMAIN l : l[i].type \in Ends => i = Len(l)
    /\ \A i, j \in DOMAIN l :
          l[i] = l[j] /\ l[i].type \in {"RunScheduled", "RunStarted"} => i = j
    /\ \A i, j \in DOMAIN l :
          /\ i < j
          /\ l[i].type \in AskTypes
          /\ l[j].type \in DecidedTypes \cup {"StepAdvanced", "RunCompleted"}
          => \E k \in (i+1)..(j-1) : l[k] = About("Answer", l[i].ask)

\* Asks are named by the decisions that sent them, each by its own.
AsksNamed(l) ==
    /\ \A i \in DOMAIN l : l[i].type \in AskTypes => l[i].ask \in 1..Decisions(l)
    /\ \A i, j \in DOMAIN l :
          l[i].type \in AskTypes /\ l[j].type \in AskTypes /\ l[i].ask = l[j].ask => i = j

\* An answer comes after its ask.
AnswersFollow(l) ==
    \A j \in DOMAIN l : l[j].type = "Answer" =>
        \E i \in 1..(j-1) : l[i].type \in AskTypes /\ l[i].ask = l[j].ask

\* Nothing is decided before the start, and nothing starts before the ladder.
StartedFirst(l) == /\ Has(l, DecidedTypes) => Has(l, {"RunStarted"})
                   /\ Has(l, {"RunStarted"}) => Has(l, {"RunScheduled"})

Answered(l) == {a \in AskIds : AskState(l, a) = "Answered"}
Advances(l) == {i \in DOMAIN l : l[i].type = "StepAdvanced"}

\* The step advances once for each answer, and before the next ask.
StepsInTurn(l) ==
    /\ Cardinality(Answered(l)) <= Cardinality(Advances(l)) + 1
    /\ ~NoneOpen(l) => ~StepAnswered(l)

GoodLog(l) == /\ InOrder(l) /\ AsksNamed(l) /\ AnswersFollow(l)
              /\ StartedFirst(l) /\ StepsInTurn(l)

\* A log on which the harness may decide.
Decidable(l) == NoneOpen(l) /\ Has(l, {"RunStarted"}) /\ ~StepAnswered(l)

\* When event e may follow log l.
Fits(l, e) ==
    \/ e.type \in Ends /\ (e.type = "RunCompleted" => NoneOpen(l))
    \/ e.type \in {"RunScheduled", "RunStarted"} /\ ~Has(l, {e.type})
       /\ (e.type = "RunStarted" => Has(l, {"RunScheduled"}))
    \/ e.type = "StepAdvanced" /\ Has(l, {"RunStarted"}) /\ StepAnswered(l)
    \/ e.type = "Step" /\ Decidable(l)
    \/ e.type \in AskTypes /\ Decidable(l) /\ e.ask = Decisions(l) + 1
    \/ e.type = "Answer" /\ e.ask \in AskIds /\ AskState(l, e.ask) # "Unsent"

\* What a worker may hold to append to l: one event, or one and the end that
\* a stop or a missing decider put behind it.
BatchFits(l, batch) ==
    \/ Len(batch) = 1 /\ Fits(l, batch[1]) /\ batch[1].type # "Answer"
    \/ /\ Len(batch) = 2
       /\ Fits(l, batch[1]) /\ batch[1].type \notin Ends \cup {"Answer"}
       /\ batch[2].type \in {"RunFailed", "RunCancelled"}

\* l was read off the log: it is all of it, or was before the log moved.
CopyOf(l, stored) == Len(l) <= Len(stored) /\ \A i \in DOMAIN l : stored[i] = l[i]

\* A log is written only at its end, and not after its own.
Grows(l, m) ==
    \/ m = l
    \/ ~Ended(l) /\ Len(l) < Len(m) /\ \A i \in DOMAIN l : m[i] = l[i]

\* What worker k decided fits the copy it decided from.
WorkerFits(k, stored) ==
    LET l == k.events
    IN  /\ k.pc \in {"start", "run", "resume", "bound", "decide", "send", "hold", "append"}
             => l # <<>> /\ GoodLog(l) /\ CopyOf(l, stored)
        /\ k.pc \in {"start", "resume", "bound", "decide", "send", "hold", "append"} => ~Ended(l)
        /\ k.pc = "resume" => Has(l, {"RunScheduled"})
        /\ k.pc = "bound" => \/ k.batch = <<>> /\ Has(l, {"RunStarted"}) /\ ~StepAnswered(l)
                             \/ /\ Len(k.batch) = 1 /\ Fits(l, k.batch[1])
                                /\ k.batch[1].type \notin Ends \cup {"Answer"}
        /\ k.pc \in {"decide", "send"} => Decidable(l)
        /\ k.pc = "send" => k.ask = Decisions(l) + 1 /\ k.ask \in AskIds
        /\ k.pc \in {"hold", "append"} => BatchFits(l, k.batch)

\* The ask that courier k brings an answer to is in the log.
CourierFits(k, stored) ==
    k.pc \in {"append", "reply"} => k.ask \in AskIds /\ AskState(stored, k.ask) # "Unsent"

LogInv == /\ TypeInv
          /\ \A r \in Runs : GoodLog(log[r])
          /\ \A w \in Workers : WorkerFits(wk[w], log[wk[w].run])
          /\ \A d \in Couriers : CourierFits(dl[d], log[dl[d].run])

(***************************************************************************)
(* Wakeups.  A run is parked by one worker, answered by a courier and      *)
(* stopped by a request, each of which looks at what the others did only   *)
(* once.                                                                   *)
(***************************************************************************)
\* A thread that answered ask a of run r, or that parked the run on it and has
\* yet to look for the answer.
Waker(r, a) ==
    \/ \E w \in Workers : wk[w].run = r /\ wk[w].ask = a /\ wk[w].pc \in {"recheck", "wake"}
    \/ \E d \in Couriers : dl[d].run = r /\ dl[d].ask = a /\ dl[d].pc \in {"mark", "wake"}

AnsweredAreWoken ==
    \A r \in Runs :
      LET a == queue.parked[r]
      IN  a # 0 /\ faults = 0 /\ AskState(log[r], a) = "Answered" => Waker(r, a)

WakeInv == LogInv /\ AnsweredAreWoken

\* A stop request that will find run r parked on ask a, or has and will cancel
\* it.
StopperComes(r, a) ==
    /\ st.run = r
    /\ \/ st.pc = "parked"
       \/ st.pc = "read" /\ st.ask = a
       \/ st.pc = "append" /\ st.ask = a /\ st.seen = Len(log[r])

StoppedAreWoken ==
    \A r \in Runs :
      LET a == queue.parked[r]
      IN  a # 0 /\ faults = 0 /\ r \in stops /\ ~Ended(log[r])
          => \/ Waker(r, a) \/ StopperComes(r, a)
             \/ \E w \in Workers : wk[w].run = r /\ wk[w].ask = a /\ wk[w].pc = "restop"

\* What a run is parked on, or is about to be, is in its log.
ParkedOnSent ==
    /\ \A r \in Runs : queue.parked[r] # 0 => AskState(log[r], queue.parked[r]) # "Unsent"
    /\ \A w \in Workers : wk[w].pc = "park" => AskState(log[wk[w].run], wk[w].ask) # "Unsent"

\* Where no run asks another agent: no ask has a row, no courier delivers, and
\* a user's answer is to the question open in the log it was read from.
OnlyQuestions ==
    /\ \A r \in Runs : \A a \in AskIds : rows[r][a] = "none"
    /\ \A r \in Runs : ~Has(log[r], {"MessageSent"})
    /\ \A w \in Workers : wk[w].pc # "send" /\ ~Has(wk[w].batch, {"MessageSent"})
    /\ \A d \in Couriers :
          /\ dl[d].pc \notin {"deliver", "append", "mark"}
          /\ dl[d].pc = "reply" =>
                LET l == log[dl[d].run]
                IN  dl[d].seen <= Len(l)
                    /\ (dl[d].seen = Len(l) => AskState(l, dl[d].ask) = "Open")

QuestionInv == /\ WakeInv /\ OnlyQuestions /\ AnswerOnlyWhileOpen
               /\ ParkedOnSent /\ StoppedAreWoken

(***************************************************************************)
(* The scripts of the queue                                                *)
(***************************************************************************)
\* Start counts and processing entries stay counts.
LEMMA Counters ==
    ASSUME NEW f \in [Runs -> Nat], NEW r \in Runs
    PROVE  /\ [f EXCEPT ![r] = f[r] + 1] \in [Runs -> Nat]
           /\ [f EXCEPT ![r] = OneLess(f[r])] \in [Runs -> Nat]
           /\ [f EXCEPT ![r] = 0] \in [Runs -> Nat]
BY DEF OneLess

\* The Redis keys of a queue.
LEMMA QueueFields ==
    ASSUME NEW q \in QueueType
    PROVE  /\ q.runs \in Seq(Runs)
           /\ q.processing \in [Runs -> Nat]
           /\ q.deliveries \in [Runs -> Nat]
           /\ q.pending \in [Runs -> PendingAge]
           /\ q.parked \in [Runs -> 0..MaxDecisions]
           /\ q.lease \in [Runs -> Workers \cup {NoLease}]
BY DEF QueueType

\* Every script of queue.rs takes a well-typed queue to a well-typed queue.
LEMMA ScriptTypes ==
    ASSUME NEW q \in QueueType, NEW r \in Runs
    PROVE  /\ Pend(q, r) \in QueueType
           /\ Unpend(q, r) \in QueueType
           /\ Push(q, r) \in QueueType
           /\ Start(q, r) \in QueueType
           /\ LeaseExpires(q, r) \in QueueType
           /\ PendingAges(q, r) \in QueueType
<1>1. Append(q.runs, r) \in Seq(Runs)
  BY QueueFields
<1>2. [q.pending EXCEPT ![r] = "no"] \in [Runs -> PendingAge]
  BY QueueFields DEF PendingAge
<1>3. [q.deliveries EXCEPT ![r] = q.deliveries[r] + 1] \in [Runs -> Nat]
  BY QueueFields, Counters
<1>4. [q.lease EXCEPT ![r] = NoLease] \in [Runs -> Workers \cup {NoLease}]
  BY QueueFields
<1>5. Pend(q, r) \in QueueType /\ Unpend(q, r) \in QueueType /\ PendingAges(q, r) \in QueueType
  BY DEF Pend, Unpend, PendingAges, QueueType, PendingAge
<1>6. Push(q, r) \in QueueType
  BY <1>1, <1>2 DEF Push, QueueType
<1>7. Start(q, r) \in QueueType
  BY <1>3 DEF Start, QueueType
<1>8. LeaseExpires(q, r) \in QueueType
  BY <1>4 DEF LeaseExpires, QueueType
<1> QED
  BY <1>5, <1>6, <1>7, <1>8

LEMMA WakeType ==
    ASSUME NEW q \in QueueType, NEW r \in Runs, NEW a
    PROVE  Wake(q, r, a) \in QueueType
<1>1. Append(q.runs, r) \in Seq(Runs)
  BY QueueFields
<1>2. [q.parked EXCEPT ![r] = 0] \in [Runs -> 0..MaxDecisions]
  BY QueueFields, MaxDecisionsAssumption
<1> QED
  BY <1>1, <1>2 DEF Wake, QueueType

LEMMA TokenScriptTypes ==
    ASSUME NEW q \in QueueType, NEW r \in Runs, NEW w \in Workers,
           NEW a \in 0..MaxDecisions
    PROVE  /\ Release(q, r, w) \in QueueType
           /\ Park(q, r, w, a) \in QueueType
           /\ Ack(q, r, w) \in QueueType
<1>1. Append(q.runs, r) \in Seq(Runs)
  BY QueueFields
<1>2. [q.processing EXCEPT ![r] = OneLess(q.processing[r])] \in [Runs -> Nat]
  BY QueueFields, Counters
<1>3. [q.deliveries EXCEPT ![r] = 0] \in [Runs -> Nat]
  BY QueueFields, Counters
<1>4. [q.parked EXCEPT ![r] = a] \in [Runs -> 0..MaxDecisions]
  BY QueueFields
<1>5. /\ [q.lease EXCEPT ![r] = NoLease] \in [Runs -> Workers \cup {NoLease}]
      /\ [q.lease EXCEPT ![r] = IF q.lease[r] = w THEN NoLease ELSE q.lease[r]]
            \in [Runs -> Workers \cup {NoLease}]
  BY QueueFields
<1>6. Release(q, r, w) \in QueueType
  BY <1>1, <1>2, <1>5 DEF Release, QueueType
<1>7. Park(q, r, w, a) \in QueueType
  BY <1>2, <1>3, <1>4, <1>5 DEF Park, QueueType
<1>8. Ack(q, r, w) \in QueueType
  BY <1>2, <1>3, <1>5 DEF Ack, QueueType
<1> QED
  BY <1>6, <1>7, <1>8

\* So does CLAIM on a queue with an entry to claim.
LEMMA ClaimType ==
    ASSUME NEW q \in QueueType, NEW w \in Workers, q.runs # <<>>
    PROVE  Head(q.runs) \in Runs /\ Claim(q, w) \in QueueType
<1>1. Head(q.runs) \in Runs /\ Tail(q.runs) \in Seq(Runs)
  BY QueueFields
<1>2. [q.processing EXCEPT ![Head(q.runs)] = q.processing[Head(q.runs)] + 1] \in [Runs -> Nat]
  BY <1>1, QueueFields, Counters
<1>3. [q.lease EXCEPT ![Head(q.runs)] = w] \in [Runs -> Workers \cup {NoLease}]
  BY <1>1, QueueFields
<1> QED
  BY <1>1, <1>2, <1>3 DEF Claim, QueueType

\* REAP moves finitely many entries.
LEMMA OrphansFinite ==
    ASSUME NEW q \in QueueType
    PROVE  /\ IsFiniteSet(Orphans(q))
           /\ Cardinality(Orphans(q)) \in Nat
           /\ \A e \in Orphans(q) : e[1] \in Runs
<1> DEFINE E(r) == {r} \X (1..q.processing[r])
           All == UNION {E(r) : r \in Runs}
<1>1. \A r \in Runs : IsFiniteSet(E(r))
  <2> TAKE r \in Runs
  <2>1. q.processing[r] \in Nat
    BY DEF QueueType
  <2>2. IsFiniteSet({r})
    BY FS_Singleton
  <2>3. IsFiniteSet(1..q.processing[r])
    BY <2>1, FS_Interval
  <2> QED
    BY <2>2, <2>3, FS_Product
<1>2. IsFiniteSet({E(r) : r \in Runs})
  <2> DEFINE T == {E(r) : r \in Runs}
             F == [r \in Runs |-> E(r)]
  <2>1. F \in Surjection(Runs, T)
    BY DEF Surjection
  <2> HIDE DEF T, F
  <2>2. IsFiniteSet(T)
    BY <2>1, QueueAssumption, FS_Surjection
  <2> QED BY <2>2 DEF T
<1>3. IsFiniteSet(All)
  BY <1>1, <1>2, FS_UNION
<1>4. Orphans(q) \subseteq All
  BY DEF Orphans
<1>5. IsFiniteSet(Orphans(q))
  BY <1>3, <1>4, FS_Subset
<1>6. \A e \in Orphans(q) : e[1] \in Runs
  BY DEF Orphans
<1> QED
  BY <1>5, <1>6, FS_CardinalityType

LEMMA ReapType ==
    ASSUME NEW q \in QueueType, NEW order \in ReapOrders(q)
    PROVE  /\ [i \in DOMAIN order |-> order[i][1]] \in Seq(Runs)
           /\ Reap(q, order) \in QueueType
<1> DEFINE n == Cardinality(Orphans(q))
           moved == [i \in DOMAIN order |-> order[i][1]]
<1>1. n \in Nat /\ \A e \in Orphans(q) : e[1] \in Runs
  BY OrphansFinite
<1>2. order \in [1..n -> Orphans(q)]
  BY DEF ReapOrders
<1> HIDE DEF n
<1>3. moved \in [1..n -> Runs]
  BY <1>1, <1>2
<1>4. moved \in Seq(Runs)
  BY <1>1, <1>3
<1> HIDE DEF moved
<1>5. moved \o q.runs \in Seq(Runs)
  BY <1>4 DEF QueueType
<1>6. [r \in Runs |-> IF q.lease[r] = NoLease THEN 0 ELSE q.processing[r]] \in [Runs -> Nat]
  BY QueueFields
<1>7. Reap(q, order) \in QueueType
  <2> DEFINE left == [r \in Runs |-> IF q.lease[r] = NoLease THEN 0 ELSE q.processing[r]]
  <2>1. Reap(q, order) = [q EXCEPT !.runs = moved \o q.runs, !.processing = left]
    BY DEF Reap, moved, QueueType
  <2>2. left \in [Runs -> Nat]
    BY <1>6
  <2> HIDE DEF left
  <2> QED BY <1>5, <2>1, <2>2 DEF QueueType
<1> QED
  BY <1>4, <1>7 DEF moved

\* An append to a log leaves a log.
LEMMA AppendType ==
    ASSUME NEW l \in Seq(Event), NEW events \in Seq(Event), NEW seen
    PROVE  /\ AppendEventsAfter(l, seen, events) \in Seq(Event)
           /\ AppendEvents(l, events) \in Seq(Event)
BY DEF AppendEventsAfter, AppendEvents

\* The events the server records.
LEMMA EventTypes ==
    /\ \A t \in Types : Plain(t) \in Event
    /\ \A t \in Types, a \in 0..MaxDecisions : About(t, a) \in Event
BY MaxDecisionsAssumption DEF Plain, About, Event

LEMMA CountTypes ==
    ASSUME NEW l \in Seq(Event)
    PROVE  Decisions(l) \in Nat /\ WaitingForMessage(l) \in 0..MaxDecisions
<1>1. DOMAIN l = 1..Len(l) /\ Len(l) \in Nat
  OBVIOUS
<1>2. IsFiniteSet({i \in DOMAIN l : l[i].type \in DecidedTypes})
  <2>1. IsFiniteSet(DOMAIN l)
    BY <1>1, FS_Interval
  <2> QED
    BY <2>1, FS_Subset
<1>3. Decisions(l) \in Nat
  BY <1>2, FS_CardinalityType DEF Decisions
<1>4. WaitingForMessage(l) \in AskIds \cup {0}
  BY DEF WaitingForMessage
<1> QED
  BY <1>3, <1>4, MaxDecisionsAssumption DEF AskIds

LEMMA ResumeType ==
    ASSUME NEW l
    PROVE  StartEvents(l) \in Seq(Event) /\ ResumeEvents(l) \in Seq(Event)
<1>1. Plain("RunStarted") \in Event /\ Plain("StepAdvanced") \in Event
  BY EventTypes DEF Types
<1> QED
  BY <1>1 DEF ResumeEvents, StartEvents

(***************************************************************************)
(* The threads' records                                                    *)
(***************************************************************************)
WorkersOK == /\ wk \in [Workers -> WorkerType]
             /\ \A w \in Workers : wk[w].pc # "idle" => wk[w].run \in Runs

CouriersOK == /\ dl \in [Couriers -> CourierType]
              /\ \A d \in Couriers : dl[d].pc # "idle" => dl[d].run \in Runs

LEMMA WorkerBecomes ==
    ASSUME TypeInv, NEW w \in Workers, NEW k \in WorkerType,
           k.pc # "idle" => k.run \in Runs,
           Becomes(w, k)
    PROVE  WorkersOK'
BY DEF TypeInv, TypeOK, BusyOnRuns, Becomes, WorkersOK

LEMMA IdleIsWorker == IdleWorker \in WorkerType /\ IdleWorker.pc = "idle"
BY MaxDecisionsAssumption DEF IdleWorker, WorkerType, WorkerPcs

LEMMA WorkerMoves ==
    ASSUME TypeInv, NEW w \in Workers, wk[w].pc # "idle", NEW pc \in WorkerPcs,
           NEW a \in 0..MaxDecisions
    PROVE  /\ Goes(w, pc) => WorkersOK'
           /\ Finishes(w, pc, a) => WorkersOK'
<1>1. wk[w] \in WorkerType /\ wk[w].run \in Runs
  BY DEF TypeInv, TypeOK, BusyOnRuns
<1>2. ASSUME Goes(w, pc) PROVE WorkersOK'
  <2>1. [wk[w] EXCEPT !.pc = pc] \in WorkerType /\ [wk[w] EXCEPT !.pc = pc].run = wk[w].run
    BY <1>1 DEF WorkerType
  <2> QED BY <1>1, <1>2, <2>1, WorkerBecomes DEF Goes
<1>3. ASSUME Finishes(w, pc, a) PROVE WorkersOK'
  <2> DEFINE k == [IdleWorker EXCEPT !.pc = pc, !.run = wk[w].run, !.ask = a]
  <2>1. k \in WorkerType /\ k.run = wk[w].run
    BY <1>1, IdleIsWorker DEF WorkerType
  <2>2. Becomes(w, k)
    BY <1>3 DEF Finishes
  <2> QED BY <1>1, <2>1, <2>2, WorkerBecomes
<1> QED BY <1>2, <1>3

LEMMA WorkerRests ==
    ASSUME TypeInv, NEW w \in Workers, Rests(w)
    PROVE  WorkersOK'
BY IdleIsWorker, WorkerBecomes DEF Rests

LEMMA CourierBecomes ==
    ASSUME TypeInv, NEW d \in Couriers, NEW k \in CourierType,
           k.pc # "idle" => k.run \in Runs,
           Carries(d, k)
    PROVE  CouriersOK'
BY DEF TypeInv, TypeOK, BusyOnRuns, Carries, CouriersOK

LEMMA CourierMoves ==
    ASSUME TypeInv, NEW d \in Couriers
    PROVE  /\ Drops(d) => CouriersOK'
           /\ \A pc \in CourierPcs : dl[d].pc # "idle" /\ Turns(d, pc) => CouriersOK'
           /\ \A r \in Runs, a \in 0..MaxDecisions, leave \in BOOLEAN :
                 SetsOut(d, r, a, leave) => CouriersOK'
<1>1. dl[d] \in CourierType /\ (dl[d].pc # "idle" => dl[d].run \in Runs)
  BY DEF TypeInv, TypeOK, BusyOnRuns
<1>2. IdleCourier \in CourierType /\ IdleCourier.pc = "idle"
  BY MaxDecisionsAssumption DEF IdleCourier, CourierType, CourierPcs
<1>3. ASSUME Drops(d) PROVE CouriersOK'
  BY <1>2, <1>3, CourierBecomes DEF Drops
<1>4. ASSUME NEW pc \in CourierPcs, dl[d].pc # "idle", Turns(d, pc) PROVE CouriersOK'
  <2>1. [dl[d] EXCEPT !.pc = pc] \in CourierType /\ [dl[d] EXCEPT !.pc = pc].run = dl[d].run
    BY <1>1 DEF CourierType
  <2> QED BY <1>1, <1>4, <2>1, CourierBecomes DEF Turns
<1>5. ASSUME NEW r \in Runs, NEW a \in 0..MaxDecisions, NEW leave \in BOOLEAN,
             SetsOut(d, r, a, leave)
      PROVE  CouriersOK'
  <2> DEFINE k == [IdleCourier EXCEPT !.pc = "deliver", !.run = r, !.ask = a, !.leave = leave]
  <2>1. k \in CourierType /\ k.run = r
    BY DEF CourierType, IdleCourier, CourierPcs
  <2>2. Carries(d, k)
    BY <1>5 DEF SetsOut
  <2> QED BY <2>1, <2>2, CourierBecomes
<1> QED BY <1>3, <1>4, <1>5

\* A write of one run's log.
LEMMA LogWrite ==
    ASSUME TypeInv, NEW r \in Runs, NEW l \in Seq(Event),
           log' = [log EXCEPT ![r] = l]
    PROVE  log' \in [Runs -> Seq(Event)]
BY DEF TypeInv, TypeOK

\* A write of one ask's row.
LEMMA RowWrite ==
    ASSUME TypeInv, NEW r \in Runs, NEW a,
           \/ rows' = [rows EXCEPT ![r][a] = IF @ = "none" THEN "open" ELSE @]
           \/ rows' = [rows EXCEPT ![r][a] = IF @ = "open" THEN "closed" ELSE @]
    PROVE  rows' \in [Runs -> [AskIds -> {"none", "open", "closed"}]]
<1>1. rows[r] \in [AskIds -> {"none", "open", "closed"}]
  BY DEF TypeInv, TypeOK
<1>2. PICK v : /\ a \in AskIds => v \in {"none", "open", "closed"}
               /\ rows' = [rows EXCEPT ![r] = [rows[r] EXCEPT ![a] = v]]
  BY <1>1
<1>3. [rows[r] EXCEPT ![a] = v] \in [AskIds -> {"none", "open", "closed"}]
  BY <1>1, <1>2
<1> QED
  BY <1>2, <1>3 DEF TypeInv, TypeOK

(***************************************************************************)
(* One lemma per component: its steps preserve TypeInv                     *)
(***************************************************************************)
LEMMA ProducerTypes == TypeInv /\ ProducerNext => TypeInv'
<1> SUFFICES ASSUME TypeInv, ProducerNext PROVE TypeInv'
  OBVIOUS
<1> USE DEF TypeInv
<1>1. UNCHANGED noProducer
  BY DEF ProducerNext
<1>2. SUFFICES /\ queue' \in QueueType
               /\ log' \in [Runs -> Seq(Event)]
               /\ rows' = rows /\ stops' = stops /\ faults' \in Nat
               /\ pr' \in [Producers -> ProducerPcs]
               /\ late' \subseteq Producers
  BY <1>1 DEF TypeOK, BusyOnRuns, noProducer
<1>3. ASSUME NEW p \in Producers PROVE ProducedRun[p] \in Runs
  BY ProducerAssumption
<1>4. ASSUME NEW p \in Producers PROVE PutRun(log[ProducedRun[p]]) \in Seq(Event)
  <2>1. Plain("RunQueued") \in Event
    BY EventTypes DEF Types
  <2> QED BY <2>1, <1>3 DEF TypeOK, PutRun, QueuedEvents
<1>5. ASSUME NEW p \in Producers, NEW pc \in ProducerPcs, To(p, pc)
      PROVE  pr' \in [Producers -> ProducerPcs]
  BY <1>5 DEF To, TypeOK
<1>6. ASSUME NEW p \in Producers, PendRun(p) PROVE <1>2!1
  <2>1. pr' \in [Producers -> ProducerPcs]
    BY <1>5, <1>6 DEF PendRun, ProducerPcs
  <2>2. queue' \in QueueType
    BY <1>3, <1>6, ScriptTypes DEF PendRun, TypeOK
  <2> QED BY <2>1, <2>2, <1>6 DEF PendRun, TypeOK
<1>7. ASSUME NEW p \in Producers, PutStored(p) PROVE <1>2!1
  <2>1. pr' \in [Producers -> ProducerPcs]
    BY <1>5, <1>7 DEF PutStored, ProducerPcs
  <2>2. log' \in [Runs -> Seq(Event)]
    BY <1>3, <1>4, <1>7, LogWrite DEF PutStored
  <2> QED BY <2>1, <2>2, <1>7 DEF PutStored, TypeOK
<1>8. ASSUME NEW p \in Producers, PutFails(p) PROVE <1>2!1
  <2>1. pr' \in [Producers -> ProducerPcs]
    BY <1>5, <1>8 DEF PutFails, ProducerPcs
  <2>2. log' \in [Runs -> Seq(Event)]
    BY <1>3, <1>4, <1>8, LogWrite DEF PutFails, TypeOK
  <2> QED BY <2>1, <2>2, <1>8 DEF PutFails, Fault, TypeOK
<1>9. ASSUME NEW p \in Producers, PutCommitsLate(p) PROVE <1>2!1
  <2>1. log' \in [Runs -> Seq(Event)]
    BY <1>3, <1>4, <1>9, LogWrite DEF PutCommitsLate
  <2> QED BY <2>1, <1>9 DEF PutCommitsLate, TypeOK
<1>10. ASSUME NEW p \in Producers, PushRun(p) PROVE <1>2!1
  <2>1. pr' \in [Producers -> ProducerPcs]
    BY <1>5, <1>10 DEF PushRun, ProducerPcs
  <2>2. queue' \in QueueType
    BY <1>3, <1>10, ScriptTypes DEF PushRun, TypeOK
  <2> QED BY <2>1, <2>2, <1>10 DEF PushRun, TypeOK
<1>11. ASSUME NEW p \in Producers, PushFails(p) PROVE <1>2!1
  <2>1. pr' \in [Producers -> ProducerPcs]
    BY <1>5, <1>11 DEF PushFails, ProducerPcs
  <2>2. queue' \in QueueType
    BY <1>3, <1>11, ScriptTypes DEF PushFails, TypeOK
  <2> QED BY <2>1, <2>2, <1>11 DEF PushFails, Fault, TypeOK
<1>12. ASSUME NEW p \in Producers, EndRun(p) PROVE <1>2!1
  <2>1. pr' \in [Producers -> ProducerPcs]
    BY <1>5, <1>12 DEF EndRun, ProducerPcs
  <2>2. <<Plain("RunFailed")>> \in Seq(Event)
    BY EventTypes DEF Types, Ends
  <2>3. AppendEvents(log[ProducedRun[p]], <<Plain("RunFailed")>>) \in Seq(Event)
    BY <2>2, <1>3, AppendType DEF TypeOK
  <2>4. log' \in [Runs -> Seq(Event)]
    BY <1>3, <1>12, <2>3, LogWrite DEF EndRun
  <2> QED BY <2>1, <2>4, <1>12 DEF EndRun, TypeOK
<1>13. ASSUME NEW p \in Producers, ReadExisting(p) \/ CheckQueued(p) PROVE <1>2!1
  <2>1. pr' \in [Producers -> ProducerPcs]
    BY <1>5, <1>13 DEF ReadExisting, CheckQueued, ProducerPcs
  <2> QED BY <2>1, <1>13 DEF ReadExisting, CheckQueued, shared, TypeOK
<1>14. ASSUME NEW p \in Producers, UnpendExisting(p) PROVE <1>2!1
  <2>1. pr' \in [Producers -> ProducerPcs]
    BY <1>5, <1>14 DEF UnpendExisting, ProducerPcs
  <2>2. queue' \in QueueType
    BY <1>3, <1>14, ScriptTypes DEF UnpendExisting, TypeOK
  <2> QED BY <2>1, <2>2, <1>14 DEF UnpendExisting, TypeOK
<1>15. ASSUME NEW p \in Producers, ProducerDies(p) PROVE <1>2!1
  <2>1. pr' \in [Producers -> ProducerPcs]
    BY <1>5, <1>15 DEF ProducerDies, ProducerPcs
  <2> QED BY <2>1, <1>15 DEF ProducerDies, Fault, TypeOK
<1>16. ASSUME NEW r \in Runs, PendingForgotten(r) PROVE <1>2!1
  <2>1. queue' \in QueueType
    BY <1>16, ScriptTypes DEF PendingForgotten, TypeOK
  <2> QED BY <2>1, <1>16 DEF PendingForgotten, TypeOK
<1> QED
  BY <1>6, <1>7, <1>8, <1>9, <1>10, <1>11, <1>12, <1>13, <1>14, <1>15, <1>16
     DEF ProducerNext, ProducerSteps, ProducerFaults

LEMMA WorkerTypes == TypeInv /\ WorkerNext => TypeInv'
<1> SUFFICES ASSUME TypeInv, WorkerNext PROVE TypeInv'
  OBVIOUS
<1> USE DEF TypeInv
<1>1. UNCHANGED noWorker
  BY DEF WorkerNext
<1>2. SUFFICES /\ queue' \in QueueType
               /\ log' \in [Runs -> Seq(Event)]
               /\ rows' \in [Runs -> [AskIds -> {"none", "open", "closed"}]]
               /\ stops' = stops /\ faults' \in Nat
               /\ WorkersOK'
               /\ expiries' \in Nat
  BY <1>1 DEF TypeOK, BusyOnRuns, noWorker, WorkersOK
<1>3. ASSUME NEW w \in Workers
      PROVE  /\ wk[w] \in WorkerType
             /\ wk[w].pc # "idle" => wk[w].run \in Runs
             /\ wk[w].pc # "idle" => log[wk[w].run] \in Seq(Event)
  BY DEF TypeOK, BusyOnRuns
<1>4. 0 \in 0..MaxDecisions
  BY MaxDecisionsAssumption
<1>5. ASSUME NEW w \in Workers, ClaimRun(w) PROVE <1>2!1
  <2> DEFINE k == [IdleWorker EXCEPT !.pc = "load", !.run = Head(queue.runs)]
  <2>1. Head(queue.runs) \in Runs /\ queue' \in QueueType
    BY <1>5, ClaimType DEF ClaimRun, TypeOK
  <2>2. k \in WorkerType /\ k.run = Head(queue.runs)
    BY <2>1, <1>4, IdleIsWorker DEF WorkerPcs, WorkerType
  <2>3. Becomes(w, k) \/ UNCHANGED wk
    BY <1>5 DEF ClaimRun
  <2>4. WorkersOK'
    BY <2>1, <2>2, <2>3, WorkerBecomes DEF TypeOK, BusyOnRuns, WorkersOK
  <2> QED BY <2>1, <2>4, <1>5 DEF ClaimRun, TypeOK
<1>6. ASSUME NEW w \in Workers, LoadRun(w) PROVE <1>2!1
  <2> DEFINE k == [wk[w] EXCEPT !.pc = "start", !.events = log[wk[w].run]]
  <2>1. k \in WorkerType /\ k.run = wk[w].run
    BY <1>3, <1>6 DEF LoadRun, Working, WorkerType, WorkerPcs
  <2>2. Finishes(w, "ack", 0) \/ Becomes(w, k)
    BY <1>6 DEF LoadRun
  <2>3. WorkersOK'
    BY <1>3, <1>4, <1>6, <2>1, <2>2, WorkerMoves, WorkerBecomes DEF LoadRun, Working, WorkerPcs
  <2> QED BY <2>3, <1>6 DEF LoadRun, TypeOK, shared
<1>7. ASSUME NEW w \in Workers, LoadFails(w) PROVE <1>2!1
  <2>1. queue' \in QueueType
    BY <1>3, <1>4, <1>7, TokenScriptTypes DEF LoadFails, Working, TypeOK
  <2>2. WorkersOK'
    BY <1>7, WorkerRests DEF LoadFails
  <2> QED BY <2>1, <2>2, <1>7 DEF LoadFails, Fault, TypeOK
<1>8. ASSUME NEW w \in Workers, StartRun(w) PROVE <1>2!1
  <2>1. queue' \in QueueType
    BY <1>3, <1>8, ScriptTypes DEF StartRun, Working, TypeOK
  <2>2. WorkersOK'
    BY <1>4, <1>8, WorkerMoves DEF StartRun, Working, WorkerPcs
  <2> QED BY <2>1, <2>2, <1>8 DEF StartRun, TypeOK
<1>9. ASSUME NEW w \in Workers, StartFails(w) PROVE <1>2!1
  <2>1. wk[w].run \in Runs
    BY <1>3, <1>9 DEF StartFails, Working
  <2>2. {queue, Start(queue, wk[w].run)} \subseteq QueueType
    BY <2>1, ScriptTypes DEF TypeOK
  <2>3. queue' \in QueueType
    BY <1>4, <1>9, <2>1, <2>2, TokenScriptTypes DEF StartFails
  <2>4. WorkersOK'
    BY <1>9, WorkerRests DEF StartFails
  <2> QED BY <2>3, <2>4, <1>9 DEF StartFails, Fault, TypeOK
<1>10. ASSUME NEW w \in Workers, FailExhausted(w) PROVE <1>2!1
  <2> DEFINE l == AppendEvents(log[wk[w].run], <<Plain("RunFailed")>>)
  <2>1. wk[w].run \in Runs
    BY <1>3, <1>10 DEF FailExhausted, Working
  <2>2. <<Plain("RunFailed")>> \in Seq(Event)
    BY EventTypes DEF Types, Ends
  <2>3. l \in Seq(Event)
    BY <2>1, <2>2, AppendType DEF TypeOK
  <2>4. log' = [log EXCEPT ![wk[w].run] = l]
    BY <1>10 DEF FailExhausted
  <2> HIDE DEF l
  <2>5. log' \in [Runs -> Seq(Event)]
    BY <2>1, <2>3, <2>4, LogWrite
  <2>6. WorkersOK'
    BY <1>4, <1>10, WorkerMoves DEF FailExhausted, Working, WorkerPcs
  <2> QED BY <2>5, <2>6, <1>10 DEF FailExhausted, TypeOK
<1>11. ASSUME NEW w \in Workers, RunFrom(w) PROVE <1>2!1
  <2> DEFINE Cancel == [wk[w] EXCEPT !.pc = "hold", !.batch = <<Plain("RunCancelled")>>]
             Schedule == [wk[w] EXCEPT !.pc = "hold", !.batch = <<Plain("RunScheduled")>>]
             Resumed == [wk[w] EXCEPT !.pc = "resume"]
  <2>1. wk[w].pc # "idle" /\ wk[w] \in WorkerType /\ wk[w].run \in Runs
    BY <1>3, <1>11 DEF RunFrom, Working
  <2>2. <<Plain("RunCancelled")>> \in Seq(Event) /\ <<Plain("RunScheduled")>> \in Seq(Event)
    BY EventTypes DEF Types, Ends
  <2>3. /\ Cancel \in WorkerType /\ Cancel.run \in Runs
        /\ Schedule \in WorkerType /\ Schedule.run \in Runs
        /\ Resumed \in WorkerType /\ Resumed.run \in Runs
    BY <2>1, <2>2 DEF WorkerType, WorkerPcs
  <2>4. \/ Finishes(w, "ack", 0)
        \/ Becomes(w, Cancel) \/ Becomes(w, Schedule) \/ Becomes(w, Resumed)
    BY <1>11 DEF RunFrom
  <2> HIDE DEF Cancel, Schedule, Resumed
  <2>5. WorkersOK'
    BY <1>4, <2>1, <2>3, <2>4, WorkerMoves, WorkerBecomes DEF WorkerPcs
  <2> QED BY <2>5, <1>11 DEF RunFrom, Stopped, Fault, TypeOK
<1>12. ASSUME NEW w \in Workers, Resume(w) PROVE <1>2!1
  <2> DEFINE k == [wk[w] EXCEPT !.pc = "bound", !.batch = ResumeEvents(wk[w].events)]
  <2>1. wk[w].pc # "idle" /\ wk[w] \in WorkerType /\ wk[w].run \in Runs
    BY <1>3, <1>12 DEF Resume, Working
  <2>2. k \in WorkerType /\ k.run \in Runs
    BY <2>1, ResumeType DEF WorkerType, WorkerPcs
  <2>3. Finishes(w, "release", 0) \/ Becomes(w, k)
    BY <1>12 DEF Resume
  <2> HIDE DEF k
  <2>4. WorkersOK'
    BY <1>4, <2>1, <2>2, <2>3, WorkerMoves, WorkerBecomes DEF WorkerPcs
  <2> QED BY <2>4, <1>12 DEF Resume, Holds, Fault, TypeOK
<1>13. ASSUME NEW w \in Workers, AtBoundary(w) PROVE <1>2!1
  <2> DEFINE k == [wk[w] EXCEPT !.pc = "hold", !.batch = Append(wk[w].batch, Plain("RunCancelled"))]
             waits == WaitingForMessage(wk[w].events)
  <2>1. wk[w].pc # "idle" /\ wk[w] \in WorkerType /\ wk[w].run \in Runs
    BY <1>3, <1>13 DEF AtBoundary, Working
  <2>2. Plain("RunCancelled") \in Event
    BY EventTypes DEF Types, Ends
  <2>3. Append(wk[w].batch, Plain("RunCancelled")) \in Seq(Event)
    BY <2>1, <2>2 DEF WorkerType
  <2>4. k \in WorkerType /\ k.run \in Runs
    BY <2>1, <2>3 DEF WorkerType, WorkerPcs
  <2>5. waits \in 0..MaxDecisions
    BY <2>1, CountTypes DEF WorkerType
  <2>6. Becomes(w, k) \/ Goes(w, "hold") \/ Finishes(w, "park", waits) \/ Goes(w, "decide")
    BY <1>13 DEF AtBoundary
  <2> HIDE DEF k, waits
  <2>7. WorkersOK'
    BY <2>1, <2>4, <2>5, <2>6, WorkerMoves, WorkerBecomes DEF WorkerPcs
  <2> QED BY <2>7, <1>13 DEF AtBoundary, Stopped, Fault, TypeOK
<1>14. ASSUME NEW w \in Workers, Decide(w) PROVE <1>2!1
  <2> DEFINE n == Decisions(wk[w].events)
             Does(pc, type, ask) == [wk[w] EXCEPT !.pc = pc, !.batch = <<About(type, ask)>>]
             Sends == [wk[w] EXCEPT !.pc = "send", !.ask = n + 1]
  <2>1. wk[w].pc # "idle" /\ wk[w] \in WorkerType /\ wk[w].run \in Runs
    BY <1>3, <1>14 DEF Decide, Working
  <2>2. n \in Nat
    BY <2>1, CountTypes DEF WorkerType
  <2>3. n < MaxDecisions => n + 1 \in 0..MaxDecisions
    BY <2>2, MaxDecisionsAssumption
  <2>4. ASSUME NEW pc \in WorkerPcs, NEW type \in Types, NEW ask \in 0..MaxDecisions
        PROVE  Does(pc, type, ask) \in WorkerType /\ Does(pc, type, ask).run \in Runs
    <3>1. <<About(type, ask)>> \in Seq(Event)
      BY EventTypes
    <3> QED BY <2>1, <3>1 DEF WorkerType
  <2>5. ASSUME NEW pc \in WorkerPcs, NEW type \in Types, NEW ask \in 0..MaxDecisions,
               Becomes(w, Does(pc, type, ask))
        PROVE  WorkersOK'
    BY <2>4, <2>5, WorkerBecomes
  <2>6. ASSUME n < MaxDecisions, Becomes(w, Sends) PROVE WorkersOK'
    <3>1. Sends \in WorkerType /\ Sends.run \in Runs
      BY <2>1, <2>3, <2>6 DEF WorkerType, WorkerPcs
    <3> QED BY <3>1, <2>6, WorkerBecomes
  <2>7. \/ n < MaxDecisions /\ Becomes(w, Does("bound", "Step", 0))
        \/ n < MaxDecisions /\ Becomes(w, Does("bound", "UserAsked", n + 1))
        \/ n < MaxDecisions /\ Becomes(w, Sends)
        \/ Becomes(w, Does("hold", "RunCompleted", 0))
        \/ Becomes(w, Does("hold", "RunFailed", 0))
    BY <1>14 DEF Decide
  <2> HIDE DEF n, Does, Sends
  <2>8. WorkersOK'
    BY <1>4, <2>3, <2>5, <2>6, <2>7 DEF WorkerPcs, Types, Ends, DecidedTypes, AskTypes
  <2> QED BY <2>8, <1>14 DEF Decide, shared, TypeOK
<1>15. ASSUME NEW w \in Workers, SendAsk(w) PROVE <1>2!1
  <2> DEFINE Logs(event) == [wk[w] EXCEPT !.pc = "bound", !.batch = <<event>>, !.ask = 0]
             r == wk[w].run
             a == wk[w].ask
  <2>1. wk[w].pc # "idle" /\ wk[w] \in WorkerType /\ wk[w].run \in Runs
    BY <1>3, <1>15 DEF SendAsk, Working
  <2>2. About("MessageSent", a) \in Event /\ Plain("Step") \in Event
    BY <2>1, EventTypes DEF WorkerType, Types, DecidedTypes, AskTypes
  <2>3. ASSUME NEW event \in Event
        PROVE  Logs(event) \in WorkerType /\ Logs(event).run \in Runs
    <3>1. <<event>> \in Seq(Event)
      OBVIOUS
    <3> QED BY <2>1, <3>1, <1>4 DEF WorkerType, WorkerPcs
  <2>4. Becomes(w, Logs(About("MessageSent", a))) \/ Becomes(w, Logs(Plain("Step")))
    BY <1>15 DEF SendAsk
  <2>5. rows' = rows \/ rows' = [rows EXCEPT ![r][a] = IF @ = "none" THEN "open" ELSE @]
    BY <1>15 DEF SendAsk
  <2> HIDE DEF Logs
  <2>6. WorkersOK'
    BY <2>2, <2>3, <2>4, WorkerBecomes
  <2>7. rows' \in [Runs -> [AskIds -> {"none", "open", "closed"}]]
    BY <2>1, <2>5, RowWrite DEF TypeOK
  <2> QED BY <2>6, <2>7, <1>15 DEF SendAsk, TypeOK
<1>16. ASSUME NEW w \in Workers, CheckLease(w) PROVE <1>2!1
  <2>1. WorkersOK'
    BY <1>4, <1>16, WorkerMoves DEF CheckLease, Working, WorkerPcs
  <2> QED BY <2>1, <1>16 DEF CheckLease, Holds, Fault, TypeOK
<1>17. ASSUME NEW w \in Workers, AppendBatch(w) PROVE <1>2!1
  <2> DEFINE events == wk[w].events \o wk[w].batch
             waits == WaitingForMessage(events)
             l == AppendEventsAfter(log[wk[w].run], Len(wk[w].events), wk[w].batch)
             GoesOn == [wk[w] EXCEPT !.pc = IF Has(wk[w].batch, {"RunScheduled"})
                                            THEN "resume" ELSE "decide",
                                     !.events = events, !.batch = <<>>]
             Reloading == [wk[w] EXCEPT !.pc = "reload", !.batch = <<>>, !.events = <<>>,
                                        !.reloads = wk[w].reloads + 1]
  <2>1. wk[w].pc # "idle" /\ wk[w] \in WorkerType /\ wk[w].run \in Runs
    BY <1>3, <1>17 DEF AppendBatch, Working
  <2>2. events \in Seq(Event) /\ <<>> \in Seq(Event) /\ wk[w].reloads + 1 \in Nat
    BY <2>1 DEF WorkerType
  <2>3. waits \in 0..MaxDecisions
    BY <2>2, CountTypes
  <2>4. GoesOn \in WorkerType /\ GoesOn.run \in Runs
    <3> HIDE DEF events
    <3> QED BY <2>1, <2>2 DEF WorkerType, WorkerPcs
  <2>5. Reloading \in WorkerType /\ Reloading.run \in Runs
    BY <2>1, <2>2 DEF WorkerType, WorkerPcs
  <2>6. l \in Seq(Event)
    BY <2>1, AppendType DEF WorkerType, TypeOK
  <2>7. log' = [log EXCEPT ![wk[w].run] = l]
    BY <1>17 DEF AppendBatch
  <2>8. \/ Finishes(w, "ack", 0) \/ Finishes(w, "park", waits) \/ Finishes(w, "release", 0)
        \/ Becomes(w, GoesOn) \/ Becomes(w, Reloading)
    BY <1>17 DEF AppendBatch
  <2> HIDE DEF events, waits, l, GoesOn, Reloading
  <2>9. log' \in [Runs -> Seq(Event)]
    BY <2>1, <2>6, <2>7, LogWrite
  <2>10. WorkersOK'
    BY <1>4, <2>1, <2>3, <2>4, <2>5, <2>8, WorkerMoves, WorkerBecomes DEF WorkerPcs
  <2> QED BY <2>9, <2>10, <1>17 DEF AppendBatch, TypeOK
<1>18. ASSUME NEW w \in Workers, Reload(w) PROVE <1>2!1
  <2> DEFINE k == [wk[w] EXCEPT !.pc = "run", !.events = log[wk[w].run]]
  <2>1. k \in WorkerType /\ k.run = wk[w].run
    BY <1>3, <1>18 DEF Reload, Working, WorkerType, WorkerPcs
  <2>2. Finishes(w, "ack", 0) \/ Becomes(w, k)
    BY <1>18 DEF Reload
  <2>3. WorkersOK'
    BY <1>3, <1>4, <1>18, <2>1, <2>2, WorkerMoves, WorkerBecomes DEF Reload, Working, WorkerPcs
  <2> QED BY <2>3, <1>18 DEF Reload, TypeOK, shared
<1>19. ASSUME NEW w \in Workers, ParkRun(w) PROVE <1>2!1
  <2>1. wk[w].run \in Runs /\ wk[w].ask \in 0..MaxDecisions
    BY <1>3, <1>19 DEF ParkRun, Working, WorkerType
  <2>2. queue' \in QueueType
    BY <1>19, <2>1, TokenScriptTypes DEF ParkRun, TypeOK
  <2>3. WorkersOK'
    BY <1>4, <1>19, WorkerMoves, WorkerRests DEF ParkRun, Working, WorkerPcs
  <2> QED BY <2>2, <2>3, <1>19 DEF ParkRun, TypeOK
<1>20. ASSUME NEW w \in Workers, Recheck(w) PROVE <1>2!1
  <2>1. WorkersOK'
    BY <1>4, <1>20, WorkerMoves DEF Recheck, Working, WorkerPcs
  <2> QED BY <2>1, <1>20 DEF Recheck, shared, TypeOK
<1>21. ASSUME NEW w \in Workers, RecheckStop(w) PROVE <1>2!1
  <2>1. WorkersOK'
    BY <1>4, <1>21, WorkerMoves, WorkerRests DEF RecheckStop, Working, WorkerPcs
  <2> QED BY <2>1, <1>21 DEF RecheckStop, Stopped, Fault, TypeOK
<1>22. ASSUME NEW w \in Workers, WakeSelf(w) \/ ReleaseRun(w) \/ AckRun(w) PROVE <1>2!1
  <2>1. wk[w].run \in Runs
    BY <1>3, <1>22 DEF WakeSelf, ReleaseRun, AckRun, Working
  <2>2. queue' \in QueueType
    BY <1>4, <1>22, <2>1, WakeType, TokenScriptTypes DEF WakeSelf, ReleaseRun, AckRun, TypeOK
  <2>3. WorkersOK'
    BY <1>22, WorkerRests DEF WakeSelf, ReleaseRun, AckRun
  <2> QED BY <2>2, <2>3, <1>22 DEF WakeSelf, ReleaseRun, AckRun, TypeOK
<1>23. ASSUME NEW w \in Workers, Abandon(w) \/ Panics(w) PROVE <1>2!1
  <2>1. WorkersOK'
    BY <1>23, WorkerRests DEF Abandon, Panics
  <2> QED BY <2>1, <1>23 DEF Abandon, Panics, Fault, shared, TypeOK
<1>24. ASSUME NEW r \in Runs, AbandonedLeaseExpires(r) \/ LiveLeaseExpires(r) PROVE <1>2!1
  <2>1. queue' \in QueueType
    BY <1>24, ScriptTypes DEF AbandonedLeaseExpires, LiveLeaseExpires, TypeOK
  <2> QED BY <2>1, <1>24 DEF AbandonedLeaseExpires, LiveLeaseExpires, TypeOK, BusyOnRuns, WorkersOK
<1>25. ASSUME NEW w \in Workers, NoDecider(w) PROVE <1>2!1
  <2> DEFINE b == Append(StartEvents(wk[w].events), Plain("RunFailed"))
             k == [wk[w] EXCEPT !.pc = "hold", !.batch = b]
  <2>1. wk[w].pc # "idle" /\ wk[w] \in WorkerType /\ wk[w].run \in Runs
    BY <1>3, <1>25 DEF NoDecider, Working
  <2>2. b \in Seq(Event)
    BY ResumeType, EventTypes DEF Types, Ends
  <2>3. Becomes(w, k)
    BY <1>25 DEF NoDecider
  <2> HIDE DEF b
  <2>4. k \in WorkerType /\ k.run \in Runs
    BY <2>1, <2>2 DEF WorkerType, WorkerPcs
  <2>5. WorkersOK'
    BY <1>4, <2>3, <2>4, WorkerBecomes
  <2> QED BY <2>5, <1>25 DEF NoDecider, shared, TypeOK
<1> QED
  BY <1>5, <1>6, <1>7, <1>8, <1>9, <1>10, <1>11, <1>12, <1>13, <1>14, <1>15, <1>16, <1>17,
     <1>18, <1>19, <1>20, <1>21, <1>22, <1>23, <1>24, <1>25
     DEF WorkerNext, WorkerSteps, WorkerFaults

LEMMA CourierTypes == TypeInv /\ CourierNext => TypeInv'
<1> SUFFICES ASSUME TypeInv, CourierNext PROVE TypeInv'
  OBVIOUS
<1> USE DEF TypeInv
<1>1. UNCHANGED noCourier
  BY DEF CourierNext
<1>2. SUFFICES /\ queue' \in QueueType
               /\ log' \in [Runs -> Seq(Event)]
               /\ rows' \in [Runs -> [AskIds -> {"none", "open", "closed"}]]
               /\ stops' = stops /\ faults' \in Nat
               /\ CouriersOK'
  BY <1>1 DEF TypeOK, BusyOnRuns, noCourier, CouriersOK
<1>3. ASSUME NEW d \in Couriers
      PROVE  /\ dl[d] \in CourierType
             /\ dl[d].ask \in 0..MaxDecisions
             /\ dl[d].pc # "idle" => dl[d].run \in Runs
  BY DEF TypeOK, BusyOnRuns, CourierType
<1>4. AskIds \subseteq 0..MaxDecisions
  BY MaxDecisionsAssumption DEF AskIds
<1>5. IdleCourier \in CourierType
  BY MaxDecisionsAssumption DEF IdleCourier, CourierType, CourierPcs
<1>6. ASSUME NEW d \in Couriers, NEW r \in Runs, NEW a \in AskIds,
             TaskAnswers(d, r, a) \/ AskIsDue(d, r, a)
      PROVE  <1>2!1
  <2>1. CouriersOK'
    BY <1>4, <1>6, CourierMoves DEF TaskAnswers, AskIsDue
  <2> QED BY <2>1, <1>6 DEF TaskAnswers, AskIsDue, shared, TypeOK
<1>7. ASSUME NEW d \in Couriers, NEW r \in Runs, SweepParked(d, r) PROVE <1>2!1
  <2> DEFINE k == [IdleCourier EXCEPT !.pc = "look", !.run = r, !.ask = queue.parked[r]]
  <2>1. queue.parked[r] \in 0..MaxDecisions
    BY DEF TypeOK, QueueType
  <2>2. k \in CourierType /\ k.run = r
    BY <1>5, <2>1 DEF CourierType, CourierPcs
  <2>3. Carries(d, k)
    BY <1>7 DEF SweepParked
  <2>4. CouriersOK'
    BY <2>2, <2>3, CourierBecomes
  <2> QED BY <2>4, <1>7 DEF SweepParked, shared, TypeOK
<1>8. ASSUME NEW d \in Couriers, NEW r \in Runs, UserAnswers(d, r) PROVE <1>2!1
  <2> DEFINE k == [IdleCourier EXCEPT !.pc = "question", !.run = r]
  <2>1. k \in CourierType /\ k.run = r
    BY <1>5 DEF CourierType, CourierPcs
  <2>2. Carries(d, k)
    BY <1>8 DEF UserAnswers
  <2>3. CouriersOK'
    BY <2>1, <2>2, CourierBecomes
  <2> QED BY <2>3, <1>8 DEF UserAnswers, shared, TypeOK
<1>9. ASSUME NEW d \in Couriers, LookAtParked(d) PROVE <1>2!1
  <2>1. CouriersOK'
    BY <1>3, <1>9, CourierMoves DEF LookAtParked, Carrying, CourierPcs
  <2> QED BY <2>1, <1>9 DEF LookAtParked, shared, TypeOK
<1>10. ASSUME NEW d \in Couriers, LookAtStop(d) \/ DeliverRead(d) PROVE <1>2!1
  <2>1. CouriersOK'
    BY <1>10, CourierMoves DEF LookAtStop, DeliverRead, Carrying, CourierPcs
  <2> QED BY <2>1, <1>10 DEF LookAtStop, DeliverRead, shared, TypeOK
<1>11. ASSUME NEW d \in Couriers
       PROVE  <<About("Answer", dl[d].ask)>> \in Seq(Event)
  BY <1>3, EventTypes DEF Types
<1>12. ASSUME NEW d \in Couriers, DeliverAppend(d) PROVE <1>2!1
  <2> DEFINE l == AppendEvents(log[dl[d].run], <<About("Answer", dl[d].ask)>>)
  <2>1. dl[d].run \in Runs
    BY <1>3, <1>12 DEF DeliverAppend, Carrying
  <2>2. l \in Seq(Event)
    BY <1>11, <2>1, AppendType DEF TypeOK
  <2>3. log' = [log EXCEPT ![dl[d].run] = l]
    BY <1>12 DEF DeliverAppend
  <2> HIDE DEF l
  <2>4. log' \in [Runs -> Seq(Event)]
    BY <2>1, <2>2, <2>3, LogWrite
  <2>5. CouriersOK'
    BY <1>12, CourierMoves DEF DeliverAppend, Carrying, CourierPcs
  <2> QED BY <2>4, <2>5, <1>12 DEF DeliverAppend, TypeOK
<1>13. ASSUME NEW d \in Couriers, MarkAnswered(d) PROVE <1>2!1
  <2>1. dl[d].run \in Runs
    BY <1>3, <1>13 DEF MarkAnswered, Carrying
  <2>2. rows' \in [Runs -> [AskIds -> {"none", "open", "closed"}]]
    BY <1>13, <2>1, RowWrite DEF MarkAnswered
  <2>3. CouriersOK'
    BY <1>13, CourierMoves DEF MarkAnswered, Carrying, CourierPcs
  <2> QED BY <2>2, <2>3, <1>13 DEF MarkAnswered, TypeOK
<1>14. ASSUME NEW d \in Couriers, WakeAsker(d) PROVE <1>2!1
  <2>1. queue' \in QueueType
    BY <1>3, <1>14, WakeType DEF WakeAsker, Carrying, TypeOK
  <2>2. CouriersOK'
    BY <1>14, CourierMoves DEF WakeAsker
  <2> QED BY <2>1, <2>2, <1>14 DEF WakeAsker, TypeOK
<1>15. ASSUME NEW d \in Couriers, ReadQuestion(d) PROVE <1>2!1
  <2> DEFINE l == log[dl[d].run]
             a == WaitingForMessage(l)
             k == [dl[d] EXCEPT !.pc = "reply", !.ask = a, !.seen = Len(l)]
  <2>1. dl[d].run \in Runs
    BY <1>3, <1>15 DEF ReadQuestion, Carrying
  <2>2. l \in Seq(Event)
    BY <2>1 DEF TypeOK
  <2>3. Len(l) \in Nat /\ a \in 0..MaxDecisions
    BY <2>2, CountTypes
  <2>4. Carries(d, k) \/ Drops(d)
    BY <1>15 DEF ReadQuestion
  <2> HIDE DEF l, a
  <2>5. k \in CourierType /\ k.run = dl[d].run
    BY <1>3, <2>3 DEF CourierType, CourierPcs
  <2>6. CouriersOK'
    BY <2>1, <2>4, <2>5, CourierBecomes, CourierMoves
  <2> QED BY <2>6, <1>15 DEF ReadQuestion, shared, TypeOK
<1>16. ASSUME NEW d \in Couriers, ReplyToQuestion(d) PROVE <1>2!1
  <2> DEFINE l == AppendEventsAfter(log[dl[d].run], dl[d].seen, <<About("Answer", dl[d].ask)>>)
             k == [dl[d] EXCEPT !.pc = "question", !.tries = dl[d].tries + 1, !.seen = 0]
  <2>1. dl[d].run \in Runs /\ dl[d].pc # "idle"
    BY <1>3, <1>16 DEF ReplyToQuestion, Carrying
  <2>2. l \in Seq(Event)
    BY <1>11, <2>1, AppendType DEF TypeOK
  <2>3. log' = [log EXCEPT ![dl[d].run] = l]
    BY <1>16 DEF ReplyToQuestion
  <2>4. Turns(d, "wake") \/ Carries(d, k) \/ Drops(d)
    BY <1>16 DEF ReplyToQuestion
  <2> HIDE DEF l
  <2>5. log' \in [Runs -> Seq(Event)]
    BY <2>1, <2>2, <2>3, LogWrite
  <2>6. k \in CourierType /\ k.run = dl[d].run
    <3>1. dl[d].tries + 1 \in Nat
      BY <1>3 DEF CourierType
    <3> QED BY <1>3, <3>1 DEF CourierType, CourierPcs
  <2>7. CouriersOK'
    BY <2>1, <2>4, <2>6, CourierBecomes, CourierMoves DEF CourierPcs
  <2> QED BY <2>5, <2>7, <1>16 DEF ReplyToQuestion, TypeOK
<1>17. ASSUME NEW d \in Couriers, CourierFails(d) PROVE <1>2!1
  <2>1. CouriersOK'
    BY <1>17, CourierMoves DEF CourierFails, Carrying, CourierPcs
  <2> QED BY <2>1, <1>17 DEF CourierFails, Fault, TypeOK
<1> QED
  BY <1>6, <1>7, <1>8, <1>9, <1>10, <1>12, <1>13, <1>14, <1>15, <1>16, <1>17
     DEF CourierNext, CourierStarts, CourierCarries

LEMMA StopperTypes == TypeInv /\ StopperNext => TypeInv'
<1> SUFFICES ASSUME TypeInv, StopperNext PROVE TypeInv'
  OBVIOUS
<1> USE DEF TypeInv
<1>1. UNCHANGED noStopper
  BY DEF StopperNext
<1>2. SUFFICES /\ queue' \in QueueType
               /\ log' \in [Runs -> Seq(Event)]
               /\ rows' = rows /\ stops' \subseteq Runs /\ faults' \in Nat
               /\ st' \in StopperType
               /\ st'.pc # "idle" => st'.run \in Runs
  BY <1>1 DEF TypeOK, BusyOnRuns, noStopper
<1>3. IdleStopper \in StopperType /\ IdleStopper.pc = "idle"
  BY MaxDecisionsAssumption DEF IdleStopper, StopperType, StopperPcs
<1>4. st \in StopperType /\ (st.pc # "idle" => st.run \in Runs)
  BY DEF TypeOK, BusyOnRuns
<1>5. ASSUME NEW r \in Runs, PutStop(r) PROVE <1>2!1
  <2>1. st' \in StopperType /\ st'.run \in Runs
    BY <1>3, <1>5 DEF PutStop, StopperType, StopperPcs
  <2> QED BY <2>1, <1>5 DEF PutStop, TypeOK
<1>6. ASSUME ReadParked PROVE <1>2!1
  <2>1. queue.parked[st.run] \in 0..MaxDecisions
    BY <1>4, <1>6 DEF ReadParked, TypeOK, QueueType
  <2>2. st' \in StopperType /\ st'.run \in Runs
    BY <1>4, <1>6, <2>1 DEF ReadParked, StopperType, StopperPcs
  <2> QED BY <2>2, <1>6 DEF ReadParked, shared, TypeOK
<1>7. ASSUME ReadRun PROVE <1>2!1
  <2> DEFINE n == Len(log[st.run])
  <2>1. n \in Nat /\ st.run \in Runs
    BY <1>4, <1>7 DEF ReadRun, TypeOK
  <2>2. st' = IdleStopper \/ st' = [st EXCEPT !.pc = "append", !.seen = n]
    BY <1>7 DEF ReadRun
  <2> HIDE DEF n
  <2>3. st' \in StopperType /\ (st'.pc # "idle" => st'.run \in Runs)
    BY <1>3, <1>4, <2>1, <2>2 DEF StopperType, StopperPcs
  <2> QED BY <2>3, <1>7 DEF ReadRun, shared, TypeOK
<1>8. ASSUME CancelRun PROVE <1>2!1
  <2> DEFINE l == AppendEventsAfter(log[st.run], st.seen, <<Plain("RunCancelled")>>)
  <2>1. st.run \in Runs
    BY <1>4, <1>8 DEF CancelRun
  <2>2. <<Plain("RunCancelled")>> \in Seq(Event)
    BY EventTypes DEF Types, Ends
  <2>3. l \in Seq(Event)
    BY <2>1, <2>2, AppendType DEF TypeOK
  <2>4. log' = [log EXCEPT ![st.run] = l]
    BY <1>8 DEF CancelRun
  <2>5. st' = IdleStopper \/ st' = [st EXCEPT !.pc = "wake", !.seen = 0]
    BY <1>8 DEF CancelRun
  <2> HIDE DEF l
  <2>6. log' \in [Runs -> Seq(Event)]
    BY <2>1, <2>3, <2>4, LogWrite
  <2>7. st' \in StopperType /\ (st'.pc # "idle" => st'.run \in Runs)
    <3>1. [st EXCEPT !.pc = "wake", !.seen = 0] \in StopperType
      BY <1>4 DEF StopperType, StopperPcs
    <3>2. [st EXCEPT !.pc = "wake", !.seen = 0].run = st.run
      BY <1>4 DEF StopperType
    <3> QED BY <1>3, <2>1, <2>5, <3>1, <3>2
  <2> QED BY <2>6, <2>7, <1>8 DEF CancelRun, TypeOK
<1>9. ASSUME WakeCancelled PROVE <1>2!1
  <2>1. queue' \in QueueType
    BY <1>4, <1>9, WakeType DEF WakeCancelled, TypeOK
  <2> QED BY <2>1, <1>3, <1>9 DEF WakeCancelled, TypeOK
<1>10. ASSUME StopFails PROVE <1>2!1
  <2>1. st' = IdleStopper \/ st' = [st EXCEPT !.pc = "read"]
    BY <1>10 DEF StopFails
  <2>2. st' \in StopperType /\ (st'.pc # "idle" => st'.run \in Runs)
    BY <1>3, <1>4, <1>10, <2>1 DEF StopFails, StopperType, StopperPcs
  <2> QED BY <2>2, <1>10 DEF StopFails, Fault, TypeOK
<1> QED
  BY <1>5, <1>6, <1>7, <1>8, <1>9, <1>10 DEF StopperNext, StopperSteps

LEMMA SweeperTypes == TypeInv /\ SweeperNext => TypeInv'
<1> SUFFICES ASSUME TypeInv, SweeperNext PROVE TypeInv'
  OBVIOUS
<1> USE DEF TypeInv
<1>1. UNCHANGED noSweeper
  BY DEF SweeperNext
<1>2. SUFFICES /\ queue' \in QueueType
               /\ log' = log /\ rows' = rows /\ stops' = stops /\ faults' \in Nat
               /\ sw' \in SweeperType
               /\ sw'.pc # "idle" => sw'.run \in Runs
  BY <1>1 DEF TypeOK, BusyOnRuns, noSweeper
<1>3. IdleSweeper \in SweeperType /\ IdleSweeper.pc = "idle"
  BY DEF IdleSweeper, SweeperType, SweeperPcs
<1>4. sw \in SweeperType /\ (sw.pc # "idle" => sw.run \in Runs)
  BY DEF TypeOK, BusyOnRuns
<1>5. ASSUME ReapExpired PROVE <1>2!1
  <2>1. queue' \in QueueType
    BY <1>5, ReapType DEF ReapExpired, TypeOK
  <2> QED BY <2>1, <1>4, <1>5 DEF ReapExpired, TypeOK
<1>6. ASSUME NEW r \in Runs, ListPending(r) PROVE <1>2!1
  <2>1. sw' \in SweeperType /\ sw'.run \in Runs
    BY <1>6 DEF ListPending, SweeperType, SweeperPcs
  <2> QED BY <2>1, <1>6 DEF ListPending, shared, TypeOK
<1>7. ASSUME LoadPending PROVE <1>2!1
  <2>1. \/ sw' = IdleSweeper
        \/ sw' = [sw EXCEPT !.pc = "push"] \/ sw' = [sw EXCEPT !.pc = "unpend"]
    BY <1>7 DEF LoadPending
  <2>2. sw' \in SweeperType /\ (sw'.pc # "idle" => sw'.run \in Runs)
    BY <1>3, <1>4, <1>7, <2>1 DEF LoadPending, SweeperType, SweeperPcs
  <2> QED BY <2>2, <1>7 DEF LoadPending, shared, TypeOK
<1>8. ASSUME PushPending \/ UnpendPending \/ SweepFails PROVE <1>2!1
  <2>1. queue' \in QueueType
    BY <1>4, <1>8, ScriptTypes DEF PushPending, UnpendPending, SweepFails, TypeOK
  <2> QED BY <2>1, <1>3, <1>8 DEF PushPending, UnpendPending, SweepFails, Fault, TypeOK
<1> QED
  BY <1>5, <1>6, <1>7, <1>8 DEF SweeperNext, SweeperSteps

(***************************************************************************)
(* Every variable always holds a value of its kind, for any number of      *)
(* runs, workers, couriers and producers.                                  *)
(***************************************************************************)
LEMMA InitTypes == Init => TypeInv
<1> SUFFICES ASSUME Init PROVE TypeInv
  OBVIOUS
<1> USE DEF Init, SharedInit, ProducerInit, WorkerInit, CourierInit, StopperInit, SweeperInit
<1>1. queue \in QueueType
  BY MaxDecisionsAssumption DEF EmptyQueue, QueueType, PendingAge
<1>2. wk \in [Workers -> WorkerType] /\ \A w \in Workers : wk[w].pc = "idle"
  BY IdleIsWorker
<1>3. dl \in [Couriers -> CourierType] /\ \A d \in Couriers : dl[d].pc = "idle"
  BY MaxDecisionsAssumption DEF IdleCourier, CourierType, CourierPcs
<1>4. st \in StopperType /\ st.pc = "idle"
  BY MaxDecisionsAssumption DEF IdleStopper, StopperType, StopperPcs
<1>5. sw \in SweeperType /\ sw.pc = "idle"
  BY DEF IdleSweeper, SweeperType, SweeperPcs
<1>6. log \in [Runs -> Seq(Event)]
  OBVIOUS
<1> QED
  BY <1>1, <1>2, <1>3, <1>4, <1>5, <1>6 DEF TypeInv, TypeOK, BusyOnRuns, ProducerPcs

LEMMA NextTypes == TypeInv /\ [Next]_vars => TypeInv'
<1>1. TypeInv /\ UNCHANGED vars => TypeInv'
  BY DEF TypeInv, TypeOK, BusyOnRuns, vars, shared
<1> QED
  BY <1>1, ProducerTypes, WorkerTypes, CourierTypes, StopperTypes, SweeperTypes DEF Next

\* In every reachable state Redis's keys, the logs, the ask rows and what each
\* thread holds in hand are of their kind; no step of any handler works on a
\* run, an ask or a list that does not exist.
THEOREM TypeCorrect == Spec => []TypeOK
<1>1. TypeInv => TypeOK
  BY DEF TypeInv
<1> QED
  BY <1>1, InitTypes, NextTypes, PTL DEF Spec


\* What a step does to a run, whatever thread takes it.
KeptRun(r) ==
    /\ Stored(r) => log'[r] # <<>>
    /\ log'[r] # <<>> =>
          Stored(r) \/ (~NeverStored(r) /\ StillWaiting(log'[r]) /\ queue'.pending[r] # "no")
    /\ Ended(log[r]) => Ended(log'[r])
    /\ Stored(r) /\ ~StillWaiting(log[r]) => ~StillWaiting(log'[r])
    /\ Open(r) /\ StillWaiting(log[r]) /\ ~StillWaiting(log'[r]) =>
          HeldIn(queue', r) \/ Ended(log'[r])
    /\ Held(r) => HeldIn(queue', r) \/ Ended(log'[r])
    /\ HeldIn(queue', r) \/ queue'.lease[r] # NoLease => log'[r] # <<>>
    /\ queue'.lease[r] # NoLease => Ended(log'[r]) \/ queue'.processing[r] > 0
    /\ queue.pending[r] # "no" =>
          \/ queue'.pending[r] # "no" \/ HeldIn(queue', r) \/ Ended(log'[r])
          \/ log'[r] = <<>> /\ NeverStored(r)

Kept == \A r \in Runs : KeptRun(r)

(***************************************************************************)
(* Sequences                                                               *)
(***************************************************************************)
LEMMA InAppend ==
    ASSUME NEW S, NEW s \in Seq(S), NEW e \in S
    PROVE  /\ \A i \in DOMAIN s : i \in DOMAIN Append(s, e) /\ Append(s, e)[i] = s[i]
           /\ Len(s) + 1 \in DOMAIN Append(s, e) /\ Append(s, e)[Len(s) + 1] = e
           /\ \A i \in DOMAIN Append(s, e) : i \in DOMAIN s \/ i = Len(s) + 1
OBVIOUS

LEMMA InConcat ==
    ASSUME NEW S, NEW s \in Seq(S), NEW t \in Seq(S)
    PROVE  /\ \A i \in DOMAIN s : i \in DOMAIN (s \o t) /\ (s \o t)[i] = s[i]
           /\ \A i \in DOMAIN t : Len(s) + i \in DOMAIN (s \o t) /\ (s \o t)[Len(s) + i] = t[i]
           /\ \A i \in DOMAIN (s \o t) : i \in DOMAIN s \/ \E j \in DOMAIN t : i = Len(s) + j
<1>1. Len(s \o t) = Len(s) + Len(t) /\ Len(s) \in Nat /\ Len(t) \in Nat
  OBVIOUS
<1>2. DOMAIN s = 1..Len(s) /\ DOMAIN t = 1..Len(t) /\ DOMAIN (s \o t) = 1..(Len(s) + Len(t))
  BY <1>1
<1>3. \A i \in DOMAIN (s \o t) : i \in DOMAIN s \/ \E j \in DOMAIN t : i = Len(s) + j
  <2> TAKE i \in DOMAIN (s \o t)
  <2>1. CASE i \in DOMAIN s
    BY <2>1
  <2>2. CASE i \notin DOMAIN s
    <3>1. i - Len(s) \in DOMAIN t /\ i = Len(s) + (i - Len(s))
      BY <1>1, <1>2, <2>2
    <3> QED BY <3>1
  <2> QED BY <2>1, <2>2
<1> QED
  BY <1>1, <1>2, <1>3

LEMMA InTail ==
    ASSUME NEW S, NEW s \in Seq(S), s # <<>>
    PROVE  \A i \in DOMAIN s : s[i] = Head(s) \/ \E j \in DOMAIN Tail(s) : Tail(s)[j] = s[i]
<1> TAKE i \in DOMAIN s
<1>1. CASE i = 1
  BY <1>1
<1>2. CASE i # 1
  <2>1. i - 1 \in DOMAIN Tail(s) /\ Tail(s)[i - 1] = s[i]
    BY <1>2
  <2> QED BY <2>1
<1> QED BY <1>1, <1>2

\* What an append keeps of a log.
LEMMA AppendKeeps ==
    ASSUME NEW l \in Seq(Event), NEW seen, NEW events \in Seq(Event)
    PROVE  LET m == AppendEventsAfter(l, seen, events)
           IN  /\ m = <<>> <=> l = <<>>
               /\ Ended(l) => Ended(m)
               /\ ~StillWaiting(l) => ~StillWaiting(m)
               /\ Ended(events) /\ AppendResult(l, seen) = "Appended" => Ended(m)
               /\ m = l \/ AppendResult(l, seen) = "Appended"
<1> DEFINE m == AppendEventsAfter(l, seen, events)
<1>1. CASE AppendResult(l, seen) # "Appended"
  BY <1>1 DEF AppendEventsAfter
<1>2. CASE AppendResult(l, seen) = "Appended"
  <2>1. m = l \o events /\ l # <<>>
    BY <1>2 DEF AppendEventsAfter, AppendResult
  <2>2. m # <<>>
    BY <2>1
  <2>3. \A i \in DOMAIN l : i \in DOMAIN m /\ m[i] = l[i]
    BY <2>1, InConcat
  <2>4. \A i \in DOMAIN events : \E j \in DOMAIN m : m[j] = events[i]
    <3> TAKE i \in DOMAIN events
    <3>1. Len(l) + i \in DOMAIN m /\ m[Len(l) + i] = events[i]
      BY <2>1, InConcat
    <3> QED BY <3>1
  <2> HIDE DEF m
  <2>5. Ended(l) => Ended(m)
    BY <2>3 DEF Ended, Has
  <2>6. ~StillWaiting(l) => ~StillWaiting(m)
    BY <2>3 DEF StillWaiting
  <2>7. Ended(events) => Ended(m)
    BY <2>4 DEF Ended, Has
  <2> QED BY <1>2, <2>1, <2>2, <2>5, <2>6, <2>7 DEF m
<1> QED BY <1>1, <1>2

(***************************************************************************)
(* The scripts, run by run                                                 *)
(***************************************************************************)
LEMMA QueuedOnce ==
    ASSUME NEW q \in QueueType, NEW p, NEW r \in Runs, NEW s \in Runs,
           p.runs = Append(q.runs, r)
    PROVE  OnRuns(p, s) <=> OnRuns(q, s) \/ s = r
<1> DEFINE t == q.runs
<1>1. t \in Seq(Runs)
  BY QueueFields
<1>2. /\ \A i \in DOMAIN t : i \in DOMAIN Append(t, r) /\ Append(t, r)[i] = t[i]
      /\ Len(t) + 1 \in DOMAIN Append(t, r) /\ Append(t, r)[Len(t) + 1] = r
      /\ \A i \in DOMAIN Append(t, r) : i \in DOMAIN t \/ i = Len(t) + 1
  BY <1>1, InAppend
<1>3. OnRuns(p, s) <=> \E i \in DOMAIN Append(t, r) : Append(t, r)[i] = s
  BY DEF OnRuns
<1> HIDE DEF t
<1>4. (\E i \in DOMAIN Append(t, r) : Append(t, r)[i] = s) <=> (\E i \in DOMAIN t : t[i] = s) \/ s = r
  BY <1>2
<1> QED BY <1>3, <1>4 DEF OnRuns, t

LEMMA PushEffect ==
    ASSUME NEW q \in QueueType, NEW r \in Runs, NEW s \in Runs
    PROVE  LET p == Push(q, r)
           IN  /\ HeldIn(p, s) <=> HeldIn(q, s) \/ s = r
               /\ p.pending[s] = IF s = r THEN "no" ELSE q.pending[s]
               /\ p.lease[s] = q.lease[s] /\ p.processing[s] = q.processing[s]
<1> DEFINE p == Push(q, r)
<1>1. /\ p.runs = Append(q.runs, r)
      /\ p.processing = q.processing /\ p.parked = q.parked /\ p.lease = q.lease
      /\ p.pending = [q.pending EXCEPT ![r] = "no"]
  BY DEF Push, QueueType
<1>2. OnRuns(p, s) <=> OnRuns(q, s) \/ s = r
  BY <1>1, QueuedOnce
<1>3. p.pending[s] = IF s = r THEN "no" ELSE q.pending[s]
  BY <1>1, QueueFields
<1> HIDE DEF p
<1>4. HeldIn(p, s) <=> HeldIn(q, s) \/ s = r
  BY <1>1, <1>2 DEF HeldIn
<1> QED BY <1>1, <1>3, <1>4 DEF p

LEMMA PendingEffect ==
    ASSUME NEW q \in QueueType, NEW r \in Runs, NEW s \in Runs,
           NEW p \in {Pend(q, r), Unpend(q, r), PendingAges(q, r)}
    PROVE  /\ HeldIn(p, s) <=> HeldIn(q, s)
           /\ p.lease[s] = q.lease[s] /\ p.processing[s] = q.processing[s]
           /\ s # r => p.pending[s] = q.pending[s]
           /\ p = Pend(q, r) /\ s = r => p.pending[s] # "no"
           /\ p = Pend(q, r) /\ q.pending[s] # "no" => p.pending[s] = q.pending[s]
           /\ p = Pend(q, r) /\ p.pending[s] = "old" => q.pending[s] = "old"
           /\ p = Unpend(q, r) /\ s = r => p.pending[s] = "no"
           /\ p = PendingAges(q, r) /\ q.pending[s] # "no" => p.pending[s] # "no"
           /\ p = PendingAges(q, r) /\ p.pending[s] # "no" => q.pending[s] # "no"
<1>1. /\ p.runs = q.runs /\ p.processing = q.processing /\ p.parked = q.parked
      /\ p.lease = q.lease
  BY DEF Pend, Unpend, PendingAges, QueueType
<1>2. p.pending \in {[q.pending EXCEPT ![r] = IF q.pending[r] = "no" THEN "fresh" ELSE q.pending[r]],
                     [q.pending EXCEPT ![r] = "no"],
                     [q.pending EXCEPT ![r] = IF q.pending[r] = "no" THEN q.pending[r] ELSE "old"]}
  BY DEF Pend, Unpend, PendingAges, QueueType
<1>3. p = Pend(q, r) =>
        p.pending = [q.pending EXCEPT ![r] = IF q.pending[r] = "no" THEN "fresh" ELSE q.pending[r]]
  BY DEF Pend, QueueType
<1>4. p = Unpend(q, r) => p.pending = [q.pending EXCEPT ![r] = "no"]
  BY DEF Unpend, QueueType
<1>5. p = PendingAges(q, r) =>
        p.pending = [q.pending EXCEPT ![r] = IF q.pending[r] = "no" THEN q.pending[r] ELSE "old"]
  BY DEF PendingAges, QueueType
<1>6. HeldIn(p, s) <=> HeldIn(q, s)
  BY <1>1 DEF HeldIn, OnRuns
<1> QED BY <1>1, <1>2, <1>3, <1>4, <1>5, <1>6, QueueFields

LEMMA StartEffect ==
    ASSUME NEW q \in QueueType, NEW r \in Runs
    PROVE  LET p == Start(q, r)
           IN  /\ p.runs = q.runs /\ p.processing = q.processing /\ p.parked = q.parked
               /\ p.lease = q.lease /\ p.pending = q.pending
BY DEF Start, QueueType

LEMMA LeaseExpiresEffect ==
    ASSUME NEW q \in QueueType, NEW r \in Runs, NEW s \in Runs
    PROVE  LET p == LeaseExpires(q, r)
           IN  /\ p.runs = q.runs /\ p.processing = q.processing /\ p.parked = q.parked
               /\ p.lease[s] = IF s = r THEN NoLease ELSE q.lease[s]
               /\ p.pending = q.pending
BY DEF LeaseExpires, QueueType

LEMMA WakeEffect ==
    ASSUME NEW q \in QueueType, NEW r \in Runs, NEW a, NEW s \in Runs
    PROVE  LET p == Wake(q, r, a)
           IN  /\ HeldIn(p, s) <=> HeldIn(q, s)
               /\ p.lease = q.lease /\ p.processing = q.processing /\ p.pending = q.pending
<1> DEFINE p == Wake(q, r, a)
<1>1. CASE p = q
  BY <1>1
<1>2. CASE p # q
  <2>1. /\ q.parked[r] # 0
        /\ p = [q EXCEPT !.parked[r] = 0, !.runs = Append(@, r)]
    BY <1>2 DEF Wake
  <2>2. /\ p.runs = Append(q.runs, r) /\ p.parked = [q.parked EXCEPT ![r] = 0]
        /\ p.lease = q.lease /\ p.processing = q.processing /\ p.pending = q.pending
    BY <2>1 DEF QueueType
  <2> HIDE DEF p
  <2>3. OnRuns(p, s) <=> OnRuns(q, s) \/ s = r
    BY <2>2, QueuedOnce
  <2>4. p.parked[s] = IF s = r THEN 0 ELSE q.parked[s]
    BY <2>2, QueueFields
  <2> QED BY <2>1, <2>2, <2>3, <2>4 DEF HeldIn, p
<1> QED BY <1>1, <1>2

LEMMA ReleaseEffect ==
    ASSUME NEW q \in QueueType, NEW r \in Runs, NEW w \in Workers, NEW s \in Runs
    PROVE  LET p == Release(q, r, w)
           IN  /\ HeldIn(q, s) => HeldIn(p, s)
               /\ HeldIn(p, s) => HeldIn(q, s) \/ s = r
               /\ p.pending = q.pending
               /\ p.lease[s] # NoLease => p.lease[s] = q.lease[s] /\ p.processing[s] = q.processing[s]
<1> DEFINE p == Release(q, r, w)
<1>1. CASE q.lease[r] # w
  BY <1>1 DEF Release
<1>2. CASE q.lease[r] = w
  <2>1. /\ p.runs = Append(q.runs, r) /\ p.parked = q.parked /\ p.pending = q.pending
        /\ p.processing = [q.processing EXCEPT ![r] = OneLess(q.processing[r])]
        /\ p.lease = [q.lease EXCEPT ![r] = NoLease]
    BY <1>2 DEF Release, QueueType
  <2> HIDE DEF p
  <2>2. OnRuns(p, s) <=> OnRuns(q, s) \/ s = r
    BY <2>1, QueuedOnce
  <2>3. s # r => p.processing[s] = q.processing[s]
    BY <2>1, QueueFields
  <2>4. p.lease[s] = IF s = r THEN NoLease ELSE q.lease[s]
    BY <2>1, QueueFields
  <2> QED BY <2>1, <2>2, <2>3, <2>4 DEF HeldIn, p
<1> QED BY <1>1, <1>2

LEMMA ParkEffect ==
    ASSUME NEW q \in QueueType, NEW r \in Runs, NEW w \in Workers, NEW s \in Runs,
           NEW a \in 0..MaxDecisions, a # 0
    PROVE  LET p == Park(q, r, w, a)
           IN  /\ HeldIn(q, s) => HeldIn(p, s)
               /\ HeldIn(p, s) => HeldIn(q, s) \/ s = r
               /\ p.pending = q.pending
               /\ p.lease[s] # NoLease => p.lease[s] = q.lease[s] /\ p.processing[s] = q.processing[s]
<1> DEFINE p == Park(q, r, w, a)
<1>1. CASE q.lease[r] # w
  BY <1>1 DEF Park
<1>2. CASE q.lease[r] = w
  <2>1. /\ p.runs = q.runs /\ p.pending = q.pending
        /\ p.parked = [q.parked EXCEPT ![r] = a]
        /\ p.processing = [q.processing EXCEPT ![r] = OneLess(q.processing[r])]
        /\ p.lease = [q.lease EXCEPT ![r] = NoLease]
    BY <1>2 DEF Park, QueueType
  <2> HIDE DEF p
  <2>2. OnRuns(p, s) <=> OnRuns(q, s)
    BY <2>1 DEF OnRuns
  <2>3. s # r => p.processing[s] = q.processing[s] /\ p.parked[s] = q.parked[s]
    BY <2>1, QueueFields
  <2>4. p.lease[s] = (IF s = r THEN NoLease ELSE q.lease[s]) /\ p.parked[r] # 0
    BY <2>1, QueueFields
  <2> QED BY <2>1, <2>2, <2>3, <2>4 DEF HeldIn, p
<1> QED BY <1>1, <1>2

LEMMA AckEffect ==
    ASSUME NEW q \in QueueType, NEW r \in Runs, NEW w \in Workers, NEW s \in Runs
    PROVE  LET p == Ack(q, r, w)
           IN  /\ HeldIn(p, s) => HeldIn(q, s)
               /\ s # r => /\ HeldIn(q, s) => HeldIn(p, s)
                           /\ p.processing[s] = q.processing[s]
               /\ p.pending = q.pending
               /\ p.lease[s] # NoLease => p.lease[s] = q.lease[s]
<1> DEFINE p == Ack(q, r, w)
<1>1. /\ p.runs = q.runs /\ p.pending = q.pending /\ p.parked = q.parked
      /\ p.processing = [q.processing EXCEPT ![r] = OneLess(q.processing[r])]
      /\ p.lease = [q.lease EXCEPT ![r] = IF q.lease[r] = w THEN NoLease ELSE q.lease[r]]
  BY DEF Ack, QueueType
<1> HIDE DEF p
<1>2. OnRuns(p, s) <=> OnRuns(q, s)
  BY <1>1 DEF OnRuns
<1>3. p.processing[s] > 0 => q.processing[s] > 0
  BY <1>1, QueueFields DEF OneLess
<1>4. s # r => p.processing[s] = q.processing[s]
  BY <1>1, QueueFields
<1>5. p.lease[s] # NoLease => p.lease[s] = q.lease[s]
  BY <1>1, QueueFields
<1> QED BY <1>1, <1>2, <1>3, <1>4, <1>5 DEF HeldIn, p

LEMMA ClaimEffect ==
    ASSUME NEW q \in QueueType, NEW w \in Workers, q.runs # <<>>, NEW s \in Runs
    PROVE  LET p == Claim(q, w)
               r == Head(q.runs)
           IN  /\ HeldIn(p, s) => HeldIn(q, s)
               /\ HeldIn(q, s) => HeldIn(p, s) \/ (s = r /\ q.lease[r] # NoLease)
               /\ p.processing[s] >= q.processing[s]
               /\ p.pending = q.pending
               /\ p.lease[s] # NoLease => \/ p.lease[s] = q.lease[s]
                                          \/ s = r /\ p.processing[s] > 0
<1> DEFINE p == Claim(q, w)
           r == Head(q.runs)
<1>1. r \in Runs /\ Tail(q.runs) \in Seq(Runs) /\ OnRuns(q, r)
  BY QueueFields DEF OnRuns
<1>2. p.runs = Tail(q.runs) /\ p.pending = q.pending /\ p.parked = q.parked
  BY DEF Claim, QueueType
<1>3. \/ /\ q.lease[r] = NoLease
         /\ p.processing = [q.processing EXCEPT ![r] = q.processing[r] + 1]
         /\ p.lease = [q.lease EXCEPT ![r] = w]
      \/ /\ q.lease[r] # NoLease
         /\ p.processing = q.processing /\ p.lease = q.lease
  BY DEF Claim, QueueType
<1>4. OnRuns(q, s) => s = r \/ OnRuns(p, s)
  <2>1. q.runs \in Seq(Runs)
    BY QueueFields
  <2>2. \A i \in DOMAIN q.runs :
           q.runs[i] = r \/ \E j \in DOMAIN Tail(q.runs) : Tail(q.runs)[j] = q.runs[i]
    BY <2>1, InTail
  <2> HIDE DEF p, r
  <2> QED BY <1>2, <2>2 DEF OnRuns
<1>5. OnRuns(p, s) => OnRuns(q, s)
  <2>1. \A i \in DOMAIN Tail(q.runs) : i + 1 \in DOMAIN q.runs /\ q.runs[i + 1] = Tail(q.runs)[i]
    BY QueueFields
  <2> QED BY <1>2, <2>1 DEF OnRuns
<1> HIDE DEF p, r
<1>6. p.processing[s] >= q.processing[s] /\ (s = r /\ q.lease[r] = NoLease => p.processing[s] > 0)
  BY <1>1, <1>3, QueueFields
<1>7. q.processing[s] > 0 => p.processing[s] > 0
  <2>1. q.processing[s] \in Nat /\ p.processing[s] \in {q.processing[s], q.processing[s] + 1}
    BY <1>1, <1>3, QueueFields
  <2> QED BY <2>1
<1>8. p.processing[s] > 0 => q.processing[s] > 0 \/ s = r
  BY <1>1, <1>3, QueueFields
<1>9. p.lease[s] # NoLease => \/ p.lease[s] = q.lease[s]
                              \/ s = r /\ q.lease[r] = NoLease
  BY <1>1, <1>3, QueueFields
<1>10. HeldIn(p, s) => HeldIn(q, s)
  BY <1>1, <1>2, <1>5, <1>8 DEF HeldIn
<1>11. HeldIn(q, s) => HeldIn(p, s) \/ (s = r /\ q.lease[r] # NoLease)
  BY <1>2, <1>4, <1>6, <1>7 DEF HeldIn
<1> QED BY <1>2, <1>6, <1>9, <1>10, <1>11 DEF p, r

LEMMA ReapEffect ==
    ASSUME NEW q \in QueueType, NEW order \in ReapOrders(q), NEW s \in Runs
    PROVE  LET p == Reap(q, order)
           IN  /\ HeldIn(p, s) <=> HeldIn(q, s)
               /\ p.pending = q.pending /\ p.lease = q.lease
               /\ q.lease[s] # NoLease => p.processing[s] = q.processing[s]
<1> DEFINE p == Reap(q, order)
           moved == [i \in DOMAIN order |-> order[i][1]]
           left == [r \in Runs |-> IF q.lease[r] = NoLease THEN 0 ELSE q.processing[r]]
<1>1. moved \in Seq(Runs) /\ DOMAIN moved = DOMAIN order
  BY ReapType
<1>2. /\ p.runs = moved \o q.runs /\ p.processing = left
      /\ p.pending = q.pending /\ p.parked = q.parked /\ p.lease = q.lease
  BY DEF Reap, QueueType
<1>3. left[s] = IF q.lease[s] = NoLease THEN 0 ELSE q.processing[s]
  OBVIOUS
<1>4. \A i \in DOMAIN order : order[i] \in Orphans(q)
  BY DEF ReapOrders
<1>5. \A i \in DOMAIN moved : moved[i] = s => q.processing[s] > 0
  <2> SUFFICES ASSUME NEW i \in DOMAIN order, order[i][1] = s PROVE q.processing[s] > 0
    BY <1>1
  <2>1. PICK r \in Runs : order[i] \in {r} \X (1..q.processing[r])
    BY <1>4 DEF Orphans
  <2>2. r = s /\ order[i][2] \in 1..q.processing[s]
    BY <2>1
  <2> QED BY <2>2, QueueFields
<1>6. q.processing[s] > 0 /\ q.lease[s] = NoLease => \E i \in DOMAIN moved : moved[i] = s
  <2> SUFFICES ASSUME q.processing[s] > 0, q.lease[s] = NoLease
               PROVE  \E i \in DOMAIN moved : moved[i] = s
    OBVIOUS
  <2>1. <<s, 1>> \in {s} \X (1..q.processing[s])
    BY QueueFields
  <2>2. <<s, 1>> \in Orphans(q)
    BY <2>1 DEF Orphans
  <2>3. \E i \in DOMAIN order : order[i] = <<s, 1>>
    BY <2>2 DEF ReapOrders
  <2> QED BY <2>3
<1> HIDE DEF p, moved, left
<1>7. OnRuns(p, s) <=> OnRuns(q, s) \/ \E i \in DOMAIN moved : moved[i] = s
  <2>1. \A i \in DOMAIN q.runs : \E j \in DOMAIN p.runs : p.runs[j] = q.runs[i]
    <3> TAKE i \in DOMAIN q.runs
    <3>1. Len(moved) + i \in DOMAIN p.runs /\ p.runs[Len(moved) + i] = q.runs[i]
      BY <1>1, <1>2, QueueFields, InConcat
    <3> QED BY <3>1
  <2>2. \A i \in DOMAIN moved : i \in DOMAIN p.runs /\ p.runs[i] = moved[i]
    BY <1>1, <1>2, QueueFields, InConcat
  <2>3. \A i \in DOMAIN p.runs : \/ i \in DOMAIN moved /\ p.runs[i] = moved[i]
                                 \/ \E j \in DOMAIN q.runs : p.runs[i] = q.runs[j]
    BY <1>1, <1>2, QueueFields, InConcat
  <2> QED BY <2>1, <2>2, <2>3 DEF OnRuns
<1> QED BY <1>2, <1>3, <1>5, <1>6, <1>7 DEF HeldIn, p

(***************************************************************************)
(* Kept, and the threads that stand still                                  *)
(***************************************************************************)
LEMMA KeptGlobal ==
    ASSUME IndInv, Kept
    PROVE  NothingLost' /\ LeaseBacked' /\ QueuedAreStored' /\ AdvancedAreHeld'
<1> USE DEF Kept, KeptRun, Stored, Open, Held
<1>1. NothingLost'
  BY DEF IndInv, NothingLost, Tracked
<1>2. LeaseBacked'
  BY DEF LeaseBacked
<1>3. QueuedAreStored'
  BY DEF QueuedAreStored
<1>4. AdvancedAreHeld'
  BY DEF IndInv, AdvancedAreHeld
<1> QED BY <1>1, <1>2, <1>3, <1>4

\* A run that will not be lost is not lost.
LEMMA KeptOpen ==
    ASSUME Kept, NEW r \in Runs, Stored(r), Open(r) => Held(r)
    PROVE  log'[r] # <<>> /\ (Ended(log'[r]) \/ HeldIn(queue', r))
BY DEF Kept, KeptRun, Open

LEMMA WorkerStands ==
    ASSUME IndInv, Kept, NEW w \in Workers, wk'[w] = wk[w]
    PROVE  WorkerSafe(w)'
<1>1. CASE wk[w].pc = "idle"
  BY <1>1 DEF WorkerSafe
<1>2. CASE wk[w].pc # "idle"
  <2> DEFINE r == wk[w].run
  <2>1. r \in Runs /\ WorkerSafe(w)
    BY <1>2 DEF IndInv, TypeInv, BusyOnRuns
  <2>2. Stored(r) /\ (Open(r) => Held(r))
    BY <1>2, <2>1 DEF WorkerSafe
  <2>3. log'[r] # <<>> /\ (Ended(log'[r]) \/ HeldIn(queue', r))
    BY <2>1, <2>2, KeptOpen
  <2>4. Ended(log[r]) => Ended(log'[r])
    BY <2>1 DEF Kept, KeptRun
  <2> QED BY <1>2, <2>1, <2>3, <2>4 DEF WorkerSafe, Stored, Open, Held
<1> QED BY <1>1, <1>2

LEMMA CourierStands ==
    ASSUME IndInv, Kept, NEW d \in Couriers, dl'[d] = dl[d]
    PROVE  CourierSafe(d)'
<1>1. dl[d].pc # "idle" => dl[d].run \in Runs
  BY DEF IndInv, TypeInv, BusyOnRuns
<1> QED
  BY <1>1 DEF IndInv, CourierSafe, Kept, KeptRun, Stored

LEMMA SweeperStands ==
    ASSUME IndInv, Kept, sw' = sw, \A r \in Runs : NeverStored(r) => NeverStored(r)'
    PROVE  SweeperSafe'
<1>1. CASE sw.pc = "idle"
  BY <1>1 DEF SweeperSafe
<1>2. CASE sw.pc # "idle"
  <2> DEFINE r == sw.run
  <2>1. r \in Runs /\ SweeperSafe
    BY <1>2 DEF IndInv, TypeInv, BusyOnRuns
  <2>2. Stored(r) /\ (Open(r) => Held(r)) => log'[r] # <<>> /\ (Ended(log'[r]) \/ HeldIn(queue', r))
    BY <2>1, KeptOpen
  <2>3. ~Stored(r) /\ NeverStored(r) => log'[r] = <<>> /\ NeverStored(r)'
    BY <2>1 DEF Kept, KeptRun
  <2>4. Stored(r) => log'[r] # <<>>
    BY <2>1 DEF Kept, KeptRun
  <2>5. (sw.pc = "push" => Stored(r))'
    BY <1>2, <2>1, <2>4 DEF SweeperSafe, Stored
  <2>6. (sw.pc = "load" /\ sw.forgotten /\ ~Stored(r) => NeverStored(r))'
    BY <1>2, <2>1, <2>3, <2>4 DEF SweeperSafe, Stored
  <2>7. (sw.pc = "unpend" => IF Stored(r) THEN Open(r) => Held(r) ELSE NeverStored(r))'
    BY <1>2, <2>1, <2>2, <2>3 DEF SweeperSafe, Stored, Open, Held
  <2> QED BY <2>5, <2>6, <2>7 DEF SweeperSafe
<1> QED BY <1>1, <1>2

LEMMA ProducersStand ==
    ASSUME IndInv, Kept, pr' = pr, late' = late,
           \A r \in Runs : queue'.pending[r] \in {queue.pending[r], "no"}
    PROVE  /\ \A p \in Producers : ProducerSafe(p)'
           /\ ForgottenInv'
           /\ \A r \in Runs : NeverStored(r) => NeverStored(r)'
<1>1. \A r \in Runs : NeverStored(r) => NeverStored(r)'
  BY DEF NeverStored
<1>2. ForgottenInv'
  BY <1>1 DEF IndInv, ForgottenInv, Kept, KeptRun, Stored
<1>3. ASSUME NEW p \in Producers PROVE ProducerSafe(p)'
  <2> DEFINE r == ProducedRun[p]
  <2>1. r \in Runs /\ ProducerSafe(p)
    BY ProducerAssumption DEF IndInv
  <2>2. (pr[p] = "put" \/ p \in late) => ~NeverStored(r)
    BY DEF NeverStored
  <2>3. ((pr[p] = "put" \/ p \in late) /\ ~Stored(r) => queue.pending[r] # "no")'
    <3>1. log'[r] = <<>> => ~Ended(log'[r])
      BY DEF Ended, Has
    <3> QED BY <2>1, <2>2, <3>1 DEF ProducerSafe, Kept, KeptRun, Stored
  <2>4. Stored(r) => log'[r] # <<>>
    BY <2>1 DEF Kept, KeptRun
  <2>5. Stored(r) /\ (Open(r) => Held(r)) => Ended(log'[r]) \/ HeldIn(queue', r)
    BY <2>1, KeptOpen
  <2> QED BY <2>1, <2>3, <2>4, <2>5 DEF ProducerSafe, Stored, Open, Held
<1> QED BY <1>1, <1>2, <1>3

(***************************************************************************)
(* Every script keeps every run                                            *)
(***************************************************************************)
\* What a script must do to run s for Kept to hold.
Moved(s) ==
    /\ Held(s) => HeldIn(queue', s) \/ Ended(log[s])
    /\ HeldIn(queue', s) => Stored(s)
    /\ queue'.lease[s] # NoLease => Stored(s) /\ (Ended(log[s]) \/ queue'.processing[s] > 0)
    /\ queue.pending[s] # "no" =>
          \/ queue'.pending[s] # "no" \/ HeldIn(queue', s) \/ Ended(log[s])
          \/ ~Stored(s) /\ NeverStored(s)

LEMMA QueueKept ==
    ASSUME log' = log, \A s \in Runs : Moved(s)
    PROVE  Kept
BY DEF Moved, Kept, KeptRun, Stored, Open

\* What IndInv says of the queue.
LEMMA QueueFacts ==
    ASSUME IndInv, NEW s \in Runs
    PROVE  /\ queue \in QueueType
           /\ Held(s) \/ queue.lease[s] # NoLease => Stored(s)
           /\ queue.lease[s] # NoLease => Ended(log[s]) \/ queue.processing[s] > 0
           /\ queue.processing[s] \in Nat
BY DEF IndInv, TypeInv, TypeOK, QueueType, QueuedAreStored, LeaseBacked, Open, Stored

LEMMA SameQueueKept == ASSUME IndInv, log' = log, queue' = queue PROVE Kept
BY QueueFacts, QueueKept DEF Moved, Held

LEMMA PushKept ==
    ASSUME IndInv, log' = log, NEW r \in Runs, queue' = Push(queue, r), Stored(r)
    PROVE  Kept /\ \A s \in Runs : queue'.pending[s] \in {queue.pending[s], "no"}
<1>1. ASSUME NEW s \in Runs PROVE Moved(s) /\ queue'.pending[s] \in {queue.pending[s], "no"}
  BY QueueFacts, PushEffect DEF Moved, Held
<1> QED BY <1>1, QueueKept

LEMMA UnpendKept ==
    ASSUME IndInv, log' = log, NEW r \in Runs, queue' = Unpend(queue, r),
           IF Stored(r) THEN Open(r) => Held(r) ELSE NeverStored(r)
    PROVE  Kept /\ \A s \in Runs : queue'.pending[s] \in {queue.pending[s], "no"}
<1>1. ASSUME NEW s \in Runs PROVE Moved(s) /\ queue'.pending[s] \in {queue.pending[s], "no"}
  BY QueueFacts, PendingEffect DEF Moved, Held, Open
<1> QED BY <1>1, QueueKept

LEMMA PendKept ==
    ASSUME IndInv, log' = log, NEW r \in Runs,
           queue' = Pend(queue, r) \/ queue' = PendingAges(queue, r)
    PROVE  Kept
<1>1. ASSUME NEW s \in Runs PROVE Moved(s)
  BY QueueFacts, PendingEffect DEF Moved, Held
<1> QED BY <1>1, QueueKept

LEMMA ClaimKept ==
    ASSUME IndInv, log' = log, NEW w \in Workers, queue.runs # <<>>, queue' = Claim(queue, w)
    PROVE  Kept /\ queue'.pending = queue.pending
<1>1. ASSUME NEW s \in Runs PROVE Moved(s) /\ queue'.pending = queue.pending
  <2> DEFINE r == Head(queue.runs)
  <2>1. /\ HeldIn(queue', s) => HeldIn(queue, s)
        /\ HeldIn(queue, s) => HeldIn(queue', s) \/ (s = r /\ queue.lease[r] # NoLease)
        /\ queue'.processing[s] >= queue.processing[s]
        /\ queue'.pending = queue.pending
        /\ queue'.lease[s] # NoLease => \/ queue'.lease[s] = queue.lease[s]
                                        \/ s = r /\ queue'.processing[s] > 0
    BY QueueFacts, ClaimEffect
  <2>2. queue'.processing[s] > 0 => HeldIn(queue', s)
    BY DEF HeldIn
  <2>3. queue'.processing[s] \in Nat
    BY QueueFacts, ClaimType DEF QueueType
  <2>4. queue.processing[s] > 0 => queue'.processing[s] > 0
    BY <2>1, <2>3, QueueFacts
  <2> QED BY <2>1, <2>2, <2>4, QueueFacts DEF Moved, Held
<1>2. queue'.pending = queue.pending
  BY QueueFacts, ClaimType, ClaimEffect DEF IndInv, TypeInv, TypeOK
<1> QED BY <1>1, <1>2, QueueKept

LEMMA ReapKept ==
    ASSUME IndInv, log' = log, NEW order \in ReapOrders(queue), queue' = Reap(queue, order)
    PROVE  Kept /\ \A s \in Runs : queue'.pending[s] = queue.pending[s]
<1>1. ASSUME NEW s \in Runs PROVE Moved(s) /\ queue'.pending[s] = queue.pending[s]
  BY QueueFacts, ReapEffect DEF Moved, Held
<1> QED BY <1>1, QueueKept

\* A release, after a start that Redis did or did not count.
LEMMA ReleaseKept ==
    ASSUME IndInv, log' = log, NEW r \in Runs, NEW w \in Workers, Stored(r),
           NEW q \in {queue, Start(queue, r)}, queue' = Release(q, r, w)
    PROVE  Kept /\ \A s \in Runs : queue'.pending[s] = queue.pending[s]
<1>1. ASSUME NEW s \in Runs PROVE Moved(s) /\ queue'.pending[s] = queue.pending[s]
  <2>1. q \in QueueType
    BY QueueFacts, ScriptTypes
  <2>2. /\ q.runs = queue.runs /\ q.processing = queue.processing /\ q.parked = queue.parked
        /\ q.lease = queue.lease /\ q.pending = queue.pending
    BY QueueFacts, StartEffect
  <2>3. HeldIn(q, s) <=> HeldIn(queue, s)
    BY <2>2 DEF HeldIn, OnRuns
  <2>4. /\ HeldIn(q, s) => HeldIn(queue', s)
        /\ HeldIn(queue', s) => HeldIn(q, s) \/ s = r
        /\ queue'.pending = q.pending
        /\ queue'.lease[s] # NoLease => queue'.lease[s] = q.lease[s] /\ queue'.processing[s] = q.processing[s]
    BY <2>1, ReleaseEffect
  <2> QED BY <2>2, <2>3, <2>4, QueueFacts DEF Moved, Held
<1> QED BY <1>1, QueueKept

LEMMA ParkKept ==
    ASSUME IndInv, log' = log, NEW r \in Runs, NEW w \in Workers, Stored(r),
           NEW a \in 0..MaxDecisions, a # 0, queue' = Park(queue, r, w, a)
    PROVE  Kept /\ \A s \in Runs : queue'.pending[s] = queue.pending[s]
<1>1. ASSUME NEW s \in Runs PROVE Moved(s) /\ queue'.pending[s] = queue.pending[s]
  BY QueueFacts, ParkEffect DEF Moved, Held
<1> QED BY <1>1, QueueKept

LEMMA WakeKept ==
    ASSUME IndInv, log' = log, NEW r \in Runs, NEW a, queue' = Wake(queue, r, a)
    PROVE  Kept /\ \A s \in Runs : queue'.pending[s] = queue.pending[s]
<1>1. ASSUME NEW s \in Runs PROVE Moved(s) /\ queue'.pending[s] = queue.pending[s]
  BY QueueFacts, WakeEffect DEF Moved, Held
<1> QED BY <1>1, QueueKept

LEMMA AckKept ==
    ASSUME IndInv, log' = log, NEW r \in Runs, NEW w \in Workers, Ended(log[r]),
           queue' = Ack(queue, r, w)
    PROVE  Kept /\ \A s \in Runs : queue'.pending[s] = queue.pending[s]
<1>1. ASSUME NEW s \in Runs PROVE Moved(s) /\ queue'.pending[s] = queue.pending[s]
  BY QueueFacts, AckEffect DEF Moved, Held
<1> QED BY <1>1, QueueKept

LEMMA StartKept ==
    ASSUME IndInv, log' = log, NEW r \in Runs,
           queue' = Start(queue, r) \/ queue' = LeaseExpires(queue, r)
    PROVE  Kept /\ \A s \in Runs : queue'.pending[s] = queue.pending[s]
<1>1. ASSUME NEW s \in Runs PROVE Moved(s) /\ queue'.pending[s] = queue.pending[s]
  <2>1. /\ queue'.runs = queue.runs /\ queue'.processing = queue.processing
        /\ queue'.parked = queue.parked /\ queue'.pending = queue.pending
        /\ queue'.lease[s] \in {queue.lease[s], NoLease}
    BY QueueFacts, StartEffect, LeaseExpiresEffect
  <2>2. HeldIn(queue', s) <=> HeldIn(queue, s)
    BY <2>1 DEF HeldIn, OnRuns
  <2> QED BY <2>1, <2>2, QueueFacts DEF Moved, Held
<1> QED BY <1>1, QueueKept

(***************************************************************************)
(* Every append keeps every run                                            *)
(***************************************************************************)
LEMMA AppendKept ==
    ASSUME IndInv, queue' = queue, NEW r \in Runs, NEW seen, NEW events \in Seq(Event),
           log' = [log EXCEPT ![r] = AppendEventsAfter(log[r], seen, events)],
           Open(r) /\ StillWaiting(log[r]) => Held(r) \/ Ended(events)
    PROVE  Kept
<1> SUFFICES ASSUME NEW s \in Runs PROVE KeptRun(s)
  BY DEF Kept
<1>1. log[s] \in Seq(Event) /\ log'[s] = IF s = r THEN AppendEventsAfter(log[r], seen, events) ELSE log[s]
  BY DEF IndInv, TypeInv, TypeOK
<1>2. CASE s # r
  BY <1>1, <1>2, QueueFacts DEF KeptRun, Held, Stored
<1>3. CASE s = r
  <2>1. /\ log'[s] = <<>> <=> log[s] = <<>>
        /\ Ended(log[s]) => Ended(log'[s])
        /\ ~StillWaiting(log[s]) => ~StillWaiting(log'[s])
        /\ Ended(events) => log'[s] = log[s] \/ Ended(log'[s])
    BY <1>1, <1>3, AppendKeeps
  <2> QED BY <1>3, <2>1, QueueFacts DEF KeptRun, Held, Stored
<1> QED BY <1>2, <1>3

LEMMA PutKept ==
    ASSUME IndInv, queue' = queue, NEW p \in Producers, pr[p] = "put" \/ p \in late,
           log' = [log EXCEPT ![ProducedRun[p]] = PutRun(@)]
    PROVE  Kept
<1> DEFINE r == ProducedRun[p]
<1> SUFFICES ASSUME NEW s \in Runs PROVE KeptRun(s)
  BY DEF Kept
<1>1. r \in Runs /\ log'[s] = IF s = r THEN PutRun(log[r]) ELSE log[s]
  BY ProducerAssumption DEF IndInv, TypeInv, TypeOK
<1>2. CASE log'[s] = log[s]
  BY <1>2, QueueFacts DEF KeptRun, Held, Stored
<1>3. CASE log'[s] # log[s]
  <2>1. s = r /\ log[s] = <<>> /\ log'[s] = <<Plain("RunQueued")>>
    BY <1>1, <1>3 DEF PutRun, QueuedEvents
  <2>2. log'[s] # <<>> /\ StillWaiting(log'[s])
    <3> DEFINE e == Plain("RunQueued")
    <3>1. e.type = "RunQueued"
      BY DEF Plain
    <3>2. log'[s] = <<e>>
      BY <2>1
    <3> HIDE DEF e
    <3> QED BY <3>1, <3>2 DEF StillWaiting
  <2>3. ~Ended(log[s]) /\ ~NeverStored(s)
    BY <2>1 DEF Ended, Has, NeverStored
  <2>4. queue.pending[s] # "no"
    BY <2>1 DEF IndInv, ProducerSafe, Stored
  <2> QED BY <2>1, <2>2, <2>3, <2>4, QueueFacts DEF KeptRun, Held, Stored, Open
<1> QED BY <1>2, <1>3

(***************************************************************************)
(* The steps                                                               *)
(***************************************************************************)
\* A step that leaves the producers alone preserves IndInv if it keeps every
\* run and its thread.
LEMMA StepInd ==
    ASSUME IndInv, TypeInv', Kept, pr' = pr, late' = late,
           \A r \in Runs : queue'.pending[r] \in {queue.pending[r], "no"},
           \A w \in Workers : wk'[w] = wk[w] \/ WorkerSafe(w)',
           \A d \in Couriers : dl'[d] = dl[d] \/ CourierSafe(d)',
           sw' = sw \/ SweeperSafe'
    PROVE  IndInv'
<1>1. NothingLost' /\ LeaseBacked' /\ QueuedAreStored' /\ AdvancedAreHeld'
  BY KeptGlobal
<1>2. /\ \A p \in Producers : ProducerSafe(p)'
      /\ ForgottenInv'
      /\ \A r \in Runs : NeverStored(r) => NeverStored(r)'
  BY ProducersStand
<1>3. \A w \in Workers : WorkerSafe(w)'
  BY WorkerStands
<1>4. \A d \in Couriers : CourierSafe(d)'
  BY CourierStands
<1>5. SweeperSafe'
  BY <1>2, SweeperStands
<1> QED
  BY <1>1, <1>2, <1>3, <1>4, <1>5 DEF IndInv

LEMMA WorkerFields ==
    ASSUME TypeInv, NEW w \in Workers
    PROVE  /\ \A k : Becomes(w, k) => wk'[w] = k /\ \A v \in Workers \ {w} : wk'[v] = wk[v]
           /\ Rests(w) => wk'[w].pc = "idle"
           /\ \A pc, a : Finishes(w, pc, a) =>
                 wk'[w].pc = pc /\ wk'[w].run = wk[w].run /\ wk'[w].ask = a
           /\ \A pc : Goes(w, pc) =>
                 /\ wk'[w].pc = pc /\ wk'[w].run = wk[w].run
                 /\ wk'[w].events = wk[w].events /\ wk'[w].ask = wk[w].ask
<1>1. wk \in [Workers -> WorkerType] /\ wk[w] \in WorkerType
  BY DEF TypeInv, TypeOK
<1>2. ASSUME NEW k, Becomes(w, k)
      PROVE  wk'[w] = k /\ \A v \in Workers \ {w} : wk'[v] = wk[v]
  BY <1>1, <1>2 DEF Becomes
<1>3. ASSUME Rests(w) PROVE wk'[w].pc = "idle"
  BY <1>2, <1>3, IdleIsWorker DEF Rests
<1>4. ASSUME NEW pc, NEW a, Finishes(w, pc, a)
      PROVE  wk'[w].pc = pc /\ wk'[w].run = wk[w].run /\ wk'[w].ask = a
  <2>1. wk'[w] = [IdleWorker EXCEPT !.pc = pc, !.run = wk[w].run, !.ask = a]
    BY <1>2, <1>4 DEF Finishes
  <2> QED BY <2>1, IdleIsWorker DEF WorkerType
<1>5. ASSUME NEW pc, Goes(w, pc)
      PROVE  /\ wk'[w].pc = pc /\ wk'[w].run = wk[w].run
             /\ wk'[w].events = wk[w].events /\ wk'[w].ask = wk[w].ask
  <2>1. wk'[w] = [wk[w] EXCEPT !.pc = pc]
    BY <1>2, <1>5 DEF Goes
  <2> QED BY <2>1, <1>1 DEF WorkerType
<1> QED BY <1>2, <1>3, <1>4, <1>5

\* Only the worker that steps changes.
LEMMA WorkerAlone ==
    ASSUME TypeInv, NEW w \in Workers, WorkerSteps(w) \/ WorkerFaults(w)
    PROVE  \A v \in Workers \ {w} : wk'[v] = wk[v]
<1>1. (\E k : Becomes(w, k)) \/ wk' = wk
  BY DEF WorkerSteps, WorkerFaults, ClaimRun, LoadRun, LoadFails, StartRun, StartFails,
         FailExhausted, RunFrom, Resume, NoDecider, AtBoundary, Decide, SendAsk, CheckLease, AppendBatch,
         Reload, ParkRun, Recheck, RecheckStop, WakeSelf, ReleaseRun, AckRun, Abandon, Panics,
         Finishes, Goes, Rests
<1> QED BY <1>1, WorkerFields

\* A worker that goes on with its run.
LEMMA WorkerGoesOn ==
    ASSUME IndInv, Kept, NEW w \in Workers, wk[w].pc # "idle",
           wk'[w].pc # "idle" =>
             /\ wk'[w].run = wk[w].run
             /\ wk'[w].pc = "ack" => Ended(log'[wk[w].run])
             /\ wk'[w].pc = "park" => wk'[w].ask # 0
             /\ wk'[w].pc = "run" /\ Ended(wk'[w].events) => Ended(log'[wk[w].run])
             /\ wk'[w].pc \in {"start", "resume", "bound", "decide", "send", "hold", "append"}
                  => ~Ended(wk'[w].events)
    PROVE  WorkerSafe(w)'
<1> DEFINE r == wk[w].run
<1>1. r \in Runs /\ Stored(r) /\ (Open(r) => Held(r))
  BY DEF IndInv, TypeInv, BusyOnRuns, WorkerSafe
<1>2. log'[r] # <<>> /\ (Ended(log'[r]) \/ HeldIn(queue', r))
  BY <1>1, KeptOpen
<1> QED BY <1>2 DEF WorkerSafe, Stored, Open, Held

\* The events that end a run, and what appending one does to a stored run.
LEMMA EndEvents ==
    ASSUME NEW type \in Ends
    PROVE  <<Plain(type)>> \in Seq(Event) /\ Ended(<<Plain(type)>>)
<1> DEFINE e == Plain(type)
<1>1. e \in Event /\ e.type \in Ends
  BY EventTypes DEF Plain, Types
<1> HIDE DEF e
<1>2. <<e>> \in Seq(Event) /\ Ended(<<e>>)
  BY <1>1 DEF Ended, Has
<1> QED BY <1>2 DEF e

LEMMA EndingEnds ==
    ASSUME TypeInv, NEW r \in Runs, Stored(r), NEW events \in Seq(Event), Ended(events),
           log' = [log EXCEPT ![r] = AppendEventsAfter(log[r], Len(log[r]), events)]
    PROVE  Ended(log'[r])
<1>1. log[r] \in Seq(Event) /\ log'[r] = AppendEventsAfter(log[r], Len(log[r]), events)
  BY DEF TypeInv, TypeOK
<1>2. Ended(log[r]) \/ AppendResult(log[r], Len(log[r])) = "Appended"
  BY DEF AppendResult, Stored
<1> QED BY <1>1, <1>2, AppendKeeps

LEMMA WorkerInd == IndInv /\ WorkerNext => IndInv'
<1> SUFFICES ASSUME IndInv, WorkerNext PROVE IndInv'
  OBVIOUS
<1>1. TypeInv /\ TypeInv' /\ pr' = pr /\ late' = late /\ dl' = dl /\ sw' = sw
  BY WorkerTypes DEF IndInv, WorkerNext, noWorker
<1>2. \A s \in Runs : queue.pending[s] \in {queue.pending[s], "no"}
  OBVIOUS
<1>3. ASSUME Kept, \A s \in Runs : queue'.pending[s] \in {queue.pending[s], "no"},
             NEW w \in Workers, WorkerSteps(w) \/ WorkerFaults(w), WorkerSafe(w)'
      PROVE  IndInv'
  BY <1>1, <1>3, StepInd, WorkerAlone
<1>4. ASSUME NEW w \in Workers, wk[w].pc # "idle"
      PROVE  wk[w].run \in Runs /\ Stored(wk[w].run) /\ WorkerSafe(w)
  BY <1>4 DEF IndInv, TypeInv, BusyOnRuns, WorkerSafe
<1> DEFINE Step(w) == /\ Kept
                      /\ \A s \in Runs : queue'.pending[s] \in {queue.pending[s], "no"}
                      /\ WorkerSafe(w)'
<1>5. ASSUME NEW w \in Workers, ClaimRun(w) PROVE Step(w)
  <2> DEFINE r == Head(queue.runs)
  <2>1. Kept /\ queue'.pending = queue.pending
    BY <1>5, ClaimKept DEF ClaimRun
  <2>2. CASE queue.lease[r] # NoLease
    <3>1. wk'[w] = wk[w]
      BY <1>5, <2>2 DEF ClaimRun
    <3> QED BY <2>1, <3>1, WorkerStands
  <2>3. CASE queue.lease[r] = NoLease
    <3>1. wk'[w] = [IdleWorker EXCEPT !.pc = "load", !.run = r]
      BY <1>1, <1>5, <2>3, WorkerFields DEF ClaimRun
    <3>2. wk'[w].pc = "load" /\ wk'[w].run = r
      BY <3>1, IdleIsWorker DEF WorkerType
    <3>3. r \in Runs /\ OnRuns(queue, r)
      BY <1>1, <1>5, ClaimType, QueueFields DEF ClaimRun, TypeInv, TypeOK, OnRuns
    <3>4. Held(r) /\ Stored(r)
      BY <3>3, QueueFacts DEF Held, HeldIn
    <3>5. log'[r] # <<>> /\ (Ended(log'[r]) \/ HeldIn(queue', r))
      BY <2>1, <3>3, <3>4, KeptOpen
    <3> QED BY <2>1, <3>2, <3>5 DEF WorkerSafe, Stored, Open, Held
  <2> QED BY <2>2, <2>3
<1>6. ASSUME NEW w \in Workers, LoadRun(w) PROVE Step(w)
  <2> DEFINE l == log[wk[w].run]
  <2>1. log' = log /\ queue' = queue /\ wk[w].pc = "load"
    BY <1>6 DEF LoadRun, Working, shared
  <2>2. Kept
    BY <2>1, SameQueueKept
  <2>3. l # <<>>
    BY <1>4, <2>1 DEF Stored
  <2>4. \/ Ended(l) /\ wk'[w].pc = "ack" /\ wk'[w].run = wk[w].run
        \/ ~Ended(l) /\ wk'[w] = [wk[w] EXCEPT !.pc = "start", !.events = l]
    BY <1>1, <1>6, <2>3, WorkerFields DEF LoadRun
  <2>5. \/ Ended(l) /\ wk'[w].pc = "ack" /\ wk'[w].run = wk[w].run
        \/ ~Ended(l) /\ wk'[w].pc = "start" /\ wk'[w].run = wk[w].run /\ wk'[w].events = l
    BY <1>1, <2>4 DEF TypeInv, TypeOK, WorkerType
  <2> QED BY <2>1, <2>2, <2>5, WorkerGoesOn
<1>7. ASSUME NEW w \in Workers, LoadFails(w) \/ StartFails(w) \/ ReleaseRun(w) PROVE Step(w)
  <2>1. log' = log /\ wk[w].pc # "idle" /\ Rests(w)
    BY <1>7 DEF LoadFails, StartFails, ReleaseRun, Working
  <2>2. \E q \in {queue, Start(queue, wk[w].run)} : queue' = Release(q, wk[w].run, w)
    BY <1>7 DEF LoadFails, StartFails, ReleaseRun
  <2>3. Kept /\ \A s \in Runs : queue'.pending[s] = queue.pending[s]
    BY <1>4, <2>1, <2>2, ReleaseKept
  <2> QED BY <1>1, <2>1, <2>3, WorkerFields DEF WorkerSafe
<1>8. ASSUME NEW w \in Workers, StartRun(w) PROVE Step(w)
  <2>1. log' = log /\ wk[w].pc = "start" /\ queue' = Start(queue, wk[w].run)
    BY <1>8 DEF StartRun, Working
  <2>2. Kept /\ \A s \in Runs : queue'.pending[s] = queue.pending[s]
    BY <1>4, <2>1, StartKept
  <2>3. ~Ended(wk[w].events)
    BY <1>4, <2>1 DEF WorkerSafe
  <2>4. /\ wk'[w].run = wk[w].run
        /\ wk'[w].pc = "exhausted" \/ (wk'[w].pc = "run" /\ wk'[w].events = wk[w].events)
    BY <1>1, <1>8, WorkerFields DEF StartRun
  <2> QED BY <2>1, <2>2, <2>3, <2>4, WorkerGoesOn
<1>9. ASSUME NEW w \in Workers, FailExhausted(w) PROVE Step(w)
  <2> DEFINE r == wk[w].run
             end == <<Plain("RunFailed")>>
  <2>1. queue' = queue /\ wk[w].pc = "exhausted" /\ r \in Runs /\ Stored(r)
    BY <1>4, <1>9 DEF FailExhausted, Working
  <2>2. end \in Seq(Event) /\ Ended(end)
    BY EndEvents DEF Ends
  <2>3. log' = [log EXCEPT ![r] = AppendEventsAfter(log[r], Len(log[r]), end)]
    BY <1>9 DEF FailExhausted, AppendEvents
  <2> HIDE DEF end
  <2>4. Kept
    BY <2>1, <2>2, <2>3, AppendKept
  <2>5. Ended(log'[r])
    BY <1>1, <2>1, <2>2, <2>3, EndingEnds
  <2>6. wk'[w].pc = "ack" /\ wk'[w].run = r
    BY <1>1, <1>9, WorkerFields DEF FailExhausted
  <2> QED BY <2>1, <2>4, <2>5, <2>6, WorkerGoesOn
<1>10. ASSUME NEW w \in Workers, RunFrom(w) PROVE Step(w)
  <2>1. log' = log /\ queue' = queue /\ wk[w].pc = "run" /\ wk[w] \in WorkerType
    BY <1>1, <1>10 DEF RunFrom, Working, TypeInv, TypeOK
  <2>2. Kept
    BY <2>1, SameQueueKept
  <2>3. \/ Ended(wk[w].events) /\ wk'[w].pc = "ack" /\ wk'[w].run = wk[w].run
        \/ /\ ~Ended(wk[w].events)
           /\ \/ wk'[w] = [wk[w] EXCEPT !.pc = "hold", !.batch = <<Plain("RunCancelled")>>]
              \/ wk'[w] = [wk[w] EXCEPT !.pc = "hold", !.batch = <<Plain("RunScheduled")>>]
              \/ wk'[w] = [wk[w] EXCEPT !.pc = "resume"]
    BY <1>1, <1>10, WorkerFields DEF RunFrom
  <2>4. \/ Ended(wk[w].events) /\ wk'[w].pc = "ack" /\ wk'[w].run = wk[w].run
        \/ /\ ~Ended(wk[w].events) /\ wk'[w].pc \in {"hold", "resume"}
           /\ wk'[w].run = wk[w].run /\ wk'[w].events = wk[w].events
    BY <2>1, <2>3 DEF WorkerType
  <2>5. Ended(wk[w].events) => Ended(log[wk[w].run])
    BY <1>4, <2>1 DEF WorkerSafe
  <2> QED BY <2>1, <2>2, <2>4, <2>5, WorkerGoesOn
<1>11. ASSUME NEW w \in Workers, Resume(w) \/ CheckLease(w) PROVE Step(w)
  <2>1. /\ log' = log /\ queue' = queue /\ wk[w].pc \in {"resume", "hold"}
        /\ wk[w] \in WorkerType
    BY <1>1, <1>11 DEF Resume, CheckLease, Working, TypeInv, TypeOK
  <2>2. Kept
    BY <2>1, SameQueueKept
  <2>3. \/ wk'[w].pc = "release" /\ wk'[w].run = wk[w].run
        \/ wk'[w].pc = "append" /\ wk'[w].run = wk[w].run /\ wk'[w].events = wk[w].events
        \/ wk'[w] = [wk[w] EXCEPT !.pc = "bound", !.batch = ResumeEvents(wk[w].events)]
    BY <1>1, <1>11, WorkerFields DEF Resume, CheckLease
  <2>4. \/ wk'[w].pc = "release" /\ wk'[w].run = wk[w].run
        \/ /\ wk'[w].pc \in {"append", "bound"}
           /\ wk'[w].run = wk[w].run /\ wk'[w].events = wk[w].events
    BY <2>1, <2>3 DEF WorkerType
  <2>5. ~Ended(wk[w].events)
    BY <1>4, <2>1 DEF WorkerSafe
  <2> QED BY <2>1, <2>2, <2>4, <2>5, WorkerGoesOn
<1>12. ASSUME NEW w \in Workers, AtBoundary(w) PROVE Step(w)
  <2> DEFINE waits == WaitingForMessage(wk[w].events)
             Cancelled == Append(wk[w].batch, Plain("RunCancelled"))
  <2>1. log' = log /\ queue' = queue /\ wk[w].pc = "bound" /\ wk[w] \in WorkerType
    BY <1>1, <1>12 DEF AtBoundary, Working, TypeInv, TypeOK
  <2>2. Kept
    BY <2>1, SameQueueKept
  <2>3. \/ Becomes(w, [wk[w] EXCEPT !.pc = "hold", !.batch = Cancelled])
        \/ Goes(w, "hold") \/ Goes(w, "decide")
        \/ Finishes(w, "park", waits) /\ waits # 0
    BY <1>12 DEF AtBoundary
  <2> HIDE DEF waits, Cancelled
  <2>4. \/ wk'[w].pc = "park" /\ wk'[w].run = wk[w].run /\ wk'[w].ask # 0
        \/ /\ wk'[w].pc \in {"hold", "decide"}
           /\ wk'[w].run = wk[w].run /\ wk'[w].events = wk[w].events
    <3>1. CASE Becomes(w, [wk[w] EXCEPT !.pc = "hold", !.batch = Cancelled])
      <4>1. wk'[w] = [wk[w] EXCEPT !.pc = "hold", !.batch = Cancelled]
        BY <1>1, <3>1, WorkerFields
      <4> QED BY <2>1, <4>1 DEF WorkerType
    <3> QED BY <1>1, <2>3, <3>1, WorkerFields
  <2>5. ~Ended(wk[w].events)
    BY <1>4, <2>1 DEF WorkerSafe
  <2> QED BY <2>1, <2>2, <2>4, <2>5, WorkerGoesOn
<1>13. ASSUME NEW w \in Workers, Decide(w) \/ SendAsk(w) \/ NoDecider(w) PROVE Step(w)
  <2>1. /\ log' = log /\ queue' = queue /\ wk[w].pc \in {"decide", "send", "resume"}
        /\ wk[w] \in WorkerType
    BY <1>1, <1>13 DEF Decide, SendAsk, NoDecider, Working, TypeInv, TypeOK, shared
  <2>2. Kept
    BY <2>1, SameQueueKept
  <2>3. \/ \E pc \in {"bound", "hold"} : \E b : Becomes(w, [wk[w] EXCEPT !.pc = pc, !.batch = b])
        \/ \E a : Becomes(w, [wk[w] EXCEPT !.pc = "send", !.ask = a])
        \/ \E b : Becomes(w, [wk[w] EXCEPT !.pc = "bound", !.batch = b, !.ask = 0])
    BY <1>13 DEF Decide, SendAsk, NoDecider
  <2>4. /\ wk'[w].pc \in {"bound", "hold", "send"}
        /\ wk'[w].run = wk[w].run /\ wk'[w].events = wk[w].events
    <3>1. ASSUME NEW pc \in {"bound", "hold"}, NEW b,
                 Becomes(w, [wk[w] EXCEPT !.pc = pc, !.batch = b])
          PROVE  <2>4
      <4>1. wk'[w] = [wk[w] EXCEPT !.pc = pc, !.batch = b]
        BY <1>1, <3>1, WorkerFields
      <4> QED BY <2>1, <4>1 DEF WorkerType
    <3>2. ASSUME NEW a, Becomes(w, [wk[w] EXCEPT !.pc = "send", !.ask = a]) PROVE <2>4
      <4>1. wk'[w] = [wk[w] EXCEPT !.pc = "send", !.ask = a]
        BY <1>1, <3>2, WorkerFields
      <4> QED BY <2>1, <4>1 DEF WorkerType
    <3>3. ASSUME NEW b, Becomes(w, [wk[w] EXCEPT !.pc = "bound", !.batch = b, !.ask = 0]) PROVE <2>4
      <4>1. wk'[w] = [wk[w] EXCEPT !.pc = "bound", !.batch = b, !.ask = 0]
        BY <1>1, <3>3, WorkerFields
      <4> QED BY <2>1, <4>1 DEF WorkerType
    <3> QED BY <2>3, <3>1, <3>2, <3>3
  <2>5. ~Ended(wk[w].events)
    BY <1>4, <2>1 DEF WorkerSafe
  <2> QED BY <2>1, <2>2, <2>4, <2>5, WorkerGoesOn
<1>14. ASSUME NEW w \in Workers, AppendBatch(w) PROVE Step(w)
  <2> DEFINE r == wk[w].run
             seen == Len(wk[w].events)
             batch == wk[w].batch
             events == wk[w].events \o batch
             waits == WaitingForMessage(events)
             result == AppendResult(log[r], seen)
             next == IF Has(batch, {"RunScheduled"}) THEN "resume" ELSE "decide"
  <2>1. /\ queue' = queue /\ wk[w].pc = "append" /\ r \in Runs /\ Stored(r)
        /\ wk[w] \in WorkerType /\ WorkerSafe(w)
    BY <1>1, <1>4, <1>14 DEF AppendBatch, Working, TypeInv, TypeOK
  <2>2. batch \in Seq(Event) /\ wk[w].events \in Seq(Event) /\ log[r] \in Seq(Event)
    BY <1>1, <2>1 DEF WorkerType, TypeInv, TypeOK
  <2>3. log' = [log EXCEPT ![r] = AppendEventsAfter(log[r], seen, batch)]
    BY <1>14 DEF AppendBatch
  <2>4. Open(r) => Held(r)
    BY <2>1 DEF WorkerSafe
  <2>5. Kept
    BY <2>1, <2>2, <2>3, <2>4, AppendKept
  <2>6. Ended(events) => Ended(batch)
    <3>1. ~Ended(wk[w].events)
      BY <2>1 DEF WorkerSafe
    <3> DEFINE s == wk[w].events
    <3>2. s \in Seq(Event) /\ batch \in Seq(Event) /\ events = s \o batch /\ ~Ended(s)
      BY <2>2, <3>1
    <3> HIDE DEF s, events, batch
    <3>3. /\ \A i \in DOMAIN s : events[i] = s[i]
          /\ \A i \in DOMAIN batch : events[Len(s) + i] = batch[i]
          /\ \A i \in DOMAIN events : i \in DOMAIN s \/ \E j \in DOMAIN batch : i = Len(s) + j
      BY <3>2, InConcat
    <3> QED BY <3>2, <3>3 DEF Ended, Has
  <2>7. log'[r] = AppendEventsAfter(log[r], seen, batch)
    BY <1>1, <2>1, <2>3 DEF TypeInv, TypeOK
  <2>8. Ended(batch) /\ result = "Appended" => Ended(log'[r])
    BY <2>2, <2>7, AppendKeeps
  <2>9. result \notin {"Appended", "Moved"} => Ended(log'[r])
    <3>1. result \notin {"Appended", "Moved"} => Ended(log[r])
      BY <2>1 DEF AppendResult, Stored
    <3> QED BY <2>2, <2>7, <3>1, AppendKeeps
  <2>10. \/ Finishes(w, "ack", 0) /\ Ended(log'[r])
         \/ Finishes(w, "park", waits) /\ waits # 0
         \/ Finishes(w, "release", 0)
         \/ ~Ended(events) /\ Becomes(w, [wk[w] EXCEPT !.pc = next, !.events = events, !.batch = <<>>])
         \/ Becomes(w, [wk[w] EXCEPT !.pc = "reload", !.batch = <<>>, !.events = <<>>, !.reloads = @ + 1])
    BY <1>14, <2>6, <2>8, <2>9 DEF AppendBatch
  <2>11. next \in {"resume", "decide"}
    OBVIOUS
  <2> HIDE DEF events, waits, next
  <2>12. \/ wk'[w].pc = "ack" /\ wk'[w].run = r /\ Ended(log'[r])
         \/ wk'[w].pc = "park" /\ wk'[w].run = r /\ wk'[w].ask # 0
         \/ wk'[w].pc \in {"release", "reload"} /\ wk'[w].run = r
         \/ /\ wk'[w].pc \in {"resume", "decide"} /\ wk'[w].run = r
            /\ ~Ended(wk'[w].events)
    <3>1. CASE ~Ended(events) /\ Becomes(w, [wk[w] EXCEPT !.pc = next, !.events = events, !.batch = <<>>])
      <4>1. wk'[w] = [wk[w] EXCEPT !.pc = next, !.events = events, !.batch = <<>>]
        BY <1>1, <3>1, WorkerFields
      <4>2. wk'[w].pc = next /\ wk'[w].run = r /\ wk'[w].events = events
        BY <2>1, <4>1 DEF WorkerType
      <4> QED BY <2>11, <3>1, <4>2
    <3>2. CASE Becomes(w, [wk[w] EXCEPT !.pc = "reload", !.batch = <<>>, !.events = <<>>, !.reloads = @ + 1])
      <4>1. wk'[w] = [wk[w] EXCEPT !.pc = "reload", !.batch = <<>>, !.events = <<>>, !.reloads = @ + 1]
        BY <1>1, <3>2, WorkerFields
      <4>2. wk'[w].pc = "reload" /\ wk'[w].run = r
        BY <2>1, <4>1 DEF WorkerType
      <4> QED BY <4>2
    <3> QED BY <1>1, <2>10, <3>1, <3>2, WorkerFields
  <2> QED BY <2>1, <2>5, <2>12, WorkerGoesOn
<1>15. ASSUME NEW w \in Workers, Reload(w) PROVE Step(w)
  <2> DEFINE l == log[wk[w].run]
  <2>1. log' = log /\ queue' = queue /\ wk[w].pc = "reload"
    BY <1>15 DEF Reload, Working, shared
  <2>2. Kept
    BY <2>1, SameQueueKept
  <2>3. l # <<>>
    BY <1>4, <2>1 DEF Stored
  <2>4. wk'[w] = [wk[w] EXCEPT !.pc = "run", !.events = l]
    BY <1>1, <1>15, <2>3, WorkerFields DEF Reload
  <2>5. wk'[w].pc = "run" /\ wk'[w].run = wk[w].run /\ wk'[w].events = l
    BY <1>1, <2>4 DEF TypeInv, TypeOK, WorkerType
  <2> QED BY <2>1, <2>2, <2>5, WorkerGoesOn
<1>16. ASSUME NEW w \in Workers, ParkRun(w) PROVE Step(w)
  <2>1. log' = log /\ wk[w].pc = "park" /\ queue' = Park(queue, wk[w].run, w, wk[w].ask)
    BY <1>16 DEF ParkRun, Working
  <2>2. wk[w].ask # 0 /\ wk[w].ask \in 0..MaxDecisions
    BY <1>1, <1>4, <2>1 DEF WorkerSafe, TypeInv, TypeOK, WorkerType
  <2>3. Kept /\ \A s \in Runs : queue'.pending[s] = queue.pending[s]
    BY <1>4, <2>1, <2>2, ParkKept
  <2>4. wk'[w].pc = "idle" \/ (wk'[w].pc = "recheck" /\ wk'[w].run = wk[w].run)
    BY <1>1, <1>16, WorkerFields DEF ParkRun
  <2> QED BY <2>1, <2>3, <2>4, WorkerGoesOn
<1>17. ASSUME NEW w \in Workers, Recheck(w) \/ RecheckStop(w) PROVE Step(w)
  <2>1. log' = log /\ queue' = queue /\ wk[w].pc \in {"recheck", "restop"}
    BY <1>17 DEF Recheck, RecheckStop, Working, shared
  <2>2. Kept
    BY <2>1, SameQueueKept
  <2>3. wk'[w].pc = "idle" \/ (wk'[w].pc \in {"wake", "restop"} /\ wk'[w].run = wk[w].run)
    BY <1>1, <1>17, WorkerFields DEF Recheck, RecheckStop
  <2> QED BY <2>1, <2>2, <2>3, WorkerGoesOn
<1>18. ASSUME NEW w \in Workers, WakeSelf(w) PROVE Step(w)
  <2>1. log' = log /\ wk[w].pc # "idle" /\ queue' = Wake(queue, wk[w].run, wk[w].ask) /\ Rests(w)
    BY <1>18 DEF WakeSelf, Working
  <2>2. Kept /\ \A s \in Runs : queue'.pending[s] = queue.pending[s]
    BY <1>4, <2>1, WakeKept
  <2> QED BY <1>1, <2>1, <2>2, WorkerFields DEF WorkerSafe
<1>19. ASSUME NEW w \in Workers, AckRun(w) PROVE Step(w)
  <2>1. log' = log /\ wk[w].pc = "ack" /\ queue' = Ack(queue, wk[w].run, w) /\ Rests(w)
    BY <1>19 DEF AckRun, Working
  <2>2. Ended(log[wk[w].run])
    BY <1>4, <2>1 DEF WorkerSafe
  <2>3. Kept /\ \A s \in Runs : queue'.pending[s] = queue.pending[s]
    BY <1>4, <2>1, <2>2, AckKept
  <2> QED BY <1>1, <2>1, <2>3, WorkerFields DEF WorkerSafe
<1>20. ASSUME NEW w \in Workers, Abandon(w) \/ Panics(w) PROVE Step(w)
  <2>1. log' = log /\ queue' = queue /\ Rests(w)
    BY <1>20 DEF Abandon, Panics, shared
  <2>2. Kept
    BY <2>1, SameQueueKept
  <2> QED BY <1>1, <2>1, <2>2, WorkerFields DEF WorkerSafe
<1>21. ASSUME NEW r \in Runs, AbandonedLeaseExpires(r) \/ LiveLeaseExpires(r) PROVE IndInv'
  <2>1. log' = log /\ wk' = wk /\ queue' = LeaseExpires(queue, r)
    BY <1>21 DEF AbandonedLeaseExpires, LiveLeaseExpires
  <2>2. Kept /\ \A s \in Runs : queue'.pending[s] = queue.pending[s]
    BY <2>1, StartKept
  <2> QED BY <1>1, <2>1, <2>2, StepInd
<1>22. ASSUME NEW w \in Workers, WorkerSteps(w) \/ WorkerFaults(w) PROVE Step(w)
  BY <1>5, <1>6, <1>7, <1>8, <1>9, <1>10, <1>11, <1>12, <1>13, <1>14, <1>15, <1>16, <1>17,
     <1>18, <1>19, <1>20, <1>22 DEF WorkerSteps, WorkerFaults
<1> QED
  BY <1>3, <1>21, <1>22 DEF WorkerNext

\* A log that holds an ask was moved on.
LEMMA OpenIsAdvanced ==
    ASSUME NEW l, NEW a, AskState(l, a) = "Open" \/ IsUserQuestion(l, a)
    PROVE  l # <<>> /\ ~StillWaiting(l)
<1>1. \E i \in DOMAIN l : l[i].type \in AskTypes
  BY DEF AskState, IsUserQuestion, About, AskTypes
<1>2. ~StillWaiting(l)
  BY <1>1 DEF StillWaiting, AskTypes
<1>3. l # <<>>
  BY <1>2 DEF StillWaiting
<1> QED BY <1>2, <1>3

LEMMA CourierFields ==
    ASSUME TypeInv, NEW d \in Couriers
    PROVE  /\ \A k : Carries(d, k) => dl'[d] = k /\ \A e \in Couriers \ {d} : dl'[e] = dl[e]
           /\ Drops(d) => dl'[d].pc = "idle"
           /\ \A pc : Turns(d, pc) => dl'[d].pc = pc /\ dl'[d].run = dl[d].run
           /\ \A r, a, leave : SetsOut(d, r, a, leave) => dl'[d].pc = "deliver"
<1>1. dl \in [Couriers -> CourierType] /\ dl[d] \in CourierType
  BY DEF TypeInv, TypeOK
<1>2. ASSUME NEW k, Carries(d, k)
      PROVE  dl'[d] = k /\ \A e \in Couriers \ {d} : dl'[e] = dl[e]
  BY <1>1, <1>2 DEF Carries
<1>3. ASSUME Drops(d) PROVE dl'[d].pc = "idle"
  BY <1>2, <1>3 DEF Drops, IdleCourier
<1>4. ASSUME NEW pc, Turns(d, pc) PROVE dl'[d].pc = pc /\ dl'[d].run = dl[d].run
  <2>1. dl'[d] = [dl[d] EXCEPT !.pc = pc]
    BY <1>2, <1>4 DEF Turns
  <2> QED BY <2>1, <1>1 DEF CourierType
<1>5. ASSUME NEW r, NEW a, NEW leave, SetsOut(d, r, a, leave) PROVE dl'[d].pc = "deliver"
  <2>1. dl'[d] = [IdleCourier EXCEPT !.pc = "deliver", !.run = r, !.ask = a, !.leave = leave]
    BY <1>2, <1>5 DEF SetsOut
  <2> QED BY <2>1 DEF IdleCourier
<1> QED BY <1>2, <1>3, <1>4, <1>5

LEMMA CourierAlone ==
    ASSUME TypeInv, NEW d \in Couriers, CourierStarts(d) \/ CourierCarries(d) \/ CourierFails(d)
    PROVE  \A e \in Couriers \ {d} : dl'[e] = dl[e]
<1>1. \E k : Carries(d, k)
  BY DEF CourierStarts, CourierCarries, CourierFails, TaskAnswers, AskIsDue, SweepParked,
         UserAnswers, LookAtParked, LookAtStop, DeliverRead, DeliverAppend, MarkAnswered,
         WakeAsker, ReadQuestion, ReplyToQuestion, SetsOut, Turns, Drops
<1> QED BY <1>1, CourierFields

LEMMA CourierInd == IndInv /\ CourierNext => IndInv'
<1> SUFFICES ASSUME IndInv, CourierNext PROVE IndInv'
  OBVIOUS
<1>1. TypeInv /\ TypeInv' /\ pr' = pr /\ late' = late /\ wk' = wk /\ sw' = sw
  BY CourierTypes DEF IndInv, CourierNext, noCourier
<1> DEFINE Step(d) == /\ Kept
                      /\ \A s \in Runs : queue'.pending[s] \in {queue.pending[s], "no"}
                      /\ CourierSafe(d)'
<1>2. ASSUME NEW d \in Couriers, dl[d].pc # "idle" PROVE dl[d].run \in Runs
  BY <1>1, <1>2 DEF TypeInv, BusyOnRuns
<1>3. ASSUME log' = log, queue' = queue PROVE Kept /\ queue'.pending = queue.pending
  BY <1>3, SameQueueKept
<1>4. ASSUME NEW d \in Couriers, CourierStarts(d) PROVE Step(d)
  <2>1. log' = log /\ queue' = queue
    BY <1>4 DEF CourierStarts, TaskAnswers, AskIsDue, SweepParked, UserAnswers, shared
  <2>2. \/ \E r, a, leave : SetsOut(d, r, a, leave)
        \/ \E r, a : Carries(d, [IdleCourier EXCEPT !.pc = "look", !.run = r, !.ask = a])
        \/ \E r : Carries(d, [IdleCourier EXCEPT !.pc = "question", !.run = r])
    BY <1>4 DEF CourierStarts, TaskAnswers, AskIsDue, SweepParked, UserAnswers
  <2>3. ASSUME NEW r, NEW a, Carries(d, [IdleCourier EXCEPT !.pc = "look", !.run = r, !.ask = a])
        PROVE  dl'[d].pc = "look"
    <3>1. dl'[d] = [IdleCourier EXCEPT !.pc = "look", !.run = r, !.ask = a]
      BY <1>1, <2>3, CourierFields
    <3> QED BY <3>1 DEF IdleCourier
  <2>4. ASSUME NEW r, Carries(d, [IdleCourier EXCEPT !.pc = "question", !.run = r])
        PROVE  dl'[d].pc = "question"
    <3>1. dl'[d] = [IdleCourier EXCEPT !.pc = "question", !.run = r]
      BY <1>1, <2>4, CourierFields
    <3> QED BY <3>1 DEF IdleCourier
  <2>5. dl'[d].pc \in {"deliver", "look", "question"}
    BY <1>1, <2>2, <2>3, <2>4, CourierFields
  <2> QED BY <1>3, <2>1, <2>5 DEF CourierSafe
<1>5. ASSUME NEW d \in Couriers, LookAtParked(d) \/ LookAtStop(d) PROVE Step(d)
  <2>1. log' = log /\ queue' = queue
    BY <1>5 DEF LookAtParked, LookAtStop, shared
  <2>2. dl'[d].pc \in {"wake", "stop", "deliver", "idle"}
    BY <1>1, <1>5, CourierFields DEF LookAtParked, LookAtStop
  <2> QED BY <1>3, <2>1, <2>2 DEF CourierSafe
<1>6. ASSUME NEW d \in Couriers, DeliverRead(d) PROVE Step(d)
  <2> DEFINE l == log[dl[d].run]
  <2>1. log' = log /\ queue' = queue
    BY <1>6 DEF DeliverRead, shared
  <2>2. \/ dl'[d].pc \in {"mark", "idle"}
        \/ /\ dl'[d].pc = "append" /\ dl'[d].run = dl[d].run
           /\ AskState(l, dl[d].ask) = "Open"
    BY <1>1, <1>6, CourierFields DEF DeliverRead
  <2>3. AskState(l, dl[d].ask) = "Open" => l # <<>> /\ ~StillWaiting(l)
    BY OpenIsAdvanced
  <2> QED BY <1>3, <2>1, <2>2, <2>3 DEF CourierSafe, Stored
<1>7. ASSUME NEW d \in Couriers, DeliverAppend(d) \/ ReplyToQuestion(d) PROVE Step(d)
  <2> DEFINE r == dl[d].run
             answer == <<About("Answer", dl[d].ask)>>
  <2>1. queue' = queue /\ dl[d].pc \in {"append", "reply"} /\ r \in Runs
    BY <1>2, <1>7 DEF DeliverAppend, ReplyToQuestion, Carrying
  <2>2. PICK seen : log' = [log EXCEPT ![r] = AppendEventsAfter(log[r], seen, answer)]
    BY <1>7 DEF DeliverAppend, ReplyToQuestion, AppendEvents
  <2>3. answer \in Seq(Event)
    <3>1. dl[d].ask \in 0..MaxDecisions
      BY <1>1 DEF TypeInv, TypeOK, CourierType
    <3> QED BY <3>1, EventTypes DEF Types
  <2>4. ~StillWaiting(log[r])
    BY <2>1 DEF IndInv, CourierSafe
  <2> HIDE DEF answer
  <2>5. Kept
    BY <2>1, <2>2, <2>3, <2>4, AppendKept
  <2>6. dl'[d].pc \in {"mark", "wake", "idle", "question"}
    <3>1. \/ Turns(d, "mark") \/ Turns(d, "wake") \/ Drops(d)
          \/ Carries(d, [dl[d] EXCEPT !.pc = "question", !.tries = @ + 1, !.seen = 0])
      BY <1>7 DEF DeliverAppend, ReplyToQuestion
    <3>2. CASE Carries(d, [dl[d] EXCEPT !.pc = "question", !.tries = @ + 1, !.seen = 0])
      <4>1. dl'[d] = [dl[d] EXCEPT !.pc = "question", !.tries = @ + 1, !.seen = 0]
        BY <1>1, <3>2, CourierFields
      <4>2. dl[d] \in CourierType
        BY <1>1 DEF TypeInv, TypeOK
      <4>3. dl'[d].pc = "question"
        BY <4>1, <4>2 DEF CourierType
      <4> QED BY <4>3
    <3> QED BY <1>1, <3>1, <3>2, CourierFields
  <2> QED BY <2>1, <2>5, <2>6 DEF CourierSafe
<1>8. ASSUME NEW d \in Couriers, MarkAnswered(d) \/ CourierFails(d) PROVE Step(d)
  <2>1. log' = log /\ queue' = queue
    BY <1>8 DEF MarkAnswered, CourierFails
  <2>2. dl'[d].pc \in {"wake", "idle"}
    BY <1>1, <1>8, CourierFields DEF MarkAnswered, CourierFails
  <2> QED BY <1>3, <2>1, <2>2 DEF CourierSafe
<1>9. ASSUME NEW d \in Couriers, WakeAsker(d) PROVE Step(d)
  <2>1. log' = log /\ queue' = Wake(queue, dl[d].run, dl[d].ask) /\ dl[d].run \in Runs
    BY <1>2, <1>9 DEF WakeAsker, Carrying
  <2>2. dl'[d].pc = "idle"
    BY <1>1, <1>9, CourierFields DEF WakeAsker
  <2> QED BY <2>1, <2>2, WakeKept DEF CourierSafe
<1>10. ASSUME NEW d \in Couriers, ReadQuestion(d) PROVE Step(d)
  <2> DEFINE l == log[dl[d].run]
             a == WaitingForMessage(l)
             k == [dl[d] EXCEPT !.pc = "reply", !.ask = a, !.seen = Len(l)]
  <2>1. log' = log /\ queue' = queue
    BY <1>10 DEF ReadQuestion, shared
  <2>2. Drops(d) \/ (Carries(d, k) /\ IsUserQuestion(l, a))
    BY <1>10 DEF ReadQuestion
  <2>3. IsUserQuestion(l, a) => l # <<>> /\ ~StillWaiting(l)
    BY OpenIsAdvanced
  <2>4. CASE Drops(d)
    BY <1>1, <1>3, <2>1, <2>4, CourierFields DEF CourierSafe
  <2>5. CASE Carries(d, k) /\ IsUserQuestion(l, a)
    <3>1. dl'[d] = k /\ dl[d] \in CourierType
      BY <1>1, <2>5, CourierFields DEF TypeInv, TypeOK
    <3>2. dl'[d].run = dl[d].run
      BY <3>1 DEF CourierType
    <3> QED BY <1>3, <2>1, <2>3, <2>5, <3>2 DEF CourierSafe, Stored
  <2> QED BY <2>2, <2>4, <2>5
<1>11. ASSUME NEW d \in Couriers, CourierStarts(d) \/ CourierCarries(d) \/ CourierFails(d)
       PROVE  Step(d)
  BY <1>4, <1>5, <1>6, <1>7, <1>8, <1>9, <1>10, <1>11 DEF CourierCarries
<1> QED
  BY <1>1, <1>11, StepInd, CourierAlone DEF CourierNext

LEMMA StopperInd == IndInv /\ StopperNext => IndInv'
<1> SUFFICES ASSUME IndInv, StopperNext PROVE IndInv'
  OBVIOUS
<1>1. /\ TypeInv /\ TypeInv' /\ pr' = pr /\ late' = late
      /\ wk' = wk /\ dl' = dl /\ sw' = sw
  BY StopperTypes DEF IndInv, StopperNext, noStopper
<1>2. st.pc # "idle" => st.run \in Runs
  BY <1>1 DEF TypeInv, BusyOnRuns
<1>3. SUFFICES Kept /\ \A s \in Runs : queue'.pending[s] = queue.pending[s]
  BY <1>1, StepInd
<1>4. CASE (\E r \in Runs : PutStop(r)) \/ ReadParked \/ ReadRun \/ StopFails
  <2>1. log' = log /\ queue' = queue
    BY <1>4 DEF PutStop, ReadParked, ReadRun, StopFails, shared
  <2> QED BY <2>1, SameQueueKept
<1>5. CASE CancelRun
  <2> DEFINE end == <<Plain("RunCancelled")>>
  <2>1. queue' = queue /\ st.run \in Runs
    BY <1>2, <1>5 DEF CancelRun
  <2>2. end \in Seq(Event) /\ Ended(end)
    BY EndEvents DEF Ends
  <2>3. log' = [log EXCEPT ![st.run] = AppendEventsAfter(log[st.run], st.seen, end)]
    BY <1>5 DEF CancelRun
  <2> HIDE DEF end
  <2> QED BY <2>1, <2>2, <2>3, AppendKept
<1>6. CASE WakeCancelled
  <2>1. log' = log /\ queue' = Wake(queue, st.run, st.ask) /\ st.run \in Runs
    BY <1>2, <1>6 DEF WakeCancelled
  <2> QED BY <2>1, WakeKept
<1> QED
  BY <1>4, <1>5, <1>6 DEF StopperNext, StopperSteps

LEMMA SweeperInd == IndInv /\ SweeperNext => IndInv'
<1> SUFFICES ASSUME IndInv, SweeperNext PROVE IndInv'
  OBVIOUS
<1>1. /\ TypeInv /\ TypeInv' /\ pr' = pr /\ late' = late
      /\ wk' = wk /\ dl' = dl /\ log' = log
  BY SweeperTypes DEF IndInv, SweeperNext, noSweeper, ReapExpired, ListPending, SweeperSteps,
                      LoadPending, PushPending, UnpendPending, SweepFails, shared
<1>2. SUFFICES /\ Kept /\ \A s \in Runs : queue'.pending[s] \in {queue.pending[s], "no"}
               /\ sw' = sw \/ SweeperSafe'
  BY <1>1, StepInd
<1>3. sw.pc # "idle" => sw.run \in Runs /\ SweeperSafe /\ sw \in SweeperType
  BY <1>1 DEF IndInv, TypeInv, TypeOK, BusyOnRuns
<1>4. IdleSweeper.pc = "idle"
  BY DEF IdleSweeper
<1>5. CASE ReapExpired
  <2>1. sw' = sw
    BY <1>5 DEF ReapExpired
  <2> QED BY <1>1, <1>5, <2>1, ReapKept DEF ReapExpired
<1>6. ASSUME NEW r \in Runs, ListPending(r) PROVE <1>2!1
  <2>1. queue' = queue /\ sw' = [pc |-> "load", run |-> r, forgotten |-> queue.pending[r] = "old"]
    BY <1>6 DEF ListPending, shared
  <2>2. Kept
    BY <1>1, <2>1, SameQueueKept
  <2>3. queue.pending[r] = "old" /\ ~Stored(r) => NeverStored(r)
    BY DEF IndInv, ForgottenInv
  <2>4. NeverStored(r) => NeverStored(r)'
    BY <1>1 DEF NeverStored
  <2>5. SweeperSafe'
    BY <1>1, <2>1, <2>3, <2>4 DEF SweeperSafe, Stored
  <2> QED BY <2>1, <2>2, <2>5
<1>7. CASE LoadPending
  <2> DEFINE r == sw.run
  <2>1. queue' = queue /\ sw.pc = "load"
    BY <1>7 DEF LoadPending, shared
  <2>2. Kept
    BY <1>1, <2>1, SameQueueKept
  <2>3. \/ sw' = IdleSweeper
        \/ sw' = [sw EXCEPT !.pc = "push"] /\ Stored(r)
        \/ /\ sw' = [sw EXCEPT !.pc = "unpend"]
           /\ (Stored(r) /\ ~StillWaiting(log[r])) \/ (~Stored(r) /\ sw.forgotten)
    BY <1>7 DEF LoadPending, Stored
  <2>4. Stored(r) /\ ~StillWaiting(log[r]) => (Open(r) => Held(r))
    BY <1>3, <2>1 DEF IndInv, AdvancedAreHeld
  <2>5. ~Stored(r) /\ sw.forgotten => NeverStored(r)
    BY <1>3, <2>1 DEF SweeperSafe
  <2>6. \A s \in Runs : NeverStored(s) => NeverStored(s)'
    BY <1>1 DEF NeverStored
  <2>7. \/ sw'.pc = "idle"
        \/ sw'.pc = "push" /\ sw'.run = r /\ Stored(r)
        \/ /\ sw'.pc = "unpend" /\ sw'.run = r
           /\ IF Stored(r) THEN Open(r) => Held(r) ELSE NeverStored(r)
    BY <1>3, <1>4, <2>1, <2>3, <2>4, <2>5 DEF SweeperType
  <2>8. SweeperSafe'
    BY <1>1, <1>3, <2>1, <2>6, <2>7 DEF SweeperSafe, Stored, Open, Held
  <2> QED BY <2>1, <2>2, <2>8
<1>8. CASE PushPending \/ UnpendPending \/ SweepFails
  <2>1. SweeperSafe'
    BY <1>4, <1>8 DEF PushPending, UnpendPending, SweepFails, SweeperSafe
  <2>2. CASE queue' = queue
    BY <1>1, <2>1, <2>2, SameQueueKept
  <2>3. CASE queue' = Push(queue, sw.run) /\ sw.pc = "push"
    BY <1>1, <1>3, <2>1, <2>3, PushKept DEF SweeperSafe
  <2>4. CASE queue' = Unpend(queue, sw.run) /\ sw.pc = "unpend"
    BY <1>1, <1>3, <2>1, <2>4, UnpendKept DEF SweeperSafe
  <2> QED BY <1>8, <2>2, <2>3, <2>4 DEF PushPending, UnpendPending, SweepFails
<1> QED
  BY <1>5, <1>6, <1>7, <1>8 DEF SweeperNext, SweeperSteps

LEMMA ProducerInd == ASSUME SoleProducer PROVE IndInv /\ ProducerNext => IndInv'
<1> SUFFICES ASSUME IndInv, ProducerNext PROVE IndInv'
  OBVIOUS
<1>1. TypeInv /\ TypeInv' /\ wk' = wk /\ dl' = dl /\ sw' = sw
  BY ProducerTypes DEF IndInv, ProducerNext, noProducer
<1>2. ASSUME Kept, ForgottenInv', \A r \in Runs : NeverStored(r) => NeverStored(r)',
             \A p \in Producers : ProducerSafe(p)'
      PROVE  IndInv'
  <2>1. NothingLost' /\ LeaseBacked' /\ QueuedAreStored' /\ AdvancedAreHeld'
    BY <1>2, KeptGlobal
  <2>2. \A w \in Workers : WorkerSafe(w)'
    BY <1>1, <1>2, WorkerStands
  <2>3. \A d \in Couriers : CourierSafe(d)'
    BY <1>1, <1>2, CourierStands
  <2>4. SweeperSafe'
    BY <1>1, <1>2, SweeperStands
  <2> QED BY <1>1, <1>2, <2>1, <2>2, <2>3, <2>4 DEF IndInv
\* What a producer's step does to the producers.
<1> DEFINE Onward(p) ==
             /\ \A o \in Producers \ {p} : pr'[o] = pr[o]
             /\ pr'[p] # "new"
             /\ pr'[p] = "put" => pr[p] \in {"new", "put"}
             /\ late' \subseteq late \cup {p} /\ (p \in late' => p \in late \/ pr[p] = "put")
           Safe(p) ==
             LET r == ProducedRun[p]
             IN  /\ (pr'[p] = "put" \/ p \in late') /\ log'[r] = <<>> => queue'.pending[r] # "no"
                 /\ pr'[p] \in {"push", "existing", "check", "unpend"} => log'[r] # <<>>
                 /\ pr'[p] = "unpend" => Ended(log'[r]) \/ HeldIn(queue', r)
           PendingStays == \A s \in Runs : queue'.pending[s] \in {queue.pending[s], "no"}
<1>3. ASSUME NEW p \in Producers, Kept, Onward(p), Safe(p),
             PendingStays \/ (queue' = Pend(queue, ProducedRun[p]) /\ pr[p] = "new" /\ log' = log)
      PROVE  IndInv'
  <2>1. \A r \in Runs : NeverStored(r) => NeverStored(r)'
    BY <1>3 DEF NeverStored
  <2>2. ProducedRun[p] \in Runs /\ queue \in QueueType
    BY <1>1, ProducerAssumption DEF TypeInv, TypeOK
  <2>3. \A s \in Runs : queue'.pending[s] = "old" => queue.pending[s] = "old"
    BY <1>3, <2>2, PendingEffect
  <2>4. \A s \in Runs : queue'.pending[s] # "no" => queue.pending[s] # "no" \/ s = ProducedRun[p]
    BY <1>3, <2>2, PendingEffect
  <2>5. \A s \in Runs : queue'.pending[s] # "no" /\ queue.pending[s] = "no" => pr[p] = "new"
    BY <1>3
  <2>6. ForgottenInv'
    <3>1. ASSUME NEW r \in Runs, queue'.pending[r] = "old", ~Stored(r)' PROVE NeverStored(r)'
      BY <1>3, <2>1, <2>3, <3>1 DEF IndInv, ForgottenInv, Kept, KeptRun, Stored
    <3>2. ASSUME NEW r \in Runs, r \in Forgettable, queue'.pending[r] # "no",
                 NEW o \in Producers, ProducedRun[o] = r
          PROVE  pr'[o] # "new"
      <4>1. CASE queue.pending[r] # "no"
        BY <1>3, <3>2, <4>1 DEF IndInv, ForgottenInv
      <4>2. CASE queue.pending[r] = "no"
        BY <1>3, <2>4, <3>2, <4>2 DEF SoleProducer
      <4> QED BY <4>1, <4>2
    <3> QED BY <3>1, <3>2 DEF ForgottenInv
  <2>7. ASSUME NEW o \in Producers PROVE ProducerSafe(o)'
    <3> DEFINE r == ProducedRun[o]
    <3>1. r \in Runs /\ ProducerSafe(o)
      BY ProducerAssumption DEF IndInv
    <3>2. CASE o = p
      BY <1>3, <3>2 DEF ProducerSafe, Stored, Open, Held
    <3>3. CASE o # p
      <4>1. pr'[o] = pr[o] /\ (o \in late' => o \in late)
        BY <1>3, <3>3
      <4>2. Stored(r) => log'[r] # <<>>
        BY <1>3, <3>1 DEF Kept, KeptRun
      <4>3. Stored(r) /\ (Open(r) => Held(r)) => Ended(log'[r]) \/ HeldIn(queue', r)
        BY <1>3, <3>1, KeptOpen
      <4>4. (pr[o] = "put" \/ o \in late) /\ log'[r] = <<>> => queue'.pending[r] # "no"
        <5>1. (pr[o] = "put" \/ o \in late) => ~NeverStored(r)
          BY DEF NeverStored
        <5>2. log'[r] = <<>> => ~Ended(log'[r])
          BY DEF Ended, Has
        <5> QED BY <1>3, <3>1, <4>2, <5>1, <5>2 DEF ProducerSafe, Kept, KeptRun
      <4> QED BY <3>1, <4>1, <4>2, <4>3, <4>4 DEF ProducerSafe, Stored, Open, Held
    <3> QED BY <3>2, <3>3
  <2> QED BY <1>2, <1>3, <2>1, <2>6, <2>7
<1>4. ASSUME NEW p \in Producers
      PROVE  /\ ProducedRun[p] \in Runs /\ ProducerSafe(p)
             /\ \A pc : To(p, pc) => pr'[p] = pc /\ \A o \in Producers \ {p} : pr'[o] = pr[o]
  BY <1>1, ProducerAssumption DEF IndInv, To, TypeInv, TypeOK
<1>5. ASSUME NEW p \in Producers, PendRun(p) PROVE IndInv'
  <2>1. log' = log /\ queue' = Pend(queue, ProducedRun[p]) /\ pr[p] = "new" /\ late' = late
    BY <1>5 DEF PendRun, At
  <2>2. Kept
    BY <1>4, <2>1, PendKept
  <2>3. pr'[p] = "put" /\ \A o \in Producers \ {p} : pr'[o] = pr[o]
    BY <1>4, <1>5 DEF PendRun
  <2>4. queue'.pending[ProducedRun[p]] # "no"
    BY <1>1, <1>4, <2>1, PendingEffect DEF TypeInv, TypeOK
  <2> QED BY <1>3, <2>1, <2>2, <2>3, <2>4
<1>6. ASSUME NEW p \in Producers, PutStored(p) \/ PutFails(p) PROVE IndInv'
  <2> DEFINE r == ProducedRun[p]
  <2>1. queue' = queue /\ pr[p] = "put"
    BY <1>6 DEF PutStored, PutFails, At
  <2>2. log' = [log EXCEPT ![r] = PutRun(@)] \/ (PutFails(p) /\ log' = log)
    BY <1>6 DEF PutStored, PutFails
  <2>3. Kept
    BY <2>1, <2>2, PutKept, SameQueueKept
  <2>4. /\ pr'[p] \in {"push", "existing", "done", "end"}
        /\ pr'[p] = "end" \/ log' = [log EXCEPT ![r] = PutRun(@)]
        /\ \A o \in Producers \ {p} : pr'[o] = pr[o]
        /\ late' \subseteq late \cup {p}
    BY <1>4, <1>6 DEF PutStored, PutFails
  <2>5. log' = [log EXCEPT ![r] = PutRun(@)] => log'[r] # <<>>
    BY <1>1, <1>4 DEF TypeInv, TypeOK, PutRun, QueuedEvents
  <2>6. log'[r] = <<>> => queue'.pending[r] # "no"
    <3>1. Stored(r) => log'[r] # <<>>
      BY <1>4, <2>3 DEF Kept, KeptRun
    <3> QED BY <1>4, <2>1, <3>1 DEF ProducerSafe
  <2>7. Onward(p) /\ Safe(p) /\ PendingStays
    BY <2>1, <2>4, <2>5, <2>6
  <2> QED BY <1>3, <2>3, <2>7
<1>7. ASSUME NEW p \in Producers, PutCommitsLate(p) PROVE IndInv'
  <2> DEFINE r == ProducedRun[p]
  <2>1. queue' = queue /\ p \in late /\ pr' = pr /\ late' = late \ {p}
    BY <1>7 DEF PutCommitsLate
  <2>2. log' = [log EXCEPT ![r] = PutRun(@)]
    BY <1>7 DEF PutCommitsLate
  <2>3. Kept
    BY <2>1, <2>2, PutKept
  <2>4. log'[r] # <<>>
    BY <1>1, <1>4, <2>2 DEF TypeInv, TypeOK, PutRun, QueuedEvents
  <2>5. \A s \in Runs : NeverStored(s) => NeverStored(s)'
    BY <2>1 DEF NeverStored
  <2>6. ForgottenInv'
    BY <2>1, <2>3, <2>5 DEF IndInv, ForgottenInv, Kept, KeptRun, Stored
  <2>7. ASSUME NEW o \in Producers PROVE ProducerSafe(o)'
    <3> DEFINE s == ProducedRun[o]
    <3>1. s \in Runs /\ ProducerSafe(o)
      BY <1>4
    <3>2. Stored(s) => log'[s] # <<>>
      BY <2>3, <3>1 DEF Kept, KeptRun
    <3>3. Stored(s) /\ (Open(s) => Held(s)) => Ended(log'[s]) \/ HeldIn(queue', s)
      BY <2>3, <3>1, KeptOpen
    <3> QED BY <2>1, <3>1, <3>2, <3>3 DEF ProducerSafe, Stored, Open, Held
  <2> QED BY <1>2, <2>3, <2>5, <2>6, <2>7
<1>8. ASSUME NEW p \in Producers, PushRun(p) \/ PushFails(p) PROVE IndInv'
  <2>1. log' = log /\ pr[p] = "push" /\ late' = late
    BY <1>8 DEF PushRun, PushFails, At
  <2>2. queue' = queue \/ queue' = Push(queue, ProducedRun[p])
    BY <1>8 DEF PushRun, PushFails
  <2>3. Stored(ProducedRun[p])
    BY <1>4, <2>1 DEF ProducerSafe
  <2>4. Kept /\ PendingStays
    BY <1>4, <2>1, <2>2, <2>3, SameQueueKept, PushKept
  <2>5. pr'[p] \in {"done", "end"} /\ \A o \in Producers \ {p} : pr'[o] = pr[o]
    BY <1>4, <1>8 DEF PushRun, PushFails
  <2>6. Onward(p) /\ Safe(p)
    BY <2>1, <2>3, <2>5 DEF Stored
  <2> QED BY <1>3, <2>4, <2>6
<1>9. ASSUME NEW p \in Producers, EndRun(p) PROVE IndInv'
  <2> DEFINE r == ProducedRun[p]
             end == <<Plain("RunFailed")>>
  <2>1. queue' = queue /\ pr[p] = "end" /\ late' = late
    BY <1>9 DEF EndRun, At
  <2>2. end \in Seq(Event) /\ Ended(end)
    BY EndEvents DEF Ends
  <2>3. log' = [log EXCEPT ![r] = AppendEventsAfter(log[r], Len(log[r]), end)]
    BY <1>9 DEF EndRun, AppendEvents
  <2> HIDE DEF end
  <2>4. Kept
    BY <1>4, <2>1, <2>2, <2>3, AppendKept
  <2>5. pr'[p] = "done" /\ \A o \in Producers \ {p} : pr'[o] = pr[o]
    BY <1>4, <1>9 DEF EndRun
  <2>6. p \in late /\ log'[r] = <<>> => queue'.pending[r] # "no"
    <3>1. Stored(r) => log'[r] # <<>>
      BY <1>4, <2>4 DEF Kept, KeptRun
    <3> QED BY <1>4, <2>1, <3>1 DEF ProducerSafe
  <2>7. Onward(p) /\ Safe(p) /\ PendingStays
    BY <2>1, <2>5, <2>6
  <2> QED BY <1>3, <2>4, <2>7
<1>10. ASSUME NEW p \in Producers, ReadExisting(p) \/ CheckQueued(p) PROVE IndInv'
  <2> DEFINE r == ProducedRun[p]
  <2>1. log' = log /\ queue' = queue /\ late' = late /\ pr[p] \in {"existing", "check"}
    BY <1>10 DEF ReadExisting, CheckQueued, At, shared
  <2>2. Kept
    BY <2>1, SameQueueKept
  <2>3. Stored(r)
    BY <1>4, <2>1 DEF ProducerSafe
  <2>4. /\ \A o \in Producers \ {p} : pr'[o] = pr[o]
        /\ \/ pr'[p] \in {"check", "done"}
           \/ pr'[p] = "unpend" /\ (NeverRan(log[r]) \/ ~StillWaiting(log[r]) \/ QueuedOrClaimed(queue, r))
    BY <1>4, <1>10 DEF ReadExisting, CheckQueued
  <2>5. NeverRan(log[r]) \/ ~StillWaiting(log[r]) => Ended(log[r]) \/ Held(r)
    BY <1>4, <2>3 DEF IndInv, AdvancedAreHeld, NeverRan, Open
  <2>6. QueuedOrClaimed(queue, r) => Held(r)
    BY DEF QueuedOrClaimed, Held, HeldIn
  <2>7. Onward(p) /\ Safe(p) /\ PendingStays
    BY <2>1, <2>3, <2>4, <2>5, <2>6 DEF Stored, Held
  <2> QED BY <1>3, <2>2, <2>7
<1>11. ASSUME NEW p \in Producers, UnpendExisting(p) PROVE IndInv'
  <2> DEFINE r == ProducedRun[p]
  <2>1. log' = log /\ late' = late /\ pr[p] = "unpend" /\ queue' = Unpend(queue, r)
    BY <1>11 DEF UnpendExisting, At
  <2>2. Stored(r) /\ (Open(r) => Held(r))
    BY <1>4, <2>1 DEF ProducerSafe
  <2>3. Kept /\ PendingStays
    BY <1>4, <2>1, <2>2, UnpendKept
  <2>4. pr'[p] = "done" /\ \A o \in Producers \ {p} : pr'[o] = pr[o]
    BY <1>4, <1>11 DEF UnpendExisting
  <2>5. Onward(p) /\ Safe(p)
    BY <2>1, <2>2, <2>4 DEF Stored
  <2> QED BY <1>3, <2>3, <2>5
<1>12. ASSUME NEW p \in Producers, ProducerDies(p) PROVE IndInv'
  <2> DEFINE r == ProducedRun[p]
  <2>1. log' = log /\ queue' = queue
    BY <1>12 DEF ProducerDies
  <2>2. Kept
    BY <2>1, SameQueueKept
  <2>3. /\ pr'[p] = "done" /\ \A o \in Producers \ {p} : pr'[o] = pr[o]
        /\ late' \subseteq late \cup {p} /\ (p \in late' => p \in late \/ pr[p] = "put")
    BY <1>4, <1>12 DEF ProducerDies, At
  <2>4. Onward(p) /\ Safe(p) /\ PendingStays
    BY <1>4, <2>1, <2>3 DEF ProducerSafe, Stored
  <2> QED BY <1>3, <2>2, <2>4
<1>13. ASSUME NEW r \in Runs, PendingForgotten(r) PROVE IndInv'
  <2>1. log' = log /\ queue' = PendingAges(queue, r) /\ pr' = pr /\ late' = late
    BY <1>13 DEF PendingForgotten
  <2>2. Kept
    BY <2>1, PendKept
  <2>3. \A s \in Runs : NeverStored(s) => NeverStored(s)'
    BY <2>1 DEF NeverStored
  <2>4. \A s \in Runs : /\ queue.pending[s] # "no" <=> queue'.pending[s] # "no"
                        /\ s # r => queue'.pending[s] = queue.pending[s]
    BY <1>1, <2>1, PendingEffect DEF TypeInv, TypeOK
  <2>5. NeverStored(r)
    BY <1>13 DEF PendingForgotten, IndInv, ForgottenInv, NeverStored
  <2>6. ForgottenInv'
    BY <2>1, <2>3, <2>4, <2>5 DEF IndInv, ForgottenInv, Stored
  <2>7. ASSUME NEW o \in Producers PROVE ProducerSafe(o)'
    <3> DEFINE s == ProducedRun[o]
    <3>1. s \in Runs /\ ProducerSafe(o)
      BY <1>4
    <3>2. Stored(s) /\ (Open(s) => Held(s)) => Ended(log'[s]) \/ HeldIn(queue', s)
      BY <2>2, <3>1, KeptOpen
    <3> QED BY <2>1, <2>4, <3>1, <3>2 DEF ProducerSafe, Stored, Open, Held
  <2> QED BY <1>2, <2>2, <2>3, <2>6, <2>7
<1> QED
  BY <1>5, <1>6, <1>7, <1>8, <1>9, <1>10, <1>11, <1>12, <1>13
     DEF ProducerNext, ProducerSteps, ProducerFaults

LEMMA InitInd == Init => IndInv
<1> SUFFICES ASSUME Init PROVE IndInv
  OBVIOUS
<1> USE DEF Init, SharedInit, ProducerInit, WorkerInit, CourierInit, StopperInit, SweeperInit
<1>1. TypeInv
  BY InitTypes
<1>2. \A r \in Runs : /\ ~Stored(r) /\ ~Open(r) /\ ~Held(r) /\ queue.lease[r] = NoLease
                      /\ queue.pending[r] = "no"
  BY DEF EmptyQueue, Stored, Open, Held, HeldIn, OnRuns
<1>3. NothingLost /\ LeaseBacked /\ QueuedAreStored /\ AdvancedAreHeld /\ ForgottenInv
  BY <1>2 DEF NothingLost, LeaseBacked, QueuedAreStored, AdvancedAreHeld, ForgottenInv
<1>4. \A p \in Producers : ProducerSafe(p)
  BY DEF ProducerSafe
<1>5. \A w \in Workers : WorkerSafe(w)
  BY DEF WorkerSafe, IdleWorker
<1>6. \A d \in Couriers : CourierSafe(d)
  BY DEF CourierSafe, IdleCourier
<1>7. SweeperSafe
  BY DEF SweeperSafe, IdleSweeper
<1> QED
  BY <1>1, <1>3, <1>4, <1>5, <1>6, <1>7 DEF IndInv

LEMMA NextInd == ASSUME SoleProducer PROVE IndInv /\ [Next]_vars => IndInv'
<1>1. IndInv /\ UNCHANGED vars => IndInv'
  BY DEF vars, shared, IndInv, TypeInv, TypeOK, BusyOnRuns, NothingLost, LeaseBacked,
         QueuedAreStored, AdvancedAreHeld, ForgottenInv, ProducerSafe, WorkerSafe, CourierSafe,
         SweeperSafe, NeverStored, Tracked, Open, Stored, Held
<1> QED
  BY <1>1, ProducerInd, WorkerInd, CourierInd, StopperInd, SweeperInd DEF Next

\* No run is lost: in every reachable state of a system of any size, a stored
\* run that has not ended is pending, queued, in processing or parked, and in
\* processing while it is leased, whatever stale workers do: an entry that CLAIM
\* drops is never a run's last.  No run that may be forgotten has a second
\* producer.
THEOREM NoRunIsLost == ASSUME SoleProducer PROVE Spec => []RunsAreTracked
<1>1. IndInv => RunsAreTracked
  BY DEF IndInv, RunsAreTracked
<1> QED
  BY <1>1, InitInd, NextInd, PTL DEF Spec

(***************************************************************************)
(* One log                                                                 *)
(***************************************************************************)
IsSent(l, a) == \E i \in DOMAIN l : l[i].type \in AskTypes /\ l[i].ask = a
IsAnswered(l, a) == \E i \in DOMAIN l : l[i].type = "Answer" /\ l[i].ask = a

\* Where an ask of a good log stands, without the order of its events.
LEMMA AskStates ==
    ASSUME NEW l \in Seq(Event), AsksNamed(l), AnswersFollow(l), NEW a
    PROVE  /\ IsAnswered(l, a) => IsSent(l, a)
           /\ AskState(l, a) = "Unsent" <=> ~IsSent(l, a)
           /\ AskState(l, a) = "Answered" <=> IsAnswered(l, a)
           /\ AskState(l, a) = "Open" <=> IsSent(l, a) /\ ~IsAnswered(l, a)
<1> DEFINE sent == {i \in DOMAIN l : l[i].type \in AskTypes /\ l[i].ask = a}
           answered == {j \in DOMAIN l : /\ l[j] = About("Answer", a)
                                         /\ \A i \in sent : i < j}
<1>1. \A j \in DOMAIN l : l[j] \in Event
  OBVIOUS
<1>2. \A j \in DOMAIN l : l[j] = About("Answer", a) <=> l[j].type = "Answer" /\ l[j].ask = a
  BY <1>1 DEF About, Event
<1>3. IsAnswered(l, a) => IsSent(l, a)
  BY DEF IsAnswered, IsSent, AnswersFollow
<1>4. sent = {} <=> ~IsSent(l, a)
  BY DEF IsSent
<1>5. ASSUME NEW j \in DOMAIN l, l[j].type = "Answer", l[j].ask = a PROVE j \in answered
  <2>1. PICK i \in 1..(j-1) : l[i].type \in AskTypes /\ l[i].ask = l[j].ask
    BY <1>5 DEF AnswersFollow
  <2>2. i \in DOMAIN l /\ i < j
    OBVIOUS
  <2>3. \A k \in sent : k = i
    BY <2>1, <2>2, <1>5 DEF AsksNamed
  <2> QED BY <1>2, <1>5, <2>2, <2>3
<1>6. answered = {} <=> ~IsAnswered(l, a)
  BY <1>2, <1>5 DEF IsAnswered
<1>7. AskState(l, a) = IF sent = {} THEN "Unsent" ELSE IF answered = {} THEN "Open" ELSE "Answered"
  BY DEF AskState
<1> HIDE DEF sent, answered
<1> QED BY <1>3, <1>4, <1>6, <1>7

\* An append, index by index.
LEMMA Appended ==
    ASSUME NEW l \in Seq(Event), NEW e \in Event
    PROVE  /\ Append(l, e) \in Seq(Event)
           /\ Len(Append(l, e)) = Len(l) + 1
           /\ DOMAIN Append(l, e) = DOMAIN l \cup {Len(l) + 1}
           /\ DOMAIN l = 1..Len(l) /\ Len(l) \in Nat
           /\ \A i \in DOMAIN l : Append(l, e)[i] = l[i] /\ l[i] \in Event
           /\ Append(l, e)[Len(l) + 1] = e
OBVIOUS

LEMMA HasAppended ==
    ASSUME NEW l \in Seq(Event), NEW e \in Event, NEW types
    PROVE  Has(Append(l, e), types) <=> Has(l, types) \/ e.type \in types
<1> DEFINE m == Append(l, e)
<1>1. \A i \in DOMAIN m : i \in DOMAIN l \/ i = Len(l) + 1
  BY Appended
<1>2. \A i \in DOMAIN l : i \in DOMAIN m /\ m[i] = l[i]
  BY Appended
<1>3. Len(l) + 1 \in DOMAIN m /\ m[Len(l) + 1] = e
  BY Appended
<1> HIDE DEF m
<1>4. Has(m, types) <=> Has(l, types) \/ e.type \in types
  BY <1>1, <1>2, <1>3 DEF Has
<1> QED BY <1>4 DEF m

\* The events of the given types.
Those(l, types) == {i \in DOMAIN l : l[i].type \in types}

LEMMA CountAppended ==
    ASSUME NEW l \in Seq(Event), NEW e \in Event, NEW T
    PROVE  /\ Cardinality(Those(l, T)) \in Nat
           /\ Cardinality(Those(Append(l, e), T))
                = IF e.type \in T THEN Cardinality(Those(l, T)) + 1 ELSE Cardinality(Those(l, T))
<1> DEFINE m == Append(l, e)
           A == {i \in DOMAIN l : l[i].type \in T}
           B == {i \in DOMAIN m : m[i].type \in T}
<1>1. IsFiniteSet(A)
  <2>1. IsFiniteSet(DOMAIN l)
    BY Appended, FS_Interval
  <2> QED BY <2>1, FS_Subset
<1>2. Len(l) + 1 \notin A
  BY Appended
<1>3. B = IF e.type \in T THEN A \cup {Len(l) + 1} ELSE A
  <2>1. \A i \in DOMAIN m : i \in DOMAIN l \/ i = Len(l) + 1
    BY Appended
  <2>2. \A i \in DOMAIN l : i \in DOMAIN m /\ m[i] = l[i]
    BY Appended
  <2>3. Len(l) + 1 \in DOMAIN m /\ m[Len(l) + 1] = e
    BY Appended
  <2> HIDE DEF m
  <2> QED BY <2>1, <2>2, <2>3
<1>4. Cardinality(A) \in Nat
  BY <1>1, FS_CardinalityType
<1>5. Cardinality(A \cup {Len(l) + 1}) = Cardinality(A) + 1
  BY <1>1, <1>2, FS_AddElement
<1> HIDE DEF A, B
<1>6. Cardinality(B) = IF e.type \in T THEN Cardinality(A) + 1 ELSE Cardinality(A)
  BY <1>3, <1>5
<1> QED BY <1>4, <1>6 DEF A, B, m, Those

\* The counts a fold keeps, one event later.
LEMMA FoldAppended ==
    ASSUME NEW l \in Seq(Event), NEW e \in Event
    PROVE  LET m == Append(l, e)
               S(s) == Cardinality(Advances(s))
           IN  /\ Decisions(l) \in Nat /\ S(l) \in Nat
               /\ Decisions(m) = IF e.type \in DecidedTypes THEN Decisions(l) + 1
                                 ELSE Decisions(l)
               /\ S(m) = IF e.type = "StepAdvanced" THEN S(l) + 1 ELSE S(l)
<1> DEFINE m == Append(l, e)
<1>1. Advances(l) = Those(l, {"StepAdvanced"}) /\ Advances(m) = Those(m, {"StepAdvanced"})
  BY DEF Advances, Those
<1>2. /\ Cardinality(Advances(l)) \in Nat
      /\ Cardinality(Advances(m)) = IF e.type = "StepAdvanced" THEN Cardinality(Advances(l)) + 1
                                    ELSE Cardinality(Advances(l))
  BY <1>1, CountAppended
<1>3. Decisions(l) = Cardinality(Those(l, DecidedTypes))
      /\ Decisions(m) = Cardinality(Those(m, DecidedTypes))
  BY DEF Decisions, Those
<1>4. /\ Decisions(l) \in Nat
      /\ Decisions(m) = IF e.type \in DecidedTypes THEN Decisions(l) + 1 ELSE Decisions(l)
  BY <1>3, CountAppended
<1> QED BY <1>2, <1>4

\* Asks and answers, one event later.
LEMMA AsksAppended ==
    ASSUME NEW l \in Seq(Event), NEW e \in Event, NEW a
    PROVE  LET m == Append(l, e)
           IN  /\ IsSent(m, a) <=> IsSent(l, a) \/ (e.type \in AskTypes /\ e.ask = a)
               /\ IsAnswered(m, a) <=> IsAnswered(l, a) \/ (e.type = "Answer" /\ e.ask = a)
<1> DEFINE m == Append(l, e)
<1>1. \A i \in DOMAIN m : i \in DOMAIN l \/ i = Len(l) + 1
  BY Appended
<1>2. \A i \in DOMAIN l : i \in DOMAIN m /\ m[i] = l[i]
  BY Appended
<1>3. Len(l) + 1 \in DOMAIN m /\ m[Len(l) + 1] = e
  BY Appended
<1> HIDE DEF m
<1>4. /\ IsSent(m, a) <=> IsSent(l, a) \/ (e.type \in AskTypes /\ e.ask = a)
      /\ IsAnswered(m, a) <=> IsAnswered(l, a) \/ (e.type = "Answer" /\ e.ask = a)
  BY <1>1, <1>2, <1>3 DEF IsSent, IsAnswered
<1> QED BY <1>4 DEF m

\* The asks a log names are asks.
LEMMA AsksAreIds ==
    ASSUME NEW l \in Seq(Event), AsksNamed(l)
    PROVE  \A i \in DOMAIN l : l[i].type \in AskTypes => l[i].ask \in AskIds
<1>1. Decisions(l) \in Nat
  BY CountTypes
<1>2. \A i \in DOMAIN l : l[i].ask \in 0..MaxDecisions
  <2>1. \A i \in DOMAIN l : l[i] \in Event
    OBVIOUS
  <2> QED BY <2>1 DEF Event
<1> QED BY <1>1, <1>2, MaxDecisionsAssumption DEF AsksNamed, AskIds

\* An ask that is not open was answered after it was sent.
LEMMA AnsweredBehind ==
    ASSUME NEW l \in Seq(Event), AsksNamed(l), AnswersFollow(l), NoneOpen(l),
           NEW i \in DOMAIN l, l[i].type \in AskTypes
    PROVE  \E k \in (i+1)..Len(l) : l[k] = About("Answer", l[i].ask)
<1>1. l[i].ask \in AskIds
  BY AsksAreIds
<1>2. IsSent(l, l[i].ask)
  BY DEF IsSent
<1>3. IsAnswered(l, l[i].ask)
  BY <1>1, <1>2, AskStates DEF NoneOpen
<1>4. PICK k \in DOMAIN l : l[k].type = "Answer" /\ l[k].ask = l[i].ask
  BY <1>3 DEF IsAnswered
<1>5. PICK j \in 1..(k-1) : l[j].type \in AskTypes /\ l[j].ask = l[k].ask
  BY <1>4 DEF AnswersFollow
<1>6. j = i
  <2>1. j \in DOMAIN l
    OBVIOUS
  <2> QED BY <1>4, <1>5, <2>1 DEF AsksNamed
<1>7. k \in (i+1)..Len(l)
  BY <1>5, <1>6
<1>8. l[k] = About("Answer", l[i].ask)
  <2>1. l[k] \in Event
    OBVIOUS
  <2> QED BY <1>4, <2>1 DEF Event, About
<1> QED BY <1>7, <1>8

\* At most one ask of a log is open.
LEMMA OneOpen ==
    ASSUME NEW l \in Seq(Event), GoodLog(l), NEW a \in AskIds, NEW b \in AskIds,
           AskState(l, a) = "Open", AskState(l, b) = "Open"
    PROVE  a = b
<1>1. AsksNamed(l) /\ AnswersFollow(l) /\ InOrder(l)
  BY DEF GoodLog
<1>2. IsSent(l, a) /\ ~IsAnswered(l, a) /\ IsSent(l, b) /\ ~IsAnswered(l, b)
  BY <1>1, AskStates
<1>3. PICK i \in DOMAIN l : l[i].type \in AskTypes /\ l[i].ask = a
  BY <1>2 DEF IsSent
<1>4. PICK j \in DOMAIN l : l[j].type \in AskTypes /\ l[j].ask = b
  BY <1>2 DEF IsSent
<1>5. ASSUME NEW x \in DOMAIN l, NEW y \in DOMAIN l, x < y,
             l[x].type \in AskTypes, l[y].type \in AskTypes
      PROVE  IsAnswered(l, l[x].ask)
  <2>1. PICK k \in (x+1)..(y-1) : l[k] = About("Answer", l[x].ask)
    BY <1>1, <1>5 DEF InOrder, DecidedTypes
  <2>2. k \in DOMAIN l
    OBVIOUS
  <2> QED BY <2>1, <2>2 DEF About, IsAnswered
<1>6. ~(i < j) /\ ~(j < i)
  BY <1>2, <1>3, <1>4, <1>5
<1>7. i = j
  BY <1>6
<1> QED BY <1>3, <1>4, <1>7

(***************************************************************************)
(* What fits a good log leaves one                                         *)
(***************************************************************************)
LEMMA AsksStayNamed ==
    ASSUME NEW l \in Seq(Event), NEW e \in Event, GoodLog(l), Fits(l, e)
    PROVE  AsksNamed(Append(l, e)) /\ AnswersFollow(Append(l, e))
<1> DEFINE m == Append(l, e)
           n == Len(l) + 1
<1>1. AsksNamed(l) /\ AnswersFollow(l)
  BY DEF GoodLog
<1>2. /\ \A i \in DOMAIN m : i \in DOMAIN l \/ i = n
      /\ \A i \in DOMAIN l : i \in DOMAIN m /\ m[i] = l[i] /\ i \in 1..(n-1)
      /\ n \in DOMAIN m /\ m[n] = e /\ n \in Nat /\ \A i \in 1..(n-1) : i \in DOMAIN l
  BY Appended
<1>3. /\ Decisions(l) \in Nat
      /\ Decisions(m) = IF e.type \in DecidedTypes THEN Decisions(l) + 1 ELSE Decisions(l)
  BY FoldAppended
<1>4. e.type \in AskTypes => e.ask = Decisions(l) + 1 /\ e.type \in DecidedTypes
  BY DEF Fits, AskTypes, DecidedTypes, Ends
<1>5. e.type = "Answer" => IsSent(l, e.ask)
  <2>1. e.type = "Answer" => AskState(l, e.ask) # "Unsent"
    BY DEF Fits, AskTypes, DecidedTypes, Ends
  <2> QED BY <2>1, <1>1, AskStates
<1> HIDE DEF m, n
<1>6. AsksNamed(m)
  <2>1. \A i \in DOMAIN l : l[i].type \in AskTypes => l[i].ask \in 1..Decisions(l)
    BY <1>1 DEF AsksNamed
  <2>2. \A i \in DOMAIN m : m[i].type \in AskTypes => m[i].ask \in 1..Decisions(m)
    BY <1>2, <1>3, <1>4, <2>1
  <2>3. ASSUME NEW i \in DOMAIN m, NEW j \in DOMAIN m,
               m[i].type \in AskTypes, m[j].type \in AskTypes, m[i].ask = m[j].ask
        PROVE  i = j
    <3>1. CASE i \in DOMAIN l /\ j \in DOMAIN l
      BY <1>1, <1>2, <2>3, <3>1 DEF AsksNamed
    <3>2. CASE i = n /\ j \in DOMAIN l
      BY <1>2, <1>3, <1>4, <2>1, <2>3, <3>2
    <3>3. CASE j = n /\ i \in DOMAIN l
      BY <1>2, <1>3, <1>4, <2>1, <2>3, <3>3
    <3> QED BY <1>2, <3>1, <3>2, <3>3
  <2> QED BY <2>2, <2>3 DEF AsksNamed
<1>7. AnswersFollow(m)
  <2> SUFFICES ASSUME NEW j \in DOMAIN m, m[j].type = "Answer"
               PROVE  \E i \in 1..(j-1) : m[i].type \in AskTypes /\ m[i].ask = m[j].ask
    BY DEF AnswersFollow
  <2>1. CASE j \in DOMAIN l
    <3>1. PICK i \in 1..(j-1) : l[i].type \in AskTypes /\ l[i].ask = l[j].ask
      BY <1>1, <1>2, <2>1 DEF AnswersFollow
    <3>2. i \in DOMAIN l
      BY <2>1
    <3> QED BY <1>2, <2>1, <3>1, <3>2
  <2>2. CASE j = n
    <3>1. PICK i \in DOMAIN l : l[i].type \in AskTypes /\ l[i].ask = e.ask
      BY <1>2, <1>5, <2>2 DEF IsSent
    <3> QED BY <1>2, <2>2, <3>1
  <2> QED BY <1>2, <2>1, <2>2
<1> QED BY <1>6, <1>7 DEF m

LEMMA StaysInOrder ==
    ASSUME NEW l \in Seq(Event), NEW e \in Event, GoodLog(l), ~Ended(l), Fits(l, e)
    PROVE  InOrder(Append(l, e))
<1> DEFINE m == Append(l, e)
           n == Len(l) + 1
<1>1. InOrder(l) /\ AsksNamed(l) /\ AnswersFollow(l)
  BY DEF GoodLog
<1>2. /\ \A i \in DOMAIN m : i \in DOMAIN l \/ i = n
      /\ \A i \in DOMAIN l : i \in DOMAIN m /\ m[i] = l[i] /\ i \in 1..(n-1)
      /\ n \in DOMAIN m /\ m[n] = e /\ n \in Nat /\ Len(m) = n
      /\ Len(l) = n - 1 /\ DOMAIN l = 1..Len(l)
  BY Appended
<1>3. ASSUME e.type \in DecidedTypes \cup {"StepAdvanced", "RunCompleted"}
      PROVE  NoneOpen(l)
  <2>1. StepAnswered(l) => NoneOpen(l)
    BY DEF GoodLog, StepsInTurn
  <2> QED BY <1>3, <2>1 DEF Fits, Decidable, Ends, DecidedTypes, AskTypes
<1> HIDE DEF m, n
<1>4. \A i \in DOMAIN m : m[i].type \in Ends => i = Len(m)
  BY <1>2 DEF Ended, Has
<1>5. ASSUME NEW i \in DOMAIN m, NEW j \in DOMAIN m,
             m[i] = m[j], m[i].type \in {"RunScheduled", "RunStarted"}
      PROVE  i = j
  <2>1. e.type \in {"RunScheduled", "RunStarted"} => \A k \in DOMAIN l : l[k].type # e.type
    BY DEF Fits, Has, Ends, AskTypes
  <2>2. CASE i \in DOMAIN l /\ j \in DOMAIN l
    BY <1>1, <1>2, <1>5, <2>2 DEF InOrder
  <2> QED BY <1>2, <1>5, <2>1, <2>2
<1>6. ASSUME NEW i \in DOMAIN m, NEW j \in DOMAIN m, i < j, m[i].type \in AskTypes,
             m[j].type \in DecidedTypes \cup {"StepAdvanced", "RunCompleted"}
      PROVE  \E k \in (i+1)..(j-1) : m[k] = About("Answer", m[i].ask)
  <2>1. i \in DOMAIN l
    BY <1>2, <1>6
  <2>2. CASE j \in DOMAIN l
    <3>1. PICK k \in (i+1)..(j-1) : l[k] = About("Answer", l[i].ask)
      BY <1>1, <1>2, <1>6, <2>1, <2>2 DEF InOrder
    <3>2. k \in DOMAIN l
      BY <1>2, <2>1, <2>2
    <3> QED BY <1>2, <2>1, <3>1, <3>2
  <2>3. CASE j = n
    <3>1. NoneOpen(l) /\ l[i].type \in AskTypes
      BY <1>2, <1>3, <1>6, <2>1, <2>3
    <3>2. PICK k \in (i+1)..Len(l) : l[k] = About("Answer", l[i].ask)
      BY <1>1, <2>1, <3>1, AnsweredBehind
    <3>3. k \in DOMAIN l /\ k \in (i+1)..(j-1)
      BY <1>2, <2>1, <2>3
    <3> QED BY <1>2, <2>1, <3>2, <3>3
  <2> QED BY <1>2, <2>2, <2>3
<1>7. InOrder(m)
  BY <1>4, <1>5, <1>6 DEF InOrder
<1> QED BY <1>7 DEF m

LEMMA AnsweredCounts ==
    ASSUME NEW l
    PROVE  /\ Answered(l) \subseteq AskIds
           /\ IsFiniteSet(Answered(l)) /\ Cardinality(Answered(l)) \in Nat
           /\ \A a \in AskIds : a \notin Answered(l) =>
                Cardinality(Answered(l) \cup {a}) = Cardinality(Answered(l)) + 1
<1>1. Answered(l) \subseteq AskIds
  BY DEF Answered
<1>2. IsFiniteSet(AskIds)
  BY MaxDecisionsAssumption, FS_Interval DEF AskIds
<1>3. IsFiniteSet(Answered(l))
  BY <1>1, <1>2, FS_Subset
<1> QED BY <1>1, <1>3, FS_CardinalityType, FS_AddElement

\* How the asks of a good log move on with an event that fits.
LEMMA AsksMoveOn ==
    ASSUME NEW l \in Seq(Event), NEW e \in Event, GoodLog(l), Fits(l, e)
    PROVE  LET m == Append(l, e)
           IN  /\ \A a : AskState(m, a) = "Open" =>
                           \/ AskState(l, a) = "Open" /\ ~(e.type = "Answer" /\ e.ask = a)
                           \/ e.type \in AskTypes /\ e.ask = a
               /\ e.type = "Answer" => e.ask \in AskIds
               /\ Answered(m) = IF e.type = "Answer" THEN Answered(l) \cup {e.ask}
                                ELSE Answered(l)
               /\ \A a : AskState(l, a) # "Unsent" => AskState(m, a) # "Unsent"
<1> DEFINE m == Append(l, e)
<1>1. AsksNamed(l) /\ AnswersFollow(l)
  BY DEF GoodLog
<1>2. m \in Seq(Event) /\ AsksNamed(m) /\ AnswersFollow(m)
  BY AsksStayNamed
<1>3. \A a : /\ AskState(l, a) = "Unsent" <=> ~IsSent(l, a)
             /\ AskState(l, a) = "Answered" <=> IsAnswered(l, a)
             /\ AskState(l, a) = "Open" <=> IsSent(l, a) /\ ~IsAnswered(l, a)
  BY <1>1, AskStates
<1>4. \A a : /\ AskState(m, a) = "Unsent" <=> ~IsSent(m, a)
             /\ AskState(m, a) = "Answered" <=> IsAnswered(m, a)
             /\ AskState(m, a) = "Open" <=> IsSent(m, a) /\ ~IsAnswered(m, a)
  <2> HIDE DEF m
  <2> QED BY <1>2, AskStates
<1>5. \A a : /\ IsSent(m, a) <=> IsSent(l, a) \/ (e.type \in AskTypes /\ e.ask = a)
             /\ IsAnswered(m, a) <=> IsAnswered(l, a) \/ (e.type = "Answer" /\ e.ask = a)
  BY AsksAppended
<1> HIDE DEF m
<1>6. e.type = "Answer" => e.ask \in AskIds
  BY DEF Fits, AskTypes, Ends
<1>7. Answered(m) = IF e.type = "Answer" THEN Answered(l) \cup {e.ask} ELSE Answered(l)
  <2>1. \A a \in AskIds : a \in Answered(m) <=>
                          a \in Answered(l) \/ (e.type = "Answer" /\ e.ask = a)
    BY <1>3, <1>4, <1>5 DEF Answered
  <2> QED BY <2>1, <1>6, AnsweredCounts
<1>8. \A a : AskState(l, a) # "Unsent" => AskState(m, a) # "Unsent"
  BY <1>3, <1>4, <1>5
<1>9. \A a : AskState(m, a) = "Open" =>
               \/ AskState(l, a) = "Open" /\ ~(e.type = "Answer" /\ e.ask = a)
               \/ e.type \in AskTypes /\ e.ask = a
  BY <1>3, <1>4, <1>5
<1> QED BY <1>6, <1>7, <1>8, <1>9 DEF m

LEMMA StepAnsweredCounts ==
    ASSUME NEW l
    PROVE  StepAnswered(l) <=> Cardinality(Answered(l)) > Cardinality(Advances(l))
BY DEF StepAnswered, Answered, Advances

LEMMA StepsStayInTurn ==
    ASSUME NEW l \in Seq(Event), NEW e \in Event, GoodLog(l), Fits(l, e)
    PROVE  StepsInTurn(Append(l, e))
<1> DEFINE m == Append(l, e)
           A(s) == Cardinality(Answered(s))
           S(s) == Cardinality(Advances(s))
<1>1. A(l) <= S(l) + 1 /\ (~NoneOpen(l) => ~StepAnswered(l))
  BY DEF GoodLog, StepsInTurn
<1>2. /\ S(l) \in Nat /\ A(l) \in Nat
      /\ S(m) = IF e.type = "StepAdvanced" THEN S(l) + 1 ELSE S(l)
  BY FoldAppended, AnsweredCounts
<1>3. /\ \A a : AskState(m, a) = "Open" =>
               \/ AskState(l, a) = "Open" /\ ~(e.type = "Answer" /\ e.ask = a)
               \/ e.type \in AskTypes /\ e.ask = a
      /\ e.type = "Answer" => e.ask \in AskIds
      /\ Answered(m) = IF e.type = "Answer" THEN Answered(l) \cup {e.ask} ELSE Answered(l)
  BY AsksMoveOn
<1>4. (StepAnswered(l) <=> A(l) > S(l)) /\ (StepAnswered(m) <=> A(m) > S(m))
  BY StepAnsweredCounts
<1> SUFFICES StepsInTurn(m)
  OBVIOUS
<1> HIDE DEF m
<1>5. ~NoneOpen(m) => \/ ~NoneOpen(l)
                      \/ e.type \in AskTypes
  BY <1>3 DEF NoneOpen
<1>6. CASE e.type = "Answer"
  <2> DEFINE a == e.ask
  <2>1. a \in AskIds /\ AskState(l, a) # "Unsent"
    BY <1>6 DEF Fits, AskTypes, Ends
  <2>2. CASE a \in Answered(l)
    <3>1. Answered(m) = Answered(l)
      BY <1>3, <1>6, <2>2
    <3> QED BY <1>1, <1>2, <1>4, <1>5, <1>6, <3>1 DEF StepsInTurn, AskTypes
  <2>3. CASE a \notin Answered(l)
    <3>1. AskState(l, a) = "Open"
      BY <2>1, <2>3 DEF Answered, AskState
    <3>2. A(l) <= S(l)
      BY <1>1, <1>2, <1>4, <2>1, <3>1 DEF NoneOpen
    <3>3. A(m) = A(l) + 1 /\ S(m) = S(l)
      BY <1>2, <1>3, <1>6, <2>1, <2>3, AnsweredCounts
    <3>4. NoneOpen(m)
      <4> SUFFICES ASSUME NEW b \in AskIds, AskState(m, b) = "Open" PROVE FALSE
        BY DEF NoneOpen
      <4>1. AskState(l, b) = "Open" /\ b # a
        BY <1>3, <1>6 DEF AskTypes
      <4> QED BY <2>1, <3>1, <4>1, OneOpen
    <3> QED BY <1>2, <3>2, <3>3, <3>4 DEF StepsInTurn
  <2> QED BY <2>2, <2>3
<1>7. CASE e.type = "StepAdvanced"
  <2>1. StepAnswered(l)
    BY <1>7 DEF Fits, AskTypes, Ends
  <2>2. NoneOpen(m)
    BY <1>1, <1>5, <1>7, <2>1 DEF AskTypes
  <2> QED BY <1>1, <1>2, <1>3, <1>7, <2>2 DEF StepsInTurn
<1>8. CASE e.type \in AskTypes
  <2>1. ~StepAnswered(l)
    BY <1>8 DEF Fits, AskTypes, Ends, Decidable
  <2> QED BY <1>1, <1>2, <1>3, <1>4, <1>8, <2>1 DEF StepsInTurn, AskTypes
<1>9. CASE e.type \notin AskTypes \cup {"Answer", "StepAdvanced"}
  BY <1>1, <1>2, <1>3, <1>4, <1>5, <1>9 DEF StepsInTurn
<1> QED BY <1>6, <1>7, <1>8, <1>9

\* What fits a log that has not ended leaves a good one.
LEMMA GoodAppended ==
    ASSUME NEW l \in Seq(Event), NEW e \in Event, GoodLog(l), ~Ended(l), Fits(l, e)
    PROVE  GoodLog(Append(l, e))
<1>1. StartedFirst(Append(l, e))
  <2>1. StartedFirst(l)
    BY DEF GoodLog
  <2>2. /\ e.type \in DecidedTypes => Has(l, {"RunStarted"})
        /\ e.type = "RunStarted" => Has(l, {"RunScheduled"})
    BY DEF Fits, Decidable, DecidedTypes, AskTypes, Ends
  <2> QED BY <2>1, <2>2, HasAppended DEF StartedFirst
<1> QED BY <1>1, AsksStayNamed, StaysInOrder, StepsStayInTurn DEF GoodLog

LEMMA EmptyIsGood == GoodLog(<<>>) /\ GoodLog(QueuedEvents)
<1>1. ASSUME NEW l \in Seq(Event), \A i \in DOMAIN l : l[i].type = "RunQueued" /\ i = 1
      PROVE  GoodLog(l)
  <2>1. Answered(l) = {} /\ Advances(l) = {} /\ NoneOpen(l)
    <3>1. \A a : AskState(l, a) = "Unsent"
      BY <1>1 DEF AskState, AskTypes
    <3> QED BY <1>1, <3>1 DEF Answered, Advances, NoneOpen
  <2>2. StepsInTurn(l)
    BY <2>1, FS_EmptySet DEF StepsInTurn
  <2>3. InOrder(l)
    BY <1>1 DEF InOrder, AskTypes, Ends
  <2>4. AsksNamed(l) /\ AnswersFollow(l) /\ StartedFirst(l)
    BY <1>1 DEF AsksNamed, AnswersFollow, StartedFirst, AskTypes, Has, DecidedTypes
  <2> QED BY <2>2, <2>3, <2>4 DEF GoodLog
<1>2. QueuedEvents \in Seq(Event) /\ \A i \in DOMAIN QueuedEvents : QueuedEvents[i].type = "RunQueued" /\ i = 1
  <2>1. Plain("RunQueued") \in Event
    BY EventTypes DEF Types
  <2> QED BY <2>1 DEF QueuedEvents, Plain
<1>3. <<>> \in Seq(Event) /\ DOMAIN <<>> = {}
  OBVIOUS
<1>4. GoodLog(<<>>)
  BY <1>1, <1>3
<1> QED BY <1>1, <1>2, <1>4

(***************************************************************************)
(* Writes                                                                  *)
(***************************************************************************)
LEMMA ConcatGrows ==
    ASSUME NEW l \in Seq(Event), NEW batch \in Seq(Event), batch # <<>>, ~Ended(l)
    PROVE  Grows(l, l \o batch)
<1>1. Len(l \o batch) = Len(l) + Len(batch) /\ Len(batch) > 0 /\ Len(l) \in Nat
  OBVIOUS
<1>2. \A i \in DOMAIN l : (l \o batch)[i] = l[i]
  OBVIOUS
<1> QED BY <1>1, <1>2 DEF Grows

\* What a log that only grows leaves true.
LEMMA GrownLog ==
    ASSUME NEW l \in Seq(Event), NEW m \in Seq(Event), Grows(l, m)
    PROVE  /\ Len(m) >= Len(l)
           /\ SubSeq(m, 1, Len(l)) = l
           /\ Ended(l) => m = l
           /\ \A c \in Seq(Event) : CopyOf(c, l) => CopyOf(c, m)
           /\ \A a : AskState(l, a) # "Unsent" => AskState(m, a) # "Unsent"
<1>1. Len(l) \in Nat /\ Len(m) \in Nat /\ Len(l) <= Len(m) /\ DOMAIN l = 1..Len(l) /\ DOMAIN m = 1..Len(m)
  BY DEF Grows
<1>2. \A i \in DOMAIN l : i \in DOMAIN m /\ m[i] = l[i]
  BY <1>1 DEF Grows
<1>3. SubSeq(m, 1, Len(l)) = l
  <2>1. Len(SubSeq(m, 1, Len(l))) = Len(l) /\ SubSeq(m, 1, Len(l)) \in Seq(Event)
    BY <1>1
  <2>2. \A i \in 1..Len(l) : SubSeq(m, 1, Len(l))[i] = l[i]
    BY <1>1, <1>2
  <2> QED BY <2>1, <2>2
<1>4. ASSUME NEW c \in Seq(Event), CopyOf(c, l) PROVE CopyOf(c, m)
  <2>1. Len(c) \in Nat /\ DOMAIN c = 1..Len(c) /\ Len(c) <= Len(l)
    BY <1>4 DEF CopyOf
  <2> QED BY <1>1, <1>2, <1>4, <2>1 DEF CopyOf
<1>5. \A a : AskState(l, a) # "Unsent" => AskState(m, a) # "Unsent"
  <2> SUFFICES ASSUME NEW a, AskState(l, a) # "Unsent" PROVE AskState(m, a) # "Unsent"
    OBVIOUS
  <2>1. \E i \in DOMAIN l : l[i].type \in AskTypes /\ l[i].ask = a
    BY DEF AskState
  <2>2. \E i \in DOMAIN m : m[i].type \in AskTypes /\ m[i].ask = a
    BY <1>2, <2>1
  <2> QED BY <2>2 DEF AskState
<1>6. Ended(l) => m = l
  BY DEF Grows
<1> QED BY <1>1, <1>3, <1>4, <1>5, <1>6

\* One event that fits, whatever the store answers.
LEMMA GoodWrite ==
    ASSUME NEW l \in Seq(Event), NEW e \in Event, NEW seen, GoodLog(l), Fits(l, e)
    PROVE  LET m == AppendEventsAfter(l, seen, <<e>>)
           IN  m \in Seq(Event) /\ Grows(l, m) /\ GoodLog(m)
<1>1. CASE AppendResult(l, seen) = "Appended"
  <2>1. ~Ended(l)
    BY <1>1 DEF AppendResult
  <2>2. AppendEventsAfter(l, seen, <<e>>) = Append(l, e)
    <3>1. l \o <<e>> = Append(l, e)
      OBVIOUS
    <3> QED BY <1>1, <3>1 DEF AppendEventsAfter
  <2>3. Append(l, e) \in Seq(Event) /\ Grows(l, Append(l, e))
    BY <2>1, Appended DEF Grows
  <2> QED BY <2>1, <2>2, <2>3, GoodAppended
<1>2. CASE AppendResult(l, seen) # "Appended"
  BY <1>2 DEF AppendEventsAfter, Grows
<1> QED BY <1>1, <1>2

\* What a worker holds leaves a good log.
LEMMA GoodBatch ==
    ASSUME NEW l \in Seq(Event), NEW batch \in Seq(Event), GoodLog(l), ~Ended(l),
           BatchFits(l, batch)
    PROVE  /\ l \o batch \in Seq(Event) /\ Grows(l, l \o batch) /\ GoodLog(l \o batch)
           /\ ~Ended(l \o batch) =>
                /\ Len(batch) = 1 /\ batch[1] \in Event /\ l \o batch = Append(l, batch[1])
                /\ Fits(l, batch[1]) /\ batch[1].type \notin Ends \cup {"Answer"}
<1>1. batch # <<>> /\ Len(batch) \in {1, 2}
  BY DEF BatchFits
<1>2. batch[1] \in Event /\ Fits(l, batch[1])
  BY <1>1 DEF BatchFits
<1> DEFINE m == Append(l, batch[1])
<1>3. m \in Seq(Event) /\ GoodLog(m)
  BY <1>2, GoodAppended
<1>4. l \o batch \in Seq(Event) /\ Grows(l, l \o batch)
  BY <1>1, ConcatGrows
<1>5. CASE Len(batch) = 1
  <2>1. l \o batch = m
    <3>1. m \in Seq(Event) /\ Len(m) = Len(l) + 1 /\ Len(l \o batch) = Len(l) + 1
      BY <1>3, <1>5, <1>2, Appended
    <3>2. \A i \in 1..Len(m) : (l \o batch)[i] = m[i]
      BY <1>2, <1>5, <3>1
    <3> HIDE DEF m
    <3> QED BY <1>4, <3>1, <3>2, SeqEqual
  <2>2. ~Ended(m) => batch[1].type \notin Ends
    BY <1>2, HasAppended DEF Ended
  <2>3. batch[1].type # "Answer"
    BY <1>5 DEF BatchFits
  <2> QED BY <1>2, <1>3, <1>4, <1>5, <2>1, <2>2, <2>3
<1>6. CASE Len(batch) = 2
  <2>1. batch[1].type \notin Ends \cup {"Answer"} /\ batch[2].type \in {"RunFailed", "RunCancelled"}
    BY <1>6 DEF BatchFits
  <2>2. batch[2] \in Event
    <3>1. 2 \in 1..Len(batch)
      BY <1>6
    <3> QED BY <3>1, ElementOfSeq
  <2>3. l \o batch = Append(m, batch[2])
    <3> DEFINE n == Append(m, batch[2])
    <3>1. n \in Seq(Event) /\ Len(n) = Len(l) + 2 /\ Len(l \o batch) = Len(l) + 2
      BY <1>2, <1>3, <1>6, <2>2, Appended
    <3>2. \A i \in 1..Len(n) : (l \o batch)[i] = n[i]
      BY <1>2, <1>6, <2>2, <3>1
    <3> HIDE DEF n
    <3>3. l \o batch = n
      BY <1>4, <3>1, <3>2, SeqEqual
    <3> QED BY <3>3 DEF n
  <2>4. ~Ended(m)
    BY <1>2, <2>1, HasAppended DEF Ended
  <2>5. Fits(m, batch[2])
    BY <2>1 DEF Fits, Ends
  <2>6. GoodLog(Append(m, batch[2]))
    BY <1>3, <2>2, <2>4, <2>5, GoodAppended
  <2>7. Ended(Append(m, batch[2]))
    <3>1. batch[2].type \in Ends
      BY <2>1 DEF Ends
    <3> HIDE DEF m
    <3> QED BY <1>3, <2>2, <3>1, HasAppended DEF Ended
  <2> QED BY <1>4, <2>3, <2>6, <2>7
<1> QED BY <1>1, <1>5, <1>6

\* Going on from a batch the store took, the harness may decide, unless the
\* ladder was all of it.
LEMMA GoesOnDecidable ==
    ASSUME NEW l \in Seq(Event), NEW e \in Event, GoodLog(l), ~Ended(l), Fits(l, e),
           e.type \notin Ends \cup {"Answer", "RunScheduled"}, NoneOpen(Append(l, e))
    PROVE  Decidable(Append(l, e))
<1> DEFINE m == Append(l, e)
           A(s) == Cardinality(Answered(s))
           S(s) == Cardinality(Advances(s))
<1>1. /\ A(l) \in Nat /\ S(l) \in Nat /\ A(l) <= S(l) + 1
      /\ S(m) = IF e.type = "StepAdvanced" THEN S(l) + 1 ELSE S(l)
  BY FoldAppended, AnsweredCounts DEF GoodLog, StepsInTurn
<1>2. Answered(m) = Answered(l)
  BY AsksMoveOn
<1>3. (StepAnswered(l) <=> A(l) > S(l)) /\ (StepAnswered(m) <=> A(m) > S(m))
  BY StepAnsweredCounts
<1>4. Has(m, {"RunStarted"}) <=> Has(l, {"RunStarted"}) \/ e.type = "RunStarted"
  BY HasAppended
<1>5. CASE e.type = "RunStarted"
  <2>1. ~Has(l, DecidedTypes)
    BY <1>5 DEF Fits, AskTypes, Ends, GoodLog, StartedFirst
  <2>2. \A a : AskState(l, a) = "Unsent"
    BY <2>1 DEF AskState, Has, DecidedTypes
  <2>3. Answered(l) = {}
    BY <2>2 DEF Answered
  <2>4. A(l) = 0
    BY <2>3, FS_EmptySet
  <2>5. ~StepAnswered(m)
    BY <1>1, <1>2, <1>3, <2>4
  <2> QED BY <1>4, <1>5, <2>5 DEF Decidable
<1>6. CASE e.type = "StepAdvanced"
  <2>1. Has(l, {"RunStarted"})
    BY <1>6 DEF Fits, AskTypes, Ends
  <2>2. ~StepAnswered(m)
    BY <1>1, <1>2, <1>3, <1>6
  <2> QED BY <1>4, <2>1, <2>2 DEF Decidable
<1>7. CASE e.type \in DecidedTypes
  <2>1. Decidable(l)
    BY <1>7 DEF Fits, AskTypes, Ends, DecidedTypes
  <2>2. ~StepAnswered(m)
    BY <1>1, <1>2, <1>3, <1>7, <2>1 DEF Decidable, DecidedTypes, AskTypes
  <2> QED BY <1>4, <2>1, <2>2 DEF Decidable
<1>8. e.type \in DecidedTypes \cup {"RunStarted", "StepAdvanced"}
  BY DEF Fits, DecidedTypes
<1> QED BY <1>5, <1>6, <1>7, <1>8

(***************************************************************************)
(* The threads                                                             *)
(***************************************************************************)
\* What a step does to the logs.
LogsGood == \A r \in Runs : Grows(log[r], log'[r]) /\ GoodLog(log'[r])

LEMMA LogTypes ==
    ASSUME TypeInv, NEW r \in Runs
    PROVE  log[r] \in Seq(Event)
BY DEF TypeInv, TypeOK

LEMMA NoWrite ==
    ASSUME LogInv, UNCHANGED log
    PROVE  LogsGood
BY DEF LogInv, LogsGood, Grows

LEMMA OneWrite ==
    ASSUME LogInv, NEW r \in Runs, NEW l, log' = [log EXCEPT ![r] = l],
           Grows(log[r], l), GoodLog(l)
    PROVE  LogsGood /\ log'[r] = l
<1>1. log \in [Runs -> Seq(Event)]
  BY DEF LogInv, TypeInv, TypeOK
<1>2. \A s \in Runs : log'[s] = IF s = r THEN l ELSE log[s]
  BY <1>1
<1> QED BY <1>2 DEF LogInv, LogsGood, Grows

\* A thread that does not move still fits.
LEMMA WorkerStillFits ==
    ASSUME NEW k \in WorkerType, NEW l \in Seq(Event), NEW m \in Seq(Event),
           WorkerFits(k, l), Grows(l, m)
    PROVE  WorkerFits(k, m)
<1>1. k.events \in Seq(Event)
  BY DEF WorkerType
<1>2. CopyOf(k.events, l) => CopyOf(k.events, m)
  BY <1>1, GrownLog
<1> QED BY <1>2 DEF WorkerFits

LEMMA WorkersStay ==
    ASSUME LogInv, TypeInv', LogsGood, NEW w \in Workers, wk'[w] = wk[w]
    PROVE  WorkerFits(wk'[w], log'[wk'[w].run])
<1>1. wk[w] \in WorkerType /\ WorkerFits(wk[w], log[wk[w].run])
  BY DEF LogInv, TypeInv, TypeOK
<1>2. CASE wk[w].pc = "idle"
  BY <1>2 DEF WorkerFits
<1>3. CASE wk[w].pc # "idle"
  <2>1. wk[w].run \in Runs
    BY <1>3 DEF LogInv, TypeInv, BusyOnRuns
  <2>2. log[wk[w].run] \in Seq(Event) /\ log'[wk[w].run] \in Seq(Event)
    BY <2>1 DEF LogInv, TypeInv, TypeOK
  <2> QED BY <1>1, <2>1, <2>2, WorkerStillFits DEF LogsGood
<1> QED BY <1>2, <1>3

LEMMA CouriersStay ==
    ASSUME LogInv, TypeInv', LogsGood, NEW d \in Couriers, dl'[d] = dl[d]
    PROVE  CourierFits(dl'[d], log'[dl'[d].run])
<1>1. CourierFits(dl[d], log[dl[d].run])
  BY DEF LogInv
<1>2. CASE dl[d].pc = "idle"
  BY <1>2 DEF CourierFits
<1>3. CASE dl[d].pc # "idle"
  <2>1. dl[d].run \in Runs
    BY <1>3 DEF LogInv, TypeInv, BusyOnRuns
  <2>2. log[dl[d].run] \in Seq(Event) /\ log'[dl[d].run] \in Seq(Event)
    BY <2>1 DEF LogInv, TypeInv, TypeOK
  <2>3. \A a : AskState(log[dl[d].run], a) # "Unsent" => AskState(log'[dl[d].run], a) # "Unsent"
    BY <2>1, <2>2, GrownLog DEF LogsGood
  <2> QED BY <1>1, <2>3 DEF CourierFits
<1> QED BY <1>2, <1>3

\* A step of no worker and no courier.
LEMMA LogInvKept ==
    ASSUME LogInv, TypeInv', LogsGood,
           \A w \in Workers : WorkerFits(wk'[w], log'[wk'[w].run]),
           \A d \in Couriers : CourierFits(dl'[d], log'[dl'[d].run])
    PROVE  LogInv'
BY DEF LogInv, LogsGood

\* An unconditional end (RunFailed), or a cancel on the log that was read.
LEMMA EndWrite ==
    ASSUME LogInv, NEW r \in Runs, NEW type \in {"RunFailed", "RunCancelled"}, NEW seen,
           log' = [log EXCEPT ![r] = AppendEventsAfter(log[r], seen, <<Plain(type)>>)]
    PROVE  LogsGood
<1>1. log[r] \in Seq(Event) /\ GoodLog(log[r])
  BY LogTypes DEF LogInv
<1>2. Plain(type) \in Event
  BY EventTypes DEF Types, Ends
<1>3. Fits(log[r], Plain(type))
  BY DEF Fits, Plain, Ends
<1> DEFINE m == AppendEventsAfter(log[r], seen, <<Plain(type)>>)
<1>4. Grows(log[r], m) /\ GoodLog(m)
  BY <1>1, <1>2, <1>3, GoodWrite
<1>5. log' = [log EXCEPT ![r] = m]
  OBVIOUS
<1> HIDE DEF m
<1> QED BY <1>4, <1>5, OneWrite

LEMMA PutGood ==
    ASSUME LogInv, NEW r \in Runs, log' = [log EXCEPT ![r] = PutRun(log[r])]
    PROVE  LogsGood
<1>1. log[r] \in Seq(Event) /\ GoodLog(log[r])
  BY LogTypes DEF LogInv
<1> DEFINE m == PutRun(log[r])
<1>2. GoodLog(m)
  BY <1>1, EmptyIsGood DEF PutRun
<1>3. Grows(log[r], m)
  <2>1. CASE log[r] = <<>>
    <3>1. Len(<<>>) = 0 /\ DOMAIN <<>> = {} /\ Len(QueuedEvents) = 1 /\ ~Ended(<<>>)
      BY DEF QueuedEvents, Ended, Has
    <3> QED BY <2>1, <3>1 DEF Grows, PutRun
  <2>2. CASE log[r] # <<>>
    BY <2>2 DEF Grows, PutRun
  <2> QED BY <2>1, <2>2
<1>4. log' = [log EXCEPT ![r] = m]
  OBVIOUS
<1> HIDE DEF m
<1> QED BY <1>2, <1>3, <1>4, OneWrite

LEMMA ProducerLogs == LogInv /\ ProducerNext => LogsGood
<1> SUFFICES ASSUME LogInv, ProducerNext PROVE LogsGood
  OBVIOUS
<1>1. \A p \in Producers : ProducedRun[p] \in Runs
  BY ProducerAssumption
<1>2. \/ UNCHANGED log
      \/ \E p \in Producers : log' = [log EXCEPT ![ProducedRun[p]] = PutRun(log[ProducedRun[p]])]
      \/ \E p \in Producers :
           log' = [log EXCEPT ![ProducedRun[p]] =
                     AppendEventsAfter(log[ProducedRun[p]], Len(log[ProducedRun[p]]),
                                       <<Plain("RunFailed")>>)]
  BY DEF ProducerNext, ProducerSteps, ProducerFaults, PendRun, PutStored, PutFails,
         PutCommitsLate, PushRun, PushFails, EndRun, ReadExisting, CheckQueued,
         UnpendExisting, ProducerDies, PendingForgotten, shared, AppendEvents
<1> QED BY <1>1, <1>2, NoWrite, PutGood, EndWrite

LEMMA StopperLogs == LogInv /\ StopperNext => LogsGood
<1> SUFFICES ASSUME LogInv, StopperNext PROVE LogsGood
  OBVIOUS
<1>1. CASE CancelRun
  <2>1. st.run \in Runs
    BY <1>1 DEF CancelRun, LogInv, TypeInv, BusyOnRuns
  <2>2. log' = [log EXCEPT ![st.run] =
                  AppendEventsAfter(log[st.run], st.seen, <<Plain("RunCancelled")>>)]
    BY <1>1 DEF CancelRun
  <2> QED BY <2>1, <2>2, EndWrite
<1>2. CASE ~CancelRun
  <2>1. UNCHANGED log
    BY <1>2 DEF StopperNext, StopperSteps, PutStop, ReadParked, ReadRun, WakeCancelled,
                StopFails, shared
  <2> QED BY <2>1, NoWrite
<1> QED BY <1>1, <1>2

LEMMA SweeperLogs == LogInv /\ SweeperNext => LogsGood
<1> SUFFICES ASSUME LogInv, SweeperNext PROVE LogsGood
  OBVIOUS
<1>1. UNCHANGED log
  BY DEF SweeperNext, SweeperSteps, ReapExpired, ListPending, LoadPending, PushPending,
         UnpendPending, SweepFails, shared
<1> QED BY <1>1, NoWrite

\* A courier that becomes k.
LEMMA CourierMoved ==
    ASSUME LogInv, TypeInv', LogsGood, NEW d \in Couriers, NEW k, Carries(d, k),
           CourierFits(k, log'[k.run])
    PROVE  \A c \in Couriers : CourierFits(dl'[c], log'[dl'[c].run])
<1>1. dl \in [Couriers -> CourierType]
  BY DEF LogInv, TypeInv, TypeOK
<1>2. \A c \in Couriers : dl'[c] = IF c = d THEN k ELSE dl[c]
  BY <1>1 DEF Carries
<1> QED BY <1>2, CouriersStay

\* One that carries nothing yet, or nothing more, to a log.
LEMMA CourierElsewhere ==
    ASSUME LogInv, TypeInv', LogsGood, NEW d \in Couriers, NEW k, Carries(d, k),
           k.pc \notin {"append", "reply"}
    PROVE  \A c \in Couriers : CourierFits(dl'[c], log'[dl'[c].run])
BY CourierMoved DEF CourierFits

LEMMA WaitsOnOpen ==
    ASSUME NEW l, WaitingForMessage(l) # 0
    PROVE  WaitingForMessage(l) \in AskIds /\ AskState(l, WaitingForMessage(l)) = "Open"
BY DEF WaitingForMessage

LEMMA NotWaiting ==
    ASSUME NEW l, WaitingForMessage(l) = 0
    PROVE  NoneOpen(l)
<1> SUFFICES ASSUME NEW a \in AskIds, AskState(l, a) = "Open" PROVE FALSE
  BY DEF NoneOpen
<1>1. WaitingForMessage(l) \in AskIds
  BY DEF WaitingForMessage
<1> QED BY <1>1, MaxDecisionsAssumption DEF AskIds

LEMMA CourierLogs ==
    LogInv /\ TypeInv' /\ CourierNext
        => LogsGood /\ \A d \in Couriers : CourierFits(dl'[d], log'[dl'[d].run])
<1> SUFFICES ASSUME LogInv, TypeInv', CourierNext
             PROVE  LogsGood /\ \A d \in Couriers : CourierFits(dl'[d], log'[dl'[d].run])
  OBVIOUS
<1>1. PICK d \in Couriers : CourierStarts(d) \/ CourierCarries(d) \/ CourierFails(d)
  BY DEF CourierNext
<1>2. /\ dl[d] \in CourierType
      /\ dl[d].pc # "idle" => dl[d].run \in Runs /\ log[dl[d].run] \in Seq(Event)
                                                 /\ GoodLog(log[dl[d].run])
  BY DEF LogInv, TypeInv, TypeOK, BusyOnRuns
<1>3. CourierFits(dl[d], log[dl[d].run])
  BY DEF LogInv
<1>4. ASSUME NEW k, Carries(d, k), UNCHANGED log, k.pc \notin {"append", "reply"}
      PROVE  LogsGood /\ \A c \in Couriers : CourierFits(dl'[c], log'[dl'[c].run])
  BY <1>4, NoWrite, CourierElsewhere
<1>5. CASE DeliverRead(d)
  <2> DEFINE l == log[dl[d].run]
             k == [dl[d] EXCEPT !.pc = "append"]
  <2>1. UNCHANGED log /\ dl[d].pc = "deliver"
    BY <1>5 DEF DeliverRead, shared, Carrying
  <2>2. LogsGood
    BY <2>1, NoWrite
  <2>3. CASE Carries(d, k) /\ AskState(l, dl[d].ask) = "Open"
    <3>1. k.pc = "append" /\ k.run = dl[d].run /\ k.ask = dl[d].ask
      BY <1>2 DEF CourierType
    <3>2. dl[d].ask \in AskIds
      <4>1. \E i \in DOMAIN l : l[i].type \in AskTypes /\ l[i].ask = dl[d].ask
        BY <2>3 DEF AskState
      <4>2. l \in Seq(Event) /\ AsksNamed(l)
        BY <1>2, <2>1 DEF GoodLog
      <4> HIDE DEF l
      <4> QED BY <4>1, <4>2, AsksAreIds
    <3>3. CourierFits(k, log'[k.run])
      BY <2>1, <2>3, <3>1, <3>2 DEF CourierFits
    <3> HIDE DEF k
    <3> QED BY <2>2, <2>3, <3>3, CourierMoved
  <2>4. CASE ~(Carries(d, k) /\ AskState(l, dl[d].ask) = "Open")
    <3>1. Turns(d, "mark") \/ Drops(d)
      BY <1>5, <2>4 DEF DeliverRead, Turns
    <3>2. [dl[d] EXCEPT !.pc = "mark"].pc = "mark" /\ IdleCourier.pc = "idle"
      BY <1>2 DEF CourierType, IdleCourier
    <3> QED BY <1>4, <2>1, <3>1, <3>2 DEF Turns, Drops
  <2> QED BY <2>3, <2>4
<1>6. CASE ReadQuestion(d)
  <2> DEFINE l == log[dl[d].run]
             a == WaitingForMessage(l)
             k == [dl[d] EXCEPT !.pc = "reply", !.ask = a, !.seen = Len(l)]
  <2>1. UNCHANGED log /\ dl[d].pc = "question"
    BY <1>6 DEF ReadQuestion, shared, Carrying
  <2>2. LogsGood
    BY <2>1, NoWrite
  <2>3. CASE Carries(d, k) /\ a # 0
    <3>1. k.pc = "reply" /\ k.run = dl[d].run /\ k.ask = a
      BY <1>2 DEF CourierType
    <3>2. a \in AskIds /\ AskState(l, a) # "Unsent"
      BY <2>3, WaitsOnOpen
    <3>3. CourierFits(k, log'[k.run])
      BY <2>1, <3>1, <3>2 DEF CourierFits
    <3> HIDE DEF k
    <3> QED BY <2>2, <2>3, <3>3, CourierMoved
  <2>4. CASE Drops(d)
    <3>1. IdleCourier.pc = "idle"
      BY DEF IdleCourier
    <3> QED BY <1>4, <2>1, <2>4, <3>1 DEF Drops
  <2> QED BY <1>6, <2>3, <2>4 DEF ReadQuestion
<1>7. ASSUME dl[d].pc \in {"append", "reply"}, NEW seen, NEW k, Carries(d, k),
             k.pc \notin {"append", "reply"},
             log' = [log EXCEPT ![dl[d].run] =
                       AppendEventsAfter(log[dl[d].run], seen, <<About("Answer", dl[d].ask)>>)]
      PROVE  LogsGood /\ \A c \in Couriers : CourierFits(dl'[c], log'[dl'[c].run])
  <2> DEFINE e == About("Answer", dl[d].ask)
             l == log[dl[d].run]
             m == AppendEventsAfter(l, seen, <<e>>)
  <2>1. dl[d].run \in Runs /\ l \in Seq(Event) /\ GoodLog(l)
    BY <1>2, <1>7
  <2>2. dl[d].ask \in AskIds /\ AskState(l, dl[d].ask) # "Unsent"
    BY <1>3, <1>7 DEF CourierFits
  <2>3. e \in Event /\ Fits(l, e)
    <3>1. e \in Event
      BY <1>2, EventTypes DEF CourierType, Types
    <3> QED BY <2>2, <3>1 DEF Fits, About
  <2>4. Grows(l, m) /\ GoodLog(m)
    <3> HIDE DEF e, l
    <3> QED BY <2>1, <2>3, GoodWrite
  <2>5. log' = [log EXCEPT ![dl[d].run] = m]
    BY <1>7
  <2>6. LogsGood
    <3> HIDE DEF m
    <3> QED BY <2>1, <2>4, <2>5, OneWrite
  <2> QED BY <1>7, <2>6, CourierElsewhere
<1>8. CASE DeliverAppend(d)
  <2> DEFINE k == [dl[d] EXCEPT !.pc = "mark"]
  <2>1. dl[d].pc = "append" /\ Carries(d, k) /\ k.pc = "mark"
    BY <1>2, <1>8 DEF DeliverAppend, Carrying, Turns, CourierType
  <2>2. log' = [log EXCEPT ![dl[d].run] =
                  AppendEventsAfter(log[dl[d].run], Len(log[dl[d].run]),
                                    <<About("Answer", dl[d].ask)>>)]
    BY <1>8 DEF DeliverAppend, AppendEvents
  <2> HIDE DEF k
  <2> QED BY <1>7, <2>1, <2>2
<1>9. CASE ReplyToQuestion(d)
  <2>1. dl[d].pc = "reply"
    BY <1>9 DEF ReplyToQuestion, Carrying
  <2>2. log' = [log EXCEPT ![dl[d].run] =
                  AppendEventsAfter(log[dl[d].run], dl[d].seen, <<About("Answer", dl[d].ask)>>)]
    BY <1>9 DEF ReplyToQuestion
  <2>3. \E k : Carries(d, k) /\ k.pc \notin {"append", "reply"}
    <3> DEFINE wakes == [dl[d] EXCEPT !.pc = "wake"]
               again == [dl[d] EXCEPT !.pc = "question", !.tries = dl[d].tries + 1, !.seen = 0]
    <3>1. wakes.pc = "wake" /\ again.pc = "question" /\ IdleCourier.pc = "idle"
      BY <1>2 DEF CourierType, IdleCourier
    <3>2. Carries(d, wakes) \/ Carries(d, again) \/ Carries(d, IdleCourier)
      BY <1>9 DEF ReplyToQuestion, Turns, Drops
    <3> HIDE DEF wakes, again
    <3> QED BY <3>1, <3>2
  <2> QED BY <1>7, <2>1, <2>2, <2>3
<1>10. CASE \/ CourierStarts(d) \/ CourierFails(d) \/ LookAtParked(d) \/ LookAtStop(d)
            \/ MarkAnswered(d) \/ WakeAsker(d)
  <2>1. UNCHANGED log
    BY <1>10 DEF CourierStarts, CourierFails, LookAtParked, LookAtStop, MarkAnswered, WakeAsker,
                 SweepParked, UserAnswers, TaskAnswers, AskIsDue, shared
  <2>2. \E k : Carries(d, k) /\ k.pc \notin {"append", "reply"}
    <3>1. \A pc : [dl[d] EXCEPT !.pc = pc].pc = pc
      BY <1>2 DEF CourierType
    <3>2. \A r, a, leave : Carries(d, IdleCourier) \/ SetsOut(d, r, a, leave) =>
                             \E k : Carries(d, k) /\ k.pc \notin {"append", "reply"}
      <4>1. IdleCourier.pc = "idle"
        BY DEF IdleCourier
      <4>2. ASSUME NEW r, NEW a, NEW leave, SetsOut(d, r, a, leave)
            PROVE  \E k : Carries(d, k) /\ k.pc = "deliver"
        <5> DEFINE k == [IdleCourier EXCEPT !.pc = "deliver", !.run = r, !.ask = a,
                                            !.leave = leave]
        <5>1. k.pc = "deliver"
          BY DEF IdleCourier
        <5>2. Carries(d, k)
          BY <4>2 DEF SetsOut
        <5> HIDE DEF k
        <5> QED BY <5>1, <5>2
      <4> QED BY <4>1, <4>2
    <3>3. \A pc \in {"wake", "stop"} : Turns(d, pc) =>
                                       \E k : Carries(d, k) /\ k.pc \notin {"append", "reply"}
      BY <3>1 DEF Turns
    <3>4. CASE CourierStarts(d)
      <4>1. ASSUME NEW r \in Runs, SweepParked(d, r)
            PROVE  \E k : Carries(d, k) /\ k.pc = "look"
        <5> DEFINE k == [IdleCourier EXCEPT !.pc = "look", !.run = r, !.ask = queue.parked[r]]
        <5>1. k.pc = "look" /\ Carries(d, k)
          BY <4>1 DEF SweepParked, IdleCourier
        <5> HIDE DEF k
        <5> QED BY <5>1
      <4>2. ASSUME NEW r \in Runs, UserAnswers(d, r)
            PROVE  \E k : Carries(d, k) /\ k.pc = "question"
        <5> DEFINE k == [IdleCourier EXCEPT !.pc = "question", !.run = r]
        <5>1. k.pc = "question" /\ Carries(d, k)
          BY <4>2 DEF UserAnswers, IdleCourier
        <5> HIDE DEF k
        <5> QED BY <5>1
      <4> QED BY <3>2, <3>4, <4>1, <4>2 DEF CourierStarts, TaskAnswers, AskIsDue
    <3>5. CASE LookAtParked(d)
      BY <3>2, <3>3, <3>5 DEF LookAtParked, Drops
    <3>6. CASE CourierFails(d) \/ LookAtStop(d) \/ MarkAnswered(d) \/ WakeAsker(d)
      BY <3>2, <3>3, <3>6 DEF CourierFails, LookAtStop, MarkAnswered, WakeAsker, Drops
    <3> QED BY <1>10, <3>4, <3>5, <3>6
  <2> QED BY <1>4, <2>1, <2>2
<1> QED BY <1>1, <1>5, <1>6, <1>8, <1>9, <1>10 DEF CourierCarries

\* A worker that becomes k.
LEMMA WorkerMoved ==
    ASSUME LogInv, TypeInv', LogsGood, NEW w \in Workers, NEW k, Becomes(w, k),
           WorkerFits(k, log'[k.run])
    PROVE  \A v \in Workers : WorkerFits(wk'[v], log'[wk'[v].run])
<1>1. wk \in [Workers -> WorkerType]
  BY DEF LogInv, TypeInv, TypeOK
<1>2. \A v \in Workers : wk'[v] = IF v = w THEN k ELSE wk[v]
  BY <1>1 DEF Becomes
<1> QED BY <1>2, WorkersStay

\* The positions from which a worker may yet write what it decided.
Deciding == {"start", "run", "resume", "bound", "decide", "send", "hold", "append"}

\* One that is done deciding.
LEMMA WorkerElsewhere ==
    ASSUME LogInv, TypeInv', LogsGood, NEW w \in Workers, NEW pc \in WorkerPcs \ Deciding, NEW a,
           Goes(w, pc) \/ Finishes(w, pc, a) \/ Rests(w)
    PROVE  \A v \in Workers : WorkerFits(wk'[v], log'[wk'[v].run])
<1>1. wk[w] \in WorkerType
  BY DEF LogInv, TypeInv, TypeOK
<1>2. \A k : k.pc \notin Deciding => WorkerFits(k, log'[k.run])
  BY DEF WorkerFits, Deciding
<1>3. CASE Goes(w, pc)
  <2> DEFINE k == [wk[w] EXCEPT !.pc = pc]
  <2>1. k.pc = pc /\ Becomes(w, k)
    BY <1>1, <1>3 DEF Goes, WorkerType
  <2> HIDE DEF k
  <2> QED BY <1>2, <2>1, WorkerMoved
<1>4. CASE Finishes(w, pc, a)
  <2> DEFINE k == [IdleWorker EXCEPT !.pc = pc, !.run = wk[w].run, !.ask = a]
  <2>1. k.pc = pc /\ Becomes(w, k)
    BY <1>4 DEF Finishes, IdleWorker
  <2> HIDE DEF k
  <2> QED BY <1>2, <2>1, WorkerMoved
<1>5. CASE Rests(w)
  <2>1. IdleWorker.pc = "idle" /\ "idle" \notin Deciding
    BY DEF IdleWorker, Deciding
  <2> QED BY <1>2, <1>5, <2>1, WorkerMoved DEF Rests
<1> QED BY <1>3, <1>4, <1>5

LEMMA BatchOfOne ==
    ASSUME NEW l, NEW e, Fits(l, e), e.type # "Answer"
    PROVE  BatchFits(l, <<e>>)
BY DEF BatchFits

WorkersFit == \A v \in Workers : WorkerFits(wk'[v], log'[wk'[v].run])

LEMMA WorkerLogs ==
    LogInv /\ TypeInv' /\ WorkerNext => LogsGood /\ WorkersFit
<1> SUFFICES ASSUME LogInv, TypeInv', WorkerNext
             PROVE  LogsGood /\ WorkersFit
  OBVIOUS
<1>1. ASSUME NEW w \in Workers
      PROVE  /\ wk[w] \in WorkerType
             /\ wk[w].events \in Seq(Event) /\ wk[w].batch \in Seq(Event)
             /\ WorkerFits(wk[w], log[wk[w].run])
             /\ wk[w].pc # "idle" => /\ wk[w].run \in Runs
                                     /\ log[wk[w].run] \in Seq(Event)
                                     /\ GoodLog(log[wk[w].run])
  BY DEF LogInv, TypeInv, TypeOK, BusyOnRuns, WorkerType
<1>2. ASSUME NEW w \in Workers, UNCHANGED log, NEW pc \in WorkerPcs \ Deciding, NEW a,
             Goes(w, pc) \/ Finishes(w, pc, a) \/ Rests(w)
      PROVE  LogsGood /\ WorkersFit
  BY <1>2, NoWrite, WorkerElsewhere DEF WorkersFit
<1>3. ASSUME NEW w \in Workers, UNCHANGED log, NEW k, Becomes(w, k), WorkerFits(k, log[k.run])
      PROVE  LogsGood /\ WorkersFit
  BY <1>3, NoWrite, WorkerMoved DEF WorkersFit
<1>4. ASSUME UNCHANGED <<log, wk>> PROVE LogsGood /\ WorkersFit
  BY <1>4, NoWrite, WorkersStay DEF WorkersFit
<1>5. {"ack", "park", "release", "exhausted", "load", "reload", "recheck", "restop", "wake", "idle"}
          \subseteq WorkerPcs \ Deciding
  BY DEF WorkerPcs, Deciding
<1>6. ASSUME NEW w \in Workers, ClaimRun(w) PROVE LogsGood /\ WorkersFit
  <2> DEFINE k == [IdleWorker EXCEPT !.pc = "load", !.run = Head(queue.runs)]
  <2>1. k.pc = "load"
    BY DEF IdleWorker
  <2>2. UNCHANGED log /\ (Becomes(w, k) \/ UNCHANGED wk)
    BY <1>6 DEF ClaimRun
  <2> HIDE DEF k
  <2>3. WorkerFits(k, log[k.run])
    BY <2>1 DEF WorkerFits
  <2> QED BY <1>3, <1>4, <2>2, <2>3
<1>7. ASSUME NEW w \in Workers, LoadRun(w) PROVE LogsGood /\ WorkersFit
  <2> DEFINE l == log[wk[w].run]
             k == [wk[w] EXCEPT !.pc = "start", !.events = l]
  <2>1. UNCHANGED log /\ wk[w].pc = "load"
    BY <1>7 DEF LoadRun, shared, Working
  <2>2. Finishes(w, "ack", 0) \/ (Becomes(w, k) /\ l # <<>> /\ ~Ended(l))
    BY <1>7 DEF LoadRun
  <2>3. k.pc = "start" /\ k.events = l /\ k.run = wk[w].run
    BY <1>1 DEF WorkerType
  <2>4. GoodLog(l) /\ CopyOf(l, l)
    BY <1>1, <2>1 DEF CopyOf
  <2>5. l # <<>> /\ ~Ended(l) => WorkerFits(k, log[k.run])
    <3> HIDE DEF k
    <3> QED BY <2>3, <2>4 DEF WorkerFits
  <2> HIDE DEF k
  <2> QED BY <1>2, <1>3, <1>5, <2>1, <2>2, <2>5
<1>8. ASSUME NEW w \in Workers, Reload(w) PROVE LogsGood /\ WorkersFit
  <2> DEFINE l == log[wk[w].run]
             k == [wk[w] EXCEPT !.pc = "run", !.events = l]
  <2>1. UNCHANGED log /\ wk[w].pc = "reload"
    BY <1>8 DEF Reload, shared, Working
  <2>2. Finishes(w, "ack", 0) \/ (Becomes(w, k) /\ l # <<>>)
    BY <1>8 DEF Reload
  <2>3. k.pc = "run" /\ k.events = l /\ k.run = wk[w].run
    BY <1>1 DEF WorkerType
  <2>4. GoodLog(l) /\ CopyOf(l, l)
    BY <1>1, <2>1 DEF CopyOf
  <2>5. l # <<>> => WorkerFits(k, log[k.run])
    <3> HIDE DEF k
    <3> QED BY <2>3, <2>4 DEF WorkerFits
  <2> HIDE DEF k
  <2> QED BY <1>2, <1>3, <1>5, <2>1, <2>2, <2>5
<1>9. ASSUME NEW w \in Workers, StartRun(w) PROVE LogsGood /\ WorkersFit
  <2> DEFINE k == [wk[w] EXCEPT !.pc = "run"]
  <2>1. UNCHANGED log /\ wk[w].pc = "start"
    BY <1>9 DEF StartRun, Working
  <2>2. Finishes(w, "exhausted", 0) \/ Becomes(w, k)
    BY <1>9 DEF StartRun, Goes
  <2>3. k.pc = "run" /\ k.events = wk[w].events /\ k.run = wk[w].run
    BY <1>1 DEF WorkerType
  <2>4. WorkerFits(k, log[k.run])
    <3> HIDE DEF k
    <3> QED BY <1>1, <2>1, <2>3 DEF WorkerFits
  <2> HIDE DEF k
  <2> QED BY <1>2, <1>3, <1>5, <2>1, <2>2, <2>4
<1>10. ASSUME NEW w \in Workers, FailExhausted(w) PROVE LogsGood /\ WorkersFit
  <2>1. wk[w].run \in Runs
    BY <1>1, <1>10 DEF FailExhausted, Working
  <2>2. log' = [log EXCEPT ![wk[w].run] =
                  AppendEventsAfter(log[wk[w].run], Len(log[wk[w].run]), <<Plain("RunFailed")>>)]
    BY <1>10 DEF FailExhausted, AppendEvents
  <2>3. LogsGood
    BY <2>1, <2>2, EndWrite
  <2>4. Finishes(w, "ack", 0)
    BY <1>10 DEF FailExhausted
  <2> QED BY <1>5, <2>3, <2>4, WorkerElsewhere DEF WorkersFit
\* A worker that holds something new to write.
<1>11. ASSUME NEW w \in Workers, wk[w].pc \in Deciding, ~Ended(wk[w].events), UNCHANGED log,
              NEW pc \in {"hold", "append", "bound", "resume", "decide", "send"}, NEW batch, NEW a, NEW k,
              k.pc = pc, k.run = wk[w].run, k.events = wk[w].events, k.batch = batch, k.ask = a,
              Becomes(w, k),
              LET l == wk[w].events
              IN  /\ pc \in {"hold", "append"} => BatchFits(l, batch)
                  /\ pc = "bound" =>
                       \/ batch = <<>> /\ Has(l, {"RunStarted"}) /\ ~StepAnswered(l)
                       \/ /\ Len(batch) = 1 /\ Fits(l, batch[1])
                          /\ batch[1].type \notin Ends \cup {"Answer"}
                  /\ pc = "resume" => Has(l, {"RunScheduled"})
                  /\ pc \in {"decide", "send"} => Decidable(l)
                  /\ pc = "send" => a = Decisions(l) + 1 /\ a \in AskIds
       PROVE  LogsGood /\ WorkersFit
  <2>1. WorkerFits(k, log[k.run])
    BY <1>1, <1>11 DEF WorkerFits, Deciding
  <2> QED BY <1>3, <1>11, <2>1
<1>12. ASSUME NEW w \in Workers, RunFrom(w) PROVE LogsGood /\ WorkersFit
  <2> DEFINE l == wk[w].events
             Cancel == [wk[w] EXCEPT !.pc = "hold", !.batch = <<Plain("RunCancelled")>>]
             Schedule == [wk[w] EXCEPT !.pc = "hold", !.batch = <<Plain("RunScheduled")>>]
             Resumed == [wk[w] EXCEPT !.pc = "resume"]
  <2>1. UNCHANGED log /\ wk[w].pc = "run"
    BY <1>12 DEF RunFrom, Working
  <2>2. \/ Finishes(w, "ack", 0)
        \/ /\ ~Ended(l)
           /\ \/ Becomes(w, Cancel)
              \/ Becomes(w, Resumed) /\ ~DispatchQueued(l)
              \/ Becomes(w, Schedule) /\ DispatchQueued(l)
    BY <1>12 DEF RunFrom
  <2>3. /\ Cancel.pc = "hold" /\ Cancel.run = wk[w].run /\ Cancel.events = l
        /\ Cancel.batch = <<Plain("RunCancelled")>>
    BY <1>1 DEF WorkerType
  <2>4. /\ Schedule.pc = "hold" /\ Schedule.run = wk[w].run /\ Schedule.events = l
        /\ Schedule.batch = <<Plain("RunScheduled")>>
    BY <1>1 DEF WorkerType
  <2>5. Resumed.pc = "resume" /\ Resumed.run = wk[w].run /\ Resumed.events = l
    BY <1>1 DEF WorkerType
  <2>6. BatchFits(l, <<Plain("RunCancelled")>>)
    BY BatchOfOne DEF Fits, Plain, Ends
  <2>7. IF DispatchQueued(l) THEN BatchFits(l, <<Plain("RunScheduled")>>)
        ELSE Has(l, {"RunScheduled"})
    BY BatchOfOne DEF Fits, Plain, DispatchQueued
  <2>8. "run" \in Deciding
    BY DEF Deciding
  <2> HIDE DEF Cancel, Schedule, Resumed
  <2> QED BY <1>2, <1>5, <1>11, <2>1, <2>2, <2>3, <2>4, <2>5, <2>6, <2>7, <2>8
<1>13. ASSUME NEW w \in Workers, Resume(w) PROVE LogsGood /\ WorkersFit
  <2> DEFINE l == wk[w].events
             k == [wk[w] EXCEPT !.pc = "bound", !.batch = ResumeEvents(l)]
  <2>1. UNCHANGED log /\ wk[w].pc = "resume" /\ "resume" \in Deciding
    BY <1>13 DEF Resume, Working, Deciding
  <2>2. Finishes(w, "release", 0) \/ Becomes(w, k)
    BY <1>13 DEF Resume
  <2>3. k.pc = "bound" /\ k.run = wk[w].run /\ k.events = l /\ k.batch = ResumeEvents(l)
    BY <1>1 DEF WorkerType
  <2>4. ~Ended(l) /\ Has(l, {"RunScheduled"})
    BY <1>1, <2>1 DEF WorkerFits
  <2>5. \/ ResumeEvents(l) = <<>> /\ Has(l, {"RunStarted"}) /\ ~StepAnswered(l)
        \/ /\ Len(ResumeEvents(l)) = 1 /\ Fits(l, ResumeEvents(l)[1])
           /\ ResumeEvents(l)[1].type \notin Ends \cup {"Answer"}
    BY <2>4 DEF ResumeEvents, StartEvents, Fits, Plain, Ends
  <2> HIDE DEF k
  <2> QED BY <1>2, <1>5, <1>11, <2>1, <2>2, <2>3, <2>4, <2>5
<1>14. ASSUME NEW w \in Workers, NoDecider(w) PROVE LogsGood /\ WorkersFit
  <2> DEFINE l == wk[w].events
             batch == Append(StartEvents(l), Plain("RunFailed"))
             k == [wk[w] EXCEPT !.pc = "hold", !.batch = batch]
  <2>1. UNCHANGED log /\ wk[w].pc = "resume" /\ "resume" \in Deciding
    BY <1>14 DEF NoDecider, Working, Deciding, shared
  <2>2. Becomes(w, k)
    BY <1>14 DEF NoDecider
  <2>3. k.pc = "hold" /\ k.run = wk[w].run /\ k.events = l /\ k.batch = batch
    BY <1>1 DEF WorkerType
  <2>4. ~Ended(l) /\ Has(l, {"RunScheduled"})
    BY <1>1, <2>1 DEF WorkerFits
  <2>5. BatchFits(l, batch)
    <3>1. CASE Has(l, {"RunStarted"})
      <4>1. batch = <<Plain("RunFailed")>>
        BY <3>1 DEF StartEvents
      <4> QED BY <4>1, BatchOfOne DEF Fits, Plain, Ends
    <3>2. CASE ~Has(l, {"RunStarted"})
      <4>1. StartEvents(l) = <<Plain("RunStarted")>>
        BY <3>2 DEF StartEvents
      <4>2. /\ Len(batch) = 2
            /\ batch[1] = Plain("RunStarted") /\ batch[2] = Plain("RunFailed")
        BY <4>1
      <4>3. Fits(l, Plain("RunStarted")) /\ Plain("RunStarted").type \notin Ends \cup {"Answer"}
        BY <2>4, <3>2 DEF Fits, Plain, Ends
      <4>4. Plain("RunFailed").type = "RunFailed"
        BY DEF Plain
      <4> HIDE DEF batch
      <4> QED BY <4>2, <4>3, <4>4 DEF BatchFits
    <3> QED BY <3>1, <3>2
  <2> HIDE DEF k, batch
  <2> QED BY <1>11, <2>1, <2>2, <2>3, <2>4, <2>5
<1>15. ASSUME NEW w \in Workers, AtBoundary(w) PROVE LogsGood /\ WorkersFit
  <2> DEFINE l == wk[w].events
             batch == wk[w].batch
             waits == WaitingForMessage(l)
             cancelled == Append(batch, Plain("RunCancelled"))
             Cancel == [wk[w] EXCEPT !.pc = "hold", !.batch = cancelled]
             Hold == [wk[w] EXCEPT !.pc = "hold"]
             Go == [wk[w] EXCEPT !.pc = "decide"]
  <2>1. UNCHANGED log /\ wk[w].pc = "bound" /\ "bound" \in Deciding
    BY <1>15 DEF AtBoundary, Working, Deciding
  <2>2. \/ Becomes(w, Cancel)
        \/ Becomes(w, Hold) /\ batch # <<>>
        \/ Finishes(w, "park", waits)
        \/ Becomes(w, Go) /\ batch = <<>> /\ waits = 0
    BY <1>15 DEF AtBoundary, Goes
  <2>3. /\ Cancel.pc = "hold" /\ Cancel.run = wk[w].run /\ Cancel.events = l
        /\ Cancel.batch = cancelled
    BY <1>1 DEF WorkerType
  <2>4. /\ Hold.pc = "hold" /\ Hold.run = wk[w].run /\ Hold.events = l /\ Hold.batch = batch
        /\ Go.pc = "decide" /\ Go.run = wk[w].run /\ Go.events = l
    BY <1>1 DEF WorkerType
  <2>5. /\ ~Ended(l)
        /\ \/ batch = <<>> /\ Has(l, {"RunStarted"}) /\ ~StepAnswered(l)
           \/ /\ Len(batch) = 1 /\ Fits(l, batch[1])
              /\ batch[1].type \notin Ends \cup {"Answer"}
    BY <1>1, <2>1 DEF WorkerFits
  <2>6. BatchFits(l, cancelled)
    <3>1. CASE batch = <<>>
      <4>1. cancelled = <<Plain("RunCancelled")>>
        BY <3>1
      <4> QED BY <4>1, BatchOfOne DEF Fits, Plain, Ends
    <3>2. CASE Len(batch) = 1 /\ Fits(l, batch[1]) /\ batch[1].type \notin Ends \cup {"Answer"}
      <4>1. Len(cancelled) = 2 /\ cancelled[1] = batch[1] /\ cancelled[2] = Plain("RunCancelled")
        BY <1>1, <3>2
      <4> HIDE DEF cancelled
      <4> QED BY <3>2, <4>1 DEF BatchFits, Plain
    <3> QED BY <2>5, <3>1, <3>2
  <2>7. batch # <<>> => BatchFits(l, batch)
    BY <2>5 DEF BatchFits
  <2>8. batch = <<>> /\ waits = 0 => Decidable(l)
    <3>1. Len(<<>>) = 0
      OBVIOUS
    <3> QED BY <2>5, <3>1, NotWaiting DEF Decidable
  <2> HIDE DEF Cancel, Hold, Go, cancelled, waits
  <2> QED BY <1>2, <1>5, <1>11, <2>1, <2>2, <2>3, <2>4, <2>5, <2>6, <2>7, <2>8
<1>16. ASSUME NEW w \in Workers, Decide(w) PROVE LogsGood /\ WorkersFit
  <2> DEFINE l == wk[w].events
             n == Decisions(l)
             Does(pc, type, ask) == [wk[w] EXCEPT !.pc = pc, !.batch = <<About(type, ask)>>]
             Sends == [wk[w] EXCEPT !.pc = "send", !.ask = n + 1]
  <2>1. UNCHANGED log /\ wk[w].pc = "decide" /\ "decide" \in Deciding
    BY <1>16 DEF Decide, Working, Deciding, shared
  <2>2. \/ Becomes(w, Does("bound", "Step", 0))
        \/ n < MaxDecisions /\ Becomes(w, Does("bound", "UserAsked", n + 1))
        \/ n < MaxDecisions /\ Becomes(w, Sends)
        \/ Becomes(w, Does("hold", "RunCompleted", 0))
        \/ Becomes(w, Does("hold", "RunFailed", 0))
    BY <1>16 DEF Decide
  <2>3. \A pc, type, ask :
          LET k == Does(pc, type, ask)
          IN  /\ k.pc = pc /\ k.run = wk[w].run /\ k.events = l
              /\ k.batch = <<About(type, ask)>>
    BY <1>1 DEF WorkerType
  <2>4. Sends.pc = "send" /\ Sends.run = wk[w].run /\ Sends.events = l /\ Sends.ask = n + 1
    BY <1>1 DEF WorkerType
  <2>5. ~Ended(l) /\ Decidable(l) /\ n \in Nat
    BY <1>1, <2>1, CountTypes DEF WorkerFits
  <2>6. /\ Fits(l, About("Step", 0)) /\ Fits(l, About("UserAsked", n + 1))
        /\ Fits(l, About("RunCompleted", 0)) /\ Fits(l, About("RunFailed", 0))
    BY <2>5 DEF Fits, About, AskTypes, Ends, Decidable
  <2>7. BatchFits(l, <<About("RunCompleted", 0)>>) /\ BatchFits(l, <<About("RunFailed", 0)>>)
    BY <2>6, BatchOfOne DEF About
  <2>8. ASSUME NEW type \in {"Step", "UserAsked"}, NEW ask
        PROVE  LET batch == <<About(type, ask)>>
               IN  /\ Len(batch) = 1 /\ batch[1] = About(type, ask)
                   /\ batch[1].type \notin Ends \cup {"Answer"}
    BY DEF About, Ends
  <2>9. n < MaxDecisions => n + 1 \in AskIds
    BY <2>5, MaxDecisionsAssumption DEF AskIds
  <2> HIDE DEF Does, Sends, n
  <2>10. ASSUME NEW type \in {"Step", "UserAsked"}, NEW ask, Fits(l, About(type, ask)),
                Becomes(w, Does("bound", type, ask))
         PROVE  LogsGood /\ WorkersFit
    <3> DEFINE k == Does("bound", type, ask)
               batch == <<About(type, ask)>>
    <3>1. k.pc = "bound" /\ k.run = wk[w].run /\ k.events = l /\ k.batch = batch
      BY <2>3
    <3>2. Len(batch) = 1 /\ Fits(l, batch[1]) /\ batch[1].type \notin Ends \cup {"Answer"}
      BY <2>8, <2>10
    <3>3. Becomes(w, k)
      BY <2>10
    <3> HIDE DEF k, batch
    <3> QED BY <1>11, <2>1, <2>5, <3>1, <3>2, <3>3
  <2>11. CASE \/ Becomes(w, Does("bound", "Step", 0))
              \/ Becomes(w, Does("bound", "UserAsked", n + 1))
    BY <2>6, <2>10, <2>11 DEF n
  <2>12. CASE n < MaxDecisions /\ Becomes(w, Sends)
    BY <1>11, <2>1, <2>4, <2>5, <2>9, <2>12 DEF n
  <2>13. CASE Becomes(w, Does("hold", "RunCompleted", 0)) \/ Becomes(w, Does("hold", "RunFailed", 0))
    BY <1>11, <2>1, <2>3, <2>5, <2>7, <2>13
  <2> QED BY <2>2, <2>11, <2>12, <2>13
<1>17. ASSUME NEW w \in Workers, SendAsk(w) PROVE LogsGood /\ WorkersFit
  <2> DEFINE l == wk[w].events
             a == wk[w].ask
             Logs(event) == [wk[w] EXCEPT !.pc = "bound", !.batch = <<event>>, !.ask = 0]
  <2>1. UNCHANGED log /\ wk[w].pc = "send" /\ "send" \in Deciding
    BY <1>17 DEF SendAsk, Working, Deciding
  <2>2. \/ Becomes(w, Logs(About("MessageSent", a)))
        \/ Becomes(w, Logs(Plain("Step")))
    BY <1>17 DEF SendAsk
  <2>3. \A event : LET k == Logs(event)
                   IN  /\ k.pc = "bound" /\ k.run = wk[w].run /\ k.events = l
                       /\ k.batch = <<event>>
    BY <1>1 DEF WorkerType
  <2>4. ~Ended(l) /\ Decidable(l) /\ a = Decisions(l) + 1
    BY <1>1, <2>1 DEF WorkerFits
  <2>5. Fits(l, About("MessageSent", a)) /\ Fits(l, Plain("Step"))
    BY <2>4 DEF Fits, About, Plain, AskTypes
  <2>6. /\ \A event : Len(<<event>>) = 1 /\ <<event>>[1] = event
        /\ About("MessageSent", a).type \notin Ends \cup {"Answer"}
        /\ Plain("Step").type \notin Ends \cup {"Answer"}
    BY DEF About, Plain, Ends
  <2> HIDE DEF Logs
  <2>7. ASSUME NEW event, Fits(l, event), event.type \notin Ends \cup {"Answer"},
               Becomes(w, Logs(event))
        PROVE  LogsGood /\ WorkersFit
    <3> DEFINE k == Logs(event)
               batch == <<event>>
    <3>1. k.pc = "bound" /\ k.run = wk[w].run /\ k.events = l /\ k.batch = batch
      BY <2>3
    <3>2. Len(batch) = 1 /\ Fits(l, batch[1]) /\ batch[1].type \notin Ends \cup {"Answer"}
      BY <2>6, <2>7
    <3>3. Becomes(w, k)
      BY <2>7
    <3> HIDE DEF k, batch
    <3> QED BY <1>11, <2>1, <2>4, <3>1, <3>2, <3>3
  <2> QED BY <2>2, <2>5, <2>6, <2>7
<1>18. ASSUME NEW w \in Workers, CheckLease(w) PROVE LogsGood /\ WorkersFit
  <2> DEFINE k == [wk[w] EXCEPT !.pc = "append"]
  <2>1. UNCHANGED log /\ wk[w].pc = "hold" /\ "hold" \in Deciding
    BY <1>18 DEF CheckLease, Working, Deciding
  <2>2. Finishes(w, "release", 0) \/ Becomes(w, k)
    BY <1>18 DEF CheckLease, Goes
  <2>3. k.pc = "append" /\ k.run = wk[w].run /\ k.events = wk[w].events /\ k.batch = wk[w].batch
    BY <1>1 DEF WorkerType
  <2>4. ~Ended(wk[w].events) /\ BatchFits(wk[w].events, wk[w].batch)
    BY <1>1, <2>1 DEF WorkerFits
  <2> HIDE DEF k
  <2> QED BY <1>2, <1>5, <1>11, <2>1, <2>2, <2>3, <2>4
<1>19. ASSUME NEW w \in Workers, AppendBatch(w) PROVE LogsGood /\ WorkersFit
  <2> DEFINE r == wk[w].run
             l == wk[w].events
             batch == wk[w].batch
             events == l \o batch
             waits == WaitingForMessage(events)
             result == AppendResult(log[r], Len(l))
             GoesOn == [wk[w] EXCEPT !.pc = IF Has(batch, {"RunScheduled"})
                                            THEN "resume" ELSE "decide",
                                     !.events = events, !.batch = <<>>]
             Reloading == [wk[w] EXCEPT !.pc = "reload", !.batch = <<>>, !.events = <<>>,
                                        !.reloads = wk[w].reloads + 1]
  <2>1. wk[w].pc = "append" /\ r \in Runs /\ log[r] \in Seq(Event) /\ GoodLog(log[r])
    BY <1>1, <1>19 DEF AppendBatch, Working
  <2>2. /\ l # <<>> /\ GoodLog(l) /\ CopyOf(l, log[r]) /\ ~Ended(l) /\ BatchFits(l, batch)
        /\ l \in Seq(Event) /\ batch \in Seq(Event)
    BY <1>1, <2>1 DEF WorkerFits
  <2>3. log' = [log EXCEPT ![r] = IF result = "Appended" THEN log[r] \o batch ELSE log[r]]
    BY <1>19 DEF AppendBatch, AppendEventsAfter
  <2>4. /\ events \in Seq(Event) /\ Grows(l, events) /\ GoodLog(events)
        /\ ~Ended(events) =>
             /\ Len(batch) = 1 /\ batch[1] \in Event /\ events = Append(l, batch[1])
             /\ Fits(l, batch[1]) /\ batch[1].type \notin Ends \cup {"Answer"}
    BY <2>2, GoodBatch
  <2>5. CASE result = "Appended"
    <3>1. log[r] = l
      <4>1. Len(l) = Len(log[r]) /\ \A i \in 1..Len(l) : log[r][i] = l[i]
        BY <2>1, <2>2, <2>5 DEF AppendResult, CopyOf
      <4> QED BY <2>1, <2>2, <4>1, SeqEqual
    <3>2. log' = [log EXCEPT ![r] = events]
      BY <2>3, <2>5, <3>1
    <3> HIDE DEF events
    <3>3. LogsGood /\ log'[r] = events
      BY <2>1, <2>4, <3>1, <3>2, OneWrite
    <3>4. \/ Finishes(w, "ack", 0) \/ Finishes(w, "park", waits)
          \/ Becomes(w, GoesOn) /\ ~Ended(events) /\ waits = 0
      BY <1>19, <2>5 DEF AppendBatch, events
    <3>5. CASE Becomes(w, GoesOn) /\ ~Ended(events) /\ waits = 0
      <4>1. /\ GoesOn.pc = IF Has(batch, {"RunScheduled"}) THEN "resume" ELSE "decide"
            /\ GoesOn.events = events /\ GoesOn.run = r
        BY <1>1 DEF WorkerType
      <4>2. NoneOpen(events)
        BY <3>5, NotWaiting
      <4>3. ~Has(batch, {"RunScheduled"}) => Decidable(events)
        <5>1. ~Has(batch, {"RunScheduled"}) => batch[1].type # "RunScheduled"
          BY <2>2, <2>4, <3>5 DEF Has
        <5> QED BY <2>2, <2>4, <3>5, <4>2, <5>1, GoesOnDecidable
      <4>4. Has(batch, {"RunScheduled"}) => Has(events, {"RunScheduled"})
        <5>1. Has(batch, {"RunScheduled"}) => batch[1].type = "RunScheduled"
          BY <2>2, <2>4, <3>5 DEF Has
        <5>2. batch[1].type = "RunScheduled" => Has(Append(l, batch[1]), {"RunScheduled"})
          BY <2>2, <2>4, <3>5, HasAppended
        <5> QED BY <2>4, <3>5, <5>1, <5>2
      <4>5. events # <<>> /\ CopyOf(events, events)
        <5>1. Len(events) >= Len(l) /\ Len(l) \in Nat \ {0} /\ Len(events) \in Nat
          BY <2>2, <2>4, GrownLog
        <5> QED BY <5>1 DEF CopyOf
      <4> HIDE DEF GoesOn
      <4>6. WorkerFits(GoesOn, log'[GoesOn.run])
        BY <2>4, <3>3, <3>5, <4>1, <4>3, <4>4, <4>5 DEF WorkerFits
      <4> QED BY <3>3, <3>5, <4>6, WorkerMoved DEF WorkersFit
    <3> QED BY <1>5, <3>3, <3>4, <3>5, WorkerElsewhere DEF WorkersFit
  <2>6. CASE result # "Appended"
    <3>1. UNCHANGED log
      BY <2>1, <2>3, <2>6 DEF LogInv, TypeInv, TypeOK
    <3>2. Finishes(w, "ack", 0) \/ Finishes(w, "release", 0) \/ Becomes(w, Reloading)
      BY <1>19, <2>6 DEF AppendBatch
    <3>3. Reloading.pc = "reload"
      BY <1>1 DEF WorkerType
    <3> HIDE DEF Reloading
    <3>4. WorkerFits(Reloading, log[Reloading.run])
      BY <3>3 DEF WorkerFits
    <3> QED BY <1>2, <1>3, <1>5, <3>1, <3>2, <3>4
  <2> QED BY <2>5, <2>6
<1>20. ASSUME NEW w \in Workers,
              \/ LoadFails(w) \/ ParkRun(w) \/ Recheck(w) \/ RecheckStop(w) \/ WakeSelf(w)
              \/ ReleaseRun(w) \/ AckRun(w) \/ Panics(w) \/ WorkerFaults(w)
       PROVE  LogsGood /\ WorkersFit
  <2>1. UNCHANGED log
    BY <1>20 DEF LoadFails, ParkRun, Recheck, RecheckStop, WakeSelf, ReleaseRun, AckRun, Panics,
                 WorkerFaults, StartFails, Abandon, shared
  <2>2. Goes(w, "recheck") \/ Goes(w, "restop") \/ Goes(w, "wake") \/ Rests(w)
    BY <1>20 DEF LoadFails, ParkRun, Recheck, RecheckStop, WakeSelf, ReleaseRun, AckRun, Panics,
                 WorkerFaults, StartFails, Abandon
  <2> QED BY <1>2, <1>5, <2>1, <2>2
<1>21. ASSUME NEW r \in Runs, AbandonedLeaseExpires(r) \/ LiveLeaseExpires(r)
       PROVE  LogsGood /\ WorkersFit
  BY <1>4, <1>21 DEF AbandonedLeaseExpires, LiveLeaseExpires
<1> QED
  BY <1>6, <1>7, <1>8, <1>9, <1>10, <1>12, <1>13, <1>14, <1>15, <1>16, <1>17, <1>18, <1>19,
     <1>20, <1>21
     DEF WorkerNext, WorkerSteps

(***************************************************************************)
(* The theorems                                                            *)
(***************************************************************************)
LEMMA NextLogs == LogInv /\ [Next]_vars => LogInv' /\ LogsGood
<1> SUFFICES ASSUME LogInv, [Next]_vars PROVE LogInv' /\ LogsGood
  OBVIOUS
<1>1. TypeInv'
  BY NextTypes DEF LogInv
<1>2. CASE ProducerNext \/ StopperNext \/ SweeperNext \/ UNCHANGED vars
  <2>1. LogsGood
    BY <1>2, ProducerLogs, StopperLogs, SweeperLogs, NoWrite DEF vars, shared
  <2>2. UNCHANGED <<wk, dl>>
    BY <1>2 DEF ProducerNext, StopperNext, SweeperNext, noProducer, noStopper, noSweeper, vars
  <2> QED BY <1>1, <2>1, <2>2, WorkersStay, CouriersStay, LogInvKept
<1>3. CASE CourierNext
  <2>1. LogsGood /\ \A d \in Couriers : CourierFits(dl'[d], log'[dl'[d].run])
    BY <1>1, <1>3, CourierLogs
  <2>2. UNCHANGED wk
    BY <1>3 DEF CourierNext, noCourier
  <2> QED BY <1>1, <2>1, <2>2, WorkersStay, LogInvKept
<1>4. CASE WorkerNext
  <2>1. LogsGood /\ WorkersFit
    BY <1>1, <1>4, WorkerLogs
  <2>2. UNCHANGED dl
    BY <1>4 DEF WorkerNext, noWorker
  <2> QED BY <1>1, <2>1, <2>2, CouriersStay, LogInvKept DEF WorkersFit
<1> QED BY <1>2, <1>3, <1>4 DEF Next

LEMMA InitLogs == Init => LogInv
<1> SUFFICES ASSUME Init PROVE LogInv
  OBVIOUS
<1>1. TypeInv
  BY InitTypes
<1>2. \A r \in Runs : GoodLog(log[r])
  BY EmptyIsGood DEF Init, SharedInit
<1>3. \A w \in Workers : wk[w].pc = "idle"
  BY DEF Init, WorkerInit, IdleWorker
<1>4. \A d \in Couriers : dl[d].pc = "idle"
  BY DEF Init, CourierInit, IdleCourier
<1> QED BY <1>1, <1>2, <1>3, <1>4 DEF LogInv, WorkerFits, CourierFits

LEMMA LogInvariant == Spec => []LogInv
<1>1. LogInv /\ [Next]_vars => LogInv'
  BY NextLogs
<1> QED BY InitLogs, <1>1, PTL DEF Spec

\* However many threads write from what they read of a log earlier, a log has
\* one end, one ladder and one start, and nothing is decided between an ask and
\* its answer (worker.rs run_from, deliverer.rs deliver, http.rs stop and
\* answer_question).
THEOREM LogsAreWellFormed == Spec => []LogWellFormed
<1>1. LogInv => LogWellFormed
  BY DEF LogInv, GoodLog, InOrder, LogWellFormed
<1> QED BY <1>1, LogInvariant, PTL

\* No writer rewrites a stored log, shortens it or adds to one that has ended
\* (store.rs put_run, append_events, append_events_after).
THEOREM LogsGrow == Spec => LogsOnlyGrow
<1> DEFINE Step == \A r \in Runs : /\ Len(log'[r]) >= Len(log[r])
                                   /\ SubSeq(log'[r], 1, Len(log[r])) = log[r]
                                   /\ Ended(log[r]) => log'[r] = log[r]
<1>1. LogInv /\ [Next]_vars => [Step]_vars
  <2> SUFFICES ASSUME LogInv, [Next]_vars PROVE Step
    OBVIOUS
  <2>1. LogsGood /\ LogInv'
    BY NextLogs
  <2>2. \A r \in Runs : log[r] \in Seq(Event) /\ log'[r] \in Seq(Event)
    BY <2>1 DEF LogInv, TypeInv, TypeOK
  <2> QED BY <2>1, <2>2, GrownLog DEF LogsGood
<1> QED BY <1>1, LogInvariant, PTL DEF Spec, LogsOnlyGrow

(***************************************************************************)
(* What is parked                                                          *)
(***************************************************************************)
LEMMA SameParked ==
    ASSUME NEW q \in QueueType, NEW r, NEW w
    PROVE  /\ Pend(q, r).parked = q.parked /\ Unpend(q, r).parked = q.parked
           /\ Push(q, r).parked = q.parked /\ Start(q, r).parked = q.parked
           /\ LeaseExpires(q, r).parked = q.parked /\ PendingAges(q, r).parked = q.parked
           /\ Release(q, r, w).parked = q.parked
           /\ Release(Start(q, r), r, w).parked = q.parked
           /\ Ack(q, r, w).parked = q.parked /\ Claim(q, w).parked = q.parked
           /\ \A order : Reap(q, order).parked = q.parked
BY DEF QueueType, Pend, Unpend, Push, Start, LeaseExpires, PendingAges, Release, Ack, Claim, Reap

\* WAKE takes off what is parked on the very ask, and nothing else.
LEMMA WakeParked ==
    ASSUME NEW q \in QueueType, NEW r \in Runs, NEW a, NEW s \in Runs
    PROVE  Wake(q, r, a).parked[s] = IF s = r /\ q.parked[r] = a THEN 0 ELSE q.parked[s]
<1>1. q.parked \in [Runs -> 0..MaxDecisions]
  BY QueueFields
<1> QED BY <1>1 DEF Wake, QueueType

LEMMA ParkParked ==
    ASSUME NEW q \in QueueType, NEW r \in Runs, NEW w, NEW a, NEW s \in Runs
    PROVE  Park(q, r, w, a).parked[s] = IF s = r /\ q.lease[r] = w THEN a ELSE q.parked[s]
<1>1. q.parked \in [Runs -> 0..MaxDecisions]
  BY QueueFields
<1> QED BY <1>1 DEF Park, QueueType

LEMMA ParkedType ==
    ASSUME TypeInv, NEW r \in Runs
    PROVE  queue \in QueueType /\ queue.parked[r] \in 0..MaxDecisions
<1>1. queue \in QueueType
  BY DEF TypeInv, TypeOK
<1> QED BY <1>1, QueueFields

(***************************************************************************)
(* What a step may do to what is parked and to who will wake it            *)
(***************************************************************************)
KeepsParked == queue'.parked = queue.parked
KeepsLogs == UNCHANGED log
CountsFault == faults' = faults + 1
KeepsFaults == faults' = faults

LEMMA ProducerParks ==
    ASSUME TypeInv, ProducerNext
    PROVE  KeepsParked /\ (KeepsFaults \/ CountsFault)
<1> USE DEF KeepsParked, KeepsFaults, CountsFault
<1>1. queue \in QueueType
  BY DEF TypeInv, TypeOK
<1>2. ASSUME NEW p \in Producers, ProducerSteps(p)
      PROVE  KeepsParked /\ (KeepsFaults \/ CountsFault)
  BY <1>1, <1>2, SameParked
     DEF ProducerSteps, PendRun, PutStored, PushRun, EndRun, ReadExisting, CheckQueued,
         UnpendExisting, shared
<1>3. ASSUME NEW p \in Producers, ProducerFaults(p)
      PROVE  KeepsParked /\ (KeepsFaults \/ CountsFault)
  BY <1>1, <1>3, SameParked
     DEF ProducerFaults, PutFails, PushFails, ProducerDies, PutCommitsLate, Fault
<1>4. ASSUME NEW r \in Runs, PendingForgotten(r)
      PROVE  KeepsParked /\ (KeepsFaults \/ CountsFault)
  BY <1>1, <1>4, SameParked DEF PendingForgotten
<1> QED BY <1>2, <1>3, <1>4 DEF ProducerNext

LEMMA SweeperParks ==
    ASSUME TypeInv, SweeperNext
    PROVE  KeepsParked /\ (KeepsFaults \/ CountsFault)
<1> USE DEF KeepsParked, KeepsFaults, CountsFault
<1>1. queue \in QueueType
  BY DEF TypeInv, TypeOK
<1>2. CASE ReapExpired
  BY <1>1, <1>2, SameParked DEF ReapExpired
<1>3. CASE SweeperSteps \/ \E r \in Runs : ListPending(r)
  BY <1>1, <1>3, SameParked
     DEF SweeperSteps, LoadPending, PushPending, UnpendPending, ListPending, shared
<1>4. CASE SweepFails
  BY <1>1, <1>4, SameParked DEF SweepFails, Fault
<1> QED BY <1>2, <1>3, <1>4 DEF SweeperNext

LEMMA StopperParks ==
    ASSUME TypeInv, StopperNext
    PROVE  /\ KeepsParked \/ WakeCancelled
           /\ KeepsFaults \/ (CountsFault /\ StopFails)
BY DEF StopperNext, PutStop, StopperSteps, ReadParked, ReadRun, CancelRun, WakeCancelled,
       StopFails, Fault, shared, KeepsParked, KeepsFaults, CountsFault

LEMMA CourierParks ==
    ASSUME TypeInv, NEW d \in Couriers, CourierStarts(d) \/ CourierCarries(d) \/ CourierFails(d)
    PROVE  /\ KeepsParked \/ WakeAsker(d)
           /\ KeepsLogs \/ DeliverAppend(d) \/ ReplyToQuestion(d)
           /\ KeepsFaults \/ (CountsFault /\ CourierFails(d))
           /\ \E k : Carries(d, k)
<1> USE DEF KeepsParked, KeepsLogs, KeepsFaults, CountsFault
<1>1. CASE CourierStarts(d)
  BY <1>1 DEF CourierStarts, SweepParked, UserAnswers, TaskAnswers, AskIsDue, SetsOut, shared
<1>2. CASE CourierCarries(d)
  BY <1>2 DEF CourierCarries, LookAtParked, LookAtStop, DeliverRead, DeliverAppend, MarkAnswered,
              WakeAsker, ReadQuestion, ReplyToQuestion, Turns, Drops, SetsOut, shared
<1>3. CASE CourierFails(d)
  BY <1>3 DEF CourierFails, Turns, Drops, Fault
<1> QED BY <1>1, <1>2, <1>3

\* A worker that is neither parking its run nor looking at it parked.
Elsewhere(w) == wk[w].pc \notin {"park", "recheck", "restop", "wake"}

LEMMA WorkerParks ==
    ASSUME TypeInv, NEW w \in Workers, WorkerSteps(w) \/ WorkerFaults(w)
    PROVE  \/ ParkRun(w) \/ Recheck(w) \/ RecheckStop(w) \/ WakeSelf(w)
           \/ KeepsParked /\ CountsFault
           \/ /\ KeepsParked /\ KeepsFaults /\ Elsewhere(w)
              /\ UNCHANGED wk \/ \E k : Becomes(w, k)
<1> DEFINE Goal == \/ KeepsParked /\ CountsFault
                   \/ /\ KeepsParked /\ KeepsFaults /\ Elsewhere(w)
                      /\ UNCHANGED wk \/ \E k : Becomes(w, k)
<1> USE DEF KeepsParked, KeepsFaults, CountsFault
<1>1. queue \in QueueType
  BY DEF TypeInv, TypeOK
<1>2. CASE ClaimRun(w) \/ LoadRun(w) \/ StartRun(w) \/ FailExhausted(w) \/ ReleaseRun(w) \/ AckRun(w)
  <2>1. /\ queue' = queue \/ queue' = Claim(queue, w) \/ queue' = Start(queue, wk[w].run)
           \/ queue' = Release(queue, wk[w].run, w) \/ queue' = Ack(queue, wk[w].run, w)
        /\ KeepsFaults /\ Elsewhere(w)
    BY <1>2 DEF ClaimRun, LoadRun, StartRun, FailExhausted, ReleaseRun, AckRun, shared,
                Elsewhere, Working
  <2>2. KeepsParked
    BY <1>1, <2>1, SameParked
  <2>3. UNCHANGED wk \/ \E k : Becomes(w, k)
    BY <1>2 DEF ClaimRun, LoadRun, StartRun, FailExhausted, ReleaseRun, AckRun, Finishes, Goes,
                Rests
  <2> QED BY <2>1, <2>2, <2>3
<1>3. CASE LoadFails(w) \/ StartFails(w) \/ Abandon(w) \/ Panics(w)
  BY <1>1, <1>3, SameParked
     DEF LoadFails, StartFails, Abandon, Panics, Fault, shared, Elsewhere, Working, Rests
<1>4. CASE RunFrom(w)
  BY <1>4 DEF RunFrom, Stopped, Fault, Elsewhere, Working, Finishes
<1>5. CASE AtBoundary(w)
  BY <1>5 DEF AtBoundary, Stopped, Fault, Elsewhere, Working, Finishes, Goes
<1>6. CASE Resume(w) \/ CheckLease(w)
  BY <1>6 DEF Resume, CheckLease, Holds, Fault, Elsewhere, Working, Finishes, Goes
<1>7. CASE NoDecider(w) \/ Decide(w) \/ SendAsk(w) \/ Reload(w)
  BY <1>7 DEF NoDecider, Decide, SendAsk, Reload, Elsewhere, Working, Finishes, shared
<1>8. CASE AppendBatch(w)
  <2>1. KeepsParked /\ KeepsFaults /\ Elsewhere(w)
    BY <1>8 DEF AppendBatch, Elsewhere, Working
  <2>2. \E k : Becomes(w, k)
    BY <1>8 DEF AppendBatch, Finishes
  <2> QED BY <2>1, <2>2
<1> QED BY <1>2, <1>3, <1>4, <1>5, <1>6, <1>7, <1>8 DEF WorkerSteps, WorkerFaults

LEMMA LeaseParks ==
    ASSUME TypeInv, NEW r \in Runs, AbandonedLeaseExpires(r) \/ LiveLeaseExpires(r)
    PROVE  KeepsParked /\ KeepsFaults /\ KeepsLogs /\ UNCHANGED wk
<1>1. queue \in QueueType
  BY DEF TypeInv, TypeOK
<1> QED BY <1>1, SameParked
           DEF AbandonedLeaseExpires, LiveLeaseExpires, KeepsParked, KeepsFaults, KeepsLogs

(***************************************************************************)
(* What is answered                                                        *)
(***************************************************************************)
\* The events m has and l has not are no answers.
LEMMA NothingAnswered ==
    ASSUME NEW l \in Seq(Event), NEW batch \in Seq(Event), NEW a,
           GoodLog(l), GoodLog(l \o batch), ~Has(batch, {"Answer"}),
           AskState(l \o batch, a) = "Answered"
    PROVE  AskState(l, a) = "Answered"
<1> DEFINE m == l \o batch
<1>1. m \in Seq(Event)
  OBVIOUS
<1>2. PICK j \in DOMAIN m : m[j].type = "Answer" /\ m[j].ask = a
  <2> HIDE DEF m
  <2>1. AskState(m, a) = "Answered" /\ GoodLog(m)
    BY DEF m
  <2> QED BY <1>1, <2>1, AskStates DEF IsAnswered, GoodLog
<1>3. CASE j \in DOMAIN l
  <2>1. m[j] = l[j]
    BY <1>3
  <2>2. IsAnswered(l, a)
    BY <1>2, <1>3, <2>1 DEF IsAnswered
  <2> QED BY <2>2, AskStates DEF GoodLog
<1>4. CASE j \notin DOMAIN l
  <2>1. j - Len(l) \in DOMAIN batch /\ m[j] = batch[j - Len(l)]
    BY <1>4
  <2> QED BY <1>2, <2>1 DEF Has
<1> QED BY <1>3, <1>4

\* A step that brings no answer.
NoAnswer == \A r \in Runs : \A a : AskState(log'[r], a) = "Answered" => AskState(log[r], a) = "Answered"

LEMMA EndNoAnswer ==
    ASSUME LogInv, LogInv', NEW r \in Runs, NEW seen, NEW batch \in Seq(Event),
           ~Has(batch, {"Answer"}),
           log' = [log EXCEPT ![r] = AppendEventsAfter(log[r], seen, batch)]
    PROVE  NoAnswer
<1>1. log \in [Runs -> Seq(Event)]
  BY DEF LogInv, TypeInv, TypeOK
<1>2. \A s \in Runs : log'[s] = log[s] \/ (s = r /\ log'[s] = log[r] \o batch)
  BY <1>1 DEF AppendEventsAfter
<1>3. \A s \in Runs : GoodLog(log[s]) /\ GoodLog(log'[s]) /\ log[s] \in Seq(Event)
  BY <1>1 DEF LogInv
<1> SUFFICES ASSUME NEW s \in Runs, NEW a, AskState(log'[s], a) = "Answered"
             PROVE  AskState(log[s], a) = "Answered"
  BY DEF NoAnswer
<1>4. CASE log'[s] = log[s]
  BY <1>4
<1>5. CASE s = r /\ log'[s] = log[r] \o batch
  <2>1. GoodLog(log[r] \o batch) /\ AskState(log[r] \o batch, a) = "Answered"
    BY <1>3, <1>5
  <2> QED BY <1>3, <1>5, <2>1, NothingAnswered
<1> QED BY <1>2, <1>4, <1>5

LEMMA PlainIsNoAnswer ==
    ASSUME NEW type \in {"RunFailed", "RunCancelled"}
    PROVE  <<Plain(type)>> \in Seq(Event) /\ ~Has(<<Plain(type)>>, {"Answer"})
<1>1. Plain(type) \in Event
  BY EventTypes DEF Types, Ends
<1> QED BY <1>1 DEF Has, Plain

LEMMA PutNoAnswer ==
    ASSUME LogInv, LogInv', NEW r \in Runs, log' = [log EXCEPT ![r] = PutRun(log[r])]
    PROVE  NoAnswer
<1>1. log \in [Runs -> Seq(Event)]
  BY DEF LogInv, TypeInv, TypeOK
<1>2. \A s \in Runs : log'[s] = log[s] \/ (s = r /\ log'[s] = QueuedEvents)
  BY <1>1 DEF PutRun
<1>3. \A a : AskState(QueuedEvents, a) = "Unsent"
  <2>1. \A i \in DOMAIN QueuedEvents : QueuedEvents[i].type = "RunQueued"
    BY DEF QueuedEvents, Plain
  <2> QED BY <2>1 DEF AskState, AskTypes
<1> QED BY <1>2, <1>3 DEF NoAnswer

LEMMA ProducerNoAnswer ==
    ASSUME LogInv, LogInv', ProducerNext
    PROVE  NoAnswer
<1>1. \A p \in Producers : ProducedRun[p] \in Runs
  BY ProducerAssumption
<1>2. \/ UNCHANGED log
      \/ \E p \in Producers : log' = [log EXCEPT ![ProducedRun[p]] = PutRun(log[ProducedRun[p]])]
      \/ \E p \in Producers :
           log' = [log EXCEPT ![ProducedRun[p]] =
                     AppendEventsAfter(log[ProducedRun[p]], Len(log[ProducedRun[p]]),
                                       <<Plain("RunFailed")>>)]
  BY DEF ProducerNext, ProducerSteps, ProducerFaults, PendRun, PutStored, PutFails,
         PutCommitsLate, PushRun, PushFails, EndRun, ReadExisting, CheckQueued,
         UnpendExisting, ProducerDies, PendingForgotten, shared, AppendEvents
<1>3. CASE UNCHANGED log
  BY <1>3 DEF NoAnswer
<1> QED BY <1>1, <1>2, <1>3, PutNoAnswer, EndNoAnswer, PlainIsNoAnswer

LEMMA StopperNoAnswer ==
    ASSUME LogInv, LogInv', StopperNext
    PROVE  NoAnswer
<1>1. CASE CancelRun
  <2>1. st.run \in Runs
    BY <1>1 DEF CancelRun, LogInv, TypeInv, BusyOnRuns
  <2>2. log' = [log EXCEPT ![st.run] =
                  AppendEventsAfter(log[st.run], st.seen, <<Plain("RunCancelled")>>)]
    BY <1>1 DEF CancelRun
  <2> QED BY <2>1, <2>2, EndNoAnswer, PlainIsNoAnswer
<1>2. CASE ~CancelRun
  <2>1. UNCHANGED log
    BY <1>2 DEF StopperNext, StopperSteps, PutStop, ReadParked, ReadRun, WakeCancelled,
                StopFails, shared
  <2> QED BY <2>1 DEF NoAnswer
<1> QED BY <1>1, <1>2

LEMMA WorkerWrites ==
    ASSUME NEW w \in Workers, WorkerSteps(w) \/ WorkerFaults(w)
    PROVE  UNCHANGED log \/ FailExhausted(w) \/ AppendBatch(w)
BY DEF WorkerSteps, WorkerFaults, ClaimRun, LoadRun, LoadFails, StartRun, RunFrom, Resume,
       NoDecider, AtBoundary, Decide, SendAsk, CheckLease, Reload, ParkRun, Recheck, RecheckStop,
       WakeSelf, ReleaseRun, AckRun, Panics, StartFails, Abandon, shared

LEMMA WorkerNoAnswer ==
    ASSUME LogInv, LogInv', NEW w \in Workers, WorkerSteps(w) \/ WorkerFaults(w)
    PROVE  NoAnswer
<1>1. CASE UNCHANGED log
  BY <1>1 DEF NoAnswer
<1>2. wk[w] \in WorkerType /\ (wk[w].pc # "idle" => wk[w].run \in Runs)
  BY DEF LogInv, TypeInv, TypeOK, BusyOnRuns
<1>3. CASE FailExhausted(w)
  <2>1. wk[w].run \in Runs
    BY <1>2, <1>3 DEF FailExhausted, Working
  <2>2. log' = [log EXCEPT ![wk[w].run] =
                  AppendEventsAfter(log[wk[w].run], Len(log[wk[w].run]), <<Plain("RunFailed")>>)]
    BY <1>3 DEF FailExhausted, AppendEvents
  <2> QED BY <2>1, <2>2, EndNoAnswer, PlainIsNoAnswer
<1>4. CASE AppendBatch(w)
  <2>1. wk[w].pc = "append" /\ wk[w].run \in Runs /\ wk[w].batch \in Seq(Event)
    BY <1>2, <1>4 DEF AppendBatch, Working, WorkerType
  <2>2. BatchFits(wk[w].events, wk[w].batch)
    BY <2>1 DEF LogInv, WorkerFits
  <2>3. ~Has(wk[w].batch, {"Answer"})
    BY <2>1, <2>2 DEF BatchFits, Has, Ends
  <2>4. log' = [log EXCEPT ![wk[w].run] =
                  AppendEventsAfter(log[wk[w].run], Len(wk[w].events), wk[w].batch)]
    BY <1>4 DEF AppendBatch
  <2> QED BY <2>1, <2>3, <2>4, EndNoAnswer
<1> QED BY <1>1, <1>3, <1>4, WorkerWrites

(***************************************************************************)
(* Answers wake                                                            *)
(***************************************************************************)
AtWaking(w, r, a) == wk[w].run = r /\ wk[w].ask = a /\ wk[w].pc \in {"recheck", "wake"}
Bringing(d, r, a) == dl[d].run = r /\ dl[d].ask = a /\ dl[d].pc \in {"mark", "wake"}

\* Only the thread that moves may stop being on its way.
LEMMA OtherWakers ==
    ASSUME TypeInv, NEW r, NEW a, Waker(r, a)
    PROVE  /\ UNCHANGED <<wk, dl>> => Waker(r, a)'
           /\ \A w \in Workers : (\E k : Becomes(w, k)) /\ UNCHANGED dl =>
                                   Waker(r, a)' \/ AtWaking(w, r, a)
           /\ \A d \in Couriers : (\E k : Carries(d, k)) /\ UNCHANGED wk =>
                                   Waker(r, a)' \/ Bringing(d, r, a)
<1>1. wk \in [Workers -> WorkerType] /\ dl \in [Couriers -> CourierType]
  BY DEF TypeInv, TypeOK
<1>2. \A w \in Workers : (\E k : Becomes(w, k)) => \A v \in Workers : v = w \/ wk'[v] = wk[v]
  BY <1>1 DEF Becomes
<1>3. \A d \in Couriers : (\E k : Carries(d, k)) => \A c \in Couriers : c = d \/ dl'[c] = dl[c]
  BY <1>1 DEF Carries
<1> QED BY <1>2, <1>3 DEF Waker, AtWaking, Bringing

\* What a step owes a run that is parked on an answered ask when it is done.
LEMMA WakingKept ==
    ASSUME LogInv, LogInv', AnsweredAreWoken,
           KeepsFaults \/ CountsFault,
           \A r \in Runs : \A a \in AskIds :
               /\ KeepsFaults /\ queue'.parked[r] = a /\ AskState(log'[r], a) = "Answered"
               => \/ Waker(r, a)'
                  \/ /\ queue.parked[r] = a /\ AskState(log[r], a) = "Answered"
                     /\ Waker(r, a) => Waker(r, a)'
    PROVE  AnsweredAreWoken'
<1>1. faults \in Nat
  BY DEF LogInv, TypeInv, TypeOK
<1> SUFFICES ASSUME NEW r \in Runs, NEW a, a = queue'.parked[r], a # 0, faults' = 0,
                    AskState(log'[r], a) = "Answered"
             PROVE  Waker(r, a)'
  BY DEF AnsweredAreWoken, Waker
<1>2. KeepsFaults /\ faults = 0
  BY <1>1 DEF KeepsFaults, CountsFault
<1>3. a \in AskIds
  <2>1. queue' \in QueueType
    BY DEF LogInv, TypeInv, TypeOK
  <2>2. a \in 0..MaxDecisions
    BY <2>1, QueueFields
  <2> QED BY <2>2, MaxDecisionsAssumption DEF AskIds
<1>4. CASE queue.parked[r] = a /\ AskState(log[r], a) = "Answered" /\ (Waker(r, a) => Waker(r, a)')
  <2>1. Waker(r, a)
    BY <1>2, <1>4 DEF AnsweredAreWoken
  <2> QED BY <1>4, <2>1
<1> QED BY <1>2, <1>3, <1>4

WritesAnswer(r, b, seen) ==
    log' = [log EXCEPT ![r] = AppendEventsAfter(log[r], seen, <<About("Answer", b)>>)]

\* A step that answers no ask but b of run r.
AnswersOnly(r, b) ==
    \A s \in Runs : \A a : AskState(log'[s], a) = "Answered" =>
                            AskState(log[s], a) = "Answered" \/ (s = r /\ a = b)

\* A courier answers the ask it carries an answer to, if the store takes it.
LEMMA AnswerWritten ==
    ASSUME LogInv, LogInv', NEW r \in Runs, NEW b \in AskIds, NEW seen,
           WritesAnswer(r, b, seen)
    PROVE  AnswersOnly(r, b) /\ (AppendResult(log[r], seen) # "Appended" => NoAnswer)
<1> SUFFICES ASSUME NEW s \in Runs, NEW a, AskState(log'[s], a) = "Answered"
             PROVE  \/ AskState(log[s], a) = "Answered"
                    \/ s = r /\ a = b /\ AppendResult(log[r], seen) = "Appended"
  BY DEF AnswersOnly, NoAnswer
<1> USE DEF WritesAnswer
<1>1. log \in [Runs -> Seq(Event)]
  BY DEF LogInv, TypeInv, TypeOK
<1> DEFINE e == About("Answer", b)
<1>2. e \in Event /\ e.type = "Answer" /\ e.ask = b
  BY EventTypes DEF AskIds, Types, About
<1>3. CASE log'[s] = log[s]
  BY <1>3
<1>4. CASE s = r /\ AppendResult(log[r], seen) = "Appended" /\ log'[r] = log[r] \o <<e>>
  <2> DEFINE l == log[r]
  <2>1. l \in Seq(Event) /\ l \o <<e>> = Append(l, e) /\ GoodLog(l) /\ GoodLog(log'[r])
    BY <1>1, <1>2 DEF LogInv
  <2> HIDE DEF e, l
  <2>2. log'[r] = Append(l, e) /\ Append(l, e) \in Seq(Event)
    BY <1>2, <1>4, <2>1, Appended DEF l
  <2>3. IsAnswered(Append(l, e), a)
    BY <1>4, <2>1, <2>2, AskStates DEF GoodLog
  <2>4. IsAnswered(l, a) \/ a = b
    BY <1>2, <2>1, <2>3, AsksAppended
  <2>5. IsAnswered(l, a) => AskState(l, a) = "Answered"
    BY <2>1, AskStates DEF GoodLog
  <2> QED BY <1>4, <2>4, <2>5 DEF l
<1>5. log'[s] = log[s] \/ (s = r /\ AppendResult(log[r], seen) = "Appended" /\ log'[r] = log[r] \o <<e>>)
  BY <1>1 DEF AppendEventsAfter
<1> QED BY <1>3, <1>4, <1>5

LEMMA CourierWakes ==
    ASSUME LogInv, LogInv', AnsweredAreWoken, CourierNext
    PROVE  AnsweredAreWoken'
<1>1. PICK d \in Couriers : CourierStarts(d) \/ CourierCarries(d) \/ CourierFails(d)
  BY DEF CourierNext
<1>2. TypeInv /\ UNCHANGED wk
  BY DEF LogInv, CourierNext, noCourier
<1>3. /\ dl \in [Couriers -> CourierType] /\ queue \in QueueType
      /\ dl[d].pc # "idle" => dl[d].run \in Runs
  BY <1>2 DEF TypeInv, TypeOK, BusyOnRuns
<1>4. KeepsFaults \/ CountsFault
  BY <1>1, <1>2, CourierParks
<1>5. ASSUME NEW r \in Runs, NEW a \in AskIds, Waker(r, a)
      PROVE  Waker(r, a)' \/ Bringing(d, r, a)
  BY <1>1, <1>2, <1>5, CourierParks, OtherWakers
\* A courier stops on its way to a parked run only by waking it.
<1>6. ASSUME NEW r \in Runs, NEW a \in AskIds, KeepsFaults, queue'.parked[r] = a,
             Bringing(d, r, a)
      PROVE  Waker(r, a)'
  <2>1. CASE MarkAnswered(d)
    <3>1. dl'[d].pc = "wake" /\ dl'[d].run = dl[d].run /\ dl'[d].ask = dl[d].ask
      BY <1>3, <2>1 DEF MarkAnswered, Turns, Carries, CourierType
    <3> QED BY <1>6, <3>1 DEF Bringing, Waker
  <2>2. CASE WakeAsker(d)
    <3>1. queue' = Wake(queue, r, a)
      BY <1>6, <2>2 DEF WakeAsker, Bringing
    <3>2. queue'.parked[r] # a
      BY <1>3, <3>1, WakeParked, MaxDecisionsAssumption DEF AskIds
    <3> QED BY <1>6, <3>2
  <2>3. ~CourierFails(d)
    <3>1. faults \in Nat
      BY <1>2 DEF TypeInv, TypeOK
    <3> QED BY <1>6, <3>1 DEF CourierFails, Fault, KeepsFaults
  <2>4. MarkAnswered(d) \/ WakeAsker(d)
    BY <1>1, <1>6, <2>3
       DEF Bringing, CourierStarts, CourierCarries, SweepParked, UserAnswers, TaskAnswers, AskIsDue,
           LookAtParked, LookAtStop, DeliverRead, DeliverAppend, ReadQuestion, ReplyToQuestion,
           Carrying
  <2> QED BY <2>1, <2>2, <2>4
<1>7. ASSUME NEW r \in Runs
      PROVE  queue'.parked[r] \in {0, queue.parked[r]}
  <2>1. CASE KeepsParked
    BY <2>1 DEF KeepsParked
  <2>2. CASE WakeAsker(d)
    <3>1. dl[d].run \in Runs /\ queue' = Wake(queue, dl[d].run, dl[d].ask)
      BY <1>3, <2>2 DEF WakeAsker, Carrying
    <3> QED BY <1>3, <3>1, WakeParked
  <2> QED BY <1>1, <1>2, <2>1, <2>2, CourierParks
\* Whoever answers is on its way.
<1>8. ASSUME NEW r \in Runs, NEW a \in AskIds, AskState(log'[r], a) = "Answered"
      PROVE  AskState(log[r], a) = "Answered" \/ Waker(r, a)'
  <2>1. CASE KeepsLogs
    BY <1>8, <2>1 DEF KeepsLogs
  <2>2. CASE DeliverAppend(d)
    <3>1. dl[d].run \in Runs /\ dl[d].ask \in AskIds
      <4>1. dl[d].pc = "append"
        BY <2>2 DEF DeliverAppend, Carrying
      <4>2. CourierFits(dl[d], log[dl[d].run])
        BY DEF LogInv
      <4> QED BY <1>3, <4>1, <4>2 DEF CourierFits
    <3>2. WritesAnswer(dl[d].run, dl[d].ask, Len(log[dl[d].run]))
      BY <2>2 DEF DeliverAppend, AppendEvents, WritesAnswer
    <3>3. dl'[d].pc = "mark" /\ dl'[d].run = dl[d].run /\ dl'[d].ask = dl[d].ask
      BY <1>3, <2>2 DEF DeliverAppend, Turns, Carries, CourierType
    <3>4. AnswersOnly(dl[d].run, dl[d].ask)
      BY <3>1, <3>2, AnswerWritten
    <3> QED BY <1>8, <3>3, <3>4 DEF Waker, AnswersOnly
  <2>3. CASE ReplyToQuestion(d)
    <3>1. dl[d].run \in Runs /\ dl[d].ask \in AskIds
      <4>1. dl[d].pc = "reply"
        BY <2>3 DEF ReplyToQuestion, Carrying
      <4>2. CourierFits(dl[d], log[dl[d].run])
        BY DEF LogInv
      <4> QED BY <1>3, <4>1, <4>2 DEF CourierFits
    <3>2. WritesAnswer(dl[d].run, dl[d].ask, dl[d].seen)
      BY <2>3 DEF ReplyToQuestion, WritesAnswer
    <3>3. AppendResult(log[dl[d].run], dl[d].seen) = "Appended" => Turns(d, "wake")
      BY <2>3 DEF ReplyToQuestion
    <3>4. Turns(d, "wake") =>
            dl'[d].pc = "wake" /\ dl'[d].run = dl[d].run /\ dl'[d].ask = dl[d].ask
      BY <1>3 DEF Turns, Carries, CourierType
    <3>5. /\ AnswersOnly(dl[d].run, dl[d].ask)
          /\ AppendResult(log[dl[d].run], dl[d].seen) # "Appended" => NoAnswer
      BY <3>1, <3>2, AnswerWritten
    <3> QED BY <1>8, <3>3, <3>4, <3>5 DEF Waker, AnswersOnly, NoAnswer
  <2> QED BY <1>1, <1>2, <2>1, <2>2, <2>3, CourierParks
<1>9. \A r \in Runs : \A a \in AskIds :
         /\ KeepsFaults /\ queue'.parked[r] = a /\ AskState(log'[r], a) = "Answered"
         => \/ Waker(r, a)'
            \/ /\ queue.parked[r] = a /\ AskState(log[r], a) = "Answered"
               /\ Waker(r, a) => Waker(r, a)'
  <2> SUFFICES ASSUME NEW r \in Runs, NEW a \in AskIds, KeepsFaults, queue'.parked[r] = a,
                      AskState(log'[r], a) = "Answered", ~Waker(r, a)'
               PROVE  /\ queue.parked[r] = a /\ AskState(log[r], a) = "Answered"
                      /\ ~Waker(r, a)
    OBVIOUS
  <2>1. queue.parked[r] = a
    BY <1>7, MaxDecisionsAssumption DEF AskIds
  <2> QED BY <1>5, <1>6, <1>8, <2>1
<1> QED BY <1>4, <1>9, WakingKept

LEMMA WorkerWakes ==
    ASSUME LogInv, LogInv', AnsweredAreWoken, WorkerNext
    PROVE  AnsweredAreWoken'
<1>1. TypeInv /\ UNCHANGED dl
  BY DEF LogInv, WorkerNext, noWorker
<1>2. wk \in [Workers -> WorkerType] /\ queue \in QueueType /\ faults \in Nat
  BY <1>1 DEF TypeInv, TypeOK
<1>3. CASE \E r \in Runs : AbandonedLeaseExpires(r) \/ LiveLeaseExpires(r)
  <2>1. KeepsParked /\ KeepsFaults /\ KeepsLogs /\ UNCHANGED wk
    BY <1>1, <1>3, LeaseParks
  <2>2. \A r, a : Waker(r, a) => Waker(r, a)'
    BY <1>1, <2>1, OtherWakers
  <2> QED BY <2>1, <2>2, WakingKept DEF KeepsParked, KeepsLogs
<1>4. ASSUME NEW w \in Workers, WorkerSteps(w) \/ WorkerFaults(w)
      PROVE  AnsweredAreWoken'
  <2>1. NoAnswer
    BY <1>4, WorkerNoAnswer
  <2>2. wk[w] \in WorkerType /\ (wk[w].pc # "idle" => wk[w].run \in Runs)
    BY <1>1, <1>2 DEF TypeInv, BusyOnRuns
  <2>3. CASE KeepsParked /\ CountsFault
    BY <1>2, <2>3, WakingKept DEF CountsFault, KeepsFaults
  <2>4. ASSUME KeepsFaults,
               \A r \in Runs : \A a \in AskIds :
                  queue'.parked[r] = a => Waker(r, a)' \/ queue.parked[r] = a,
               \A r \in Runs : \A a \in AskIds :
                  queue'.parked[r] = a /\ Waker(r, a) /\ AskState(log[r], a) = "Answered"
                  => Waker(r, a)'
        PROVE  AnsweredAreWoken'
    BY <2>1, <2>4, WakingKept DEF NoAnswer
  <2>5. CASE /\ KeepsParked /\ KeepsFaults /\ Elsewhere(w)
             /\ UNCHANGED wk \/ \E k : Becomes(w, k)
    <3>1. \A r, a : Waker(r, a) => Waker(r, a)'
      BY <1>1, <2>5, OtherWakers DEF AtWaking, Elsewhere
    <3> QED BY <2>4, <2>5, <3>1 DEF KeepsParked
  <2>6. CASE ParkRun(w)
    <3> DEFINE s == wk[w].run
    <3>1. /\ wk[w].pc = "park" /\ queue' = Park(queue, s, w, wk[w].ask) /\ KeepsFaults /\ s \in Runs
      BY <2>2, <2>6 DEF ParkRun, Working, KeepsFaults
    <3>2. \E k : Becomes(w, k)
      BY <2>6 DEF ParkRun, Goes, Rests
    <3>3. \A r, a : Waker(r, a) => Waker(r, a)'
      BY <1>1, <3>1, <3>2, OtherWakers DEF AtWaking
    <3>4. queue.lease[s] = w =>
            wk'[w].pc = "recheck" /\ wk'[w].run = s /\ wk'[w].ask = wk[w].ask
      BY <1>2, <2>6 DEF ParkRun, Goes, Becomes, WorkerType
    <3>5. ASSUME NEW r \in Runs, NEW a \in AskIds, queue'.parked[r] = a
          PROVE  Waker(r, a)' \/ queue.parked[r] = a
      <4>1. a = IF r = s /\ queue.lease[s] = w THEN wk[w].ask ELSE queue.parked[r]
        BY <1>2, <3>1, <3>5, ParkParked
      <4> QED BY <3>4, <4>1 DEF Waker
    <3> QED BY <2>4, <3>1, <3>3, <3>5
  <2>7. CASE Recheck(w)
    <3>1. wk[w].pc = "recheck" /\ KeepsParked /\ KeepsFaults /\ \E k : Becomes(w, k)
      BY <2>7 DEF Recheck, Working, Goes, KeepsParked, KeepsFaults, shared
    <3>2. AskState(log[wk[w].run], wk[w].ask) = "Answered" =>
            wk'[w].pc = "wake" /\ wk'[w].run = wk[w].run /\ wk'[w].ask = wk[w].ask
      BY <1>2, <2>7 DEF Recheck, Goes, Becomes, WorkerType
    <3>3. ASSUME NEW r \in Runs, NEW a \in AskIds, Waker(r, a), AskState(log[r], a) = "Answered"
          PROVE  Waker(r, a)'
      <4>1. Waker(r, a)' \/ AtWaking(w, r, a)
        BY <1>1, <3>1, <3>3, OtherWakers
      <4> QED BY <3>2, <3>3, <4>1 DEF AtWaking, Waker
    <3> QED BY <2>4, <3>1, <3>3 DEF KeepsParked
  <2>8. CASE RecheckStop(w)
    <3>1. /\ wk[w].pc = "restop" /\ KeepsParked /\ (KeepsFaults \/ CountsFault)
          /\ \E k : Becomes(w, k)
      BY <2>8 DEF RecheckStop, Stopped, Fault, Working, Goes, Rests, KeepsParked, KeepsFaults,
                  CountsFault
    <3>2. \A r, a : Waker(r, a) => Waker(r, a)'
      BY <1>1, <3>1, OtherWakers DEF AtWaking
    <3> QED BY <2>3, <2>4, <3>1, <3>2 DEF KeepsParked
  <2>9. CASE WakeSelf(w)
    <3> DEFINE s == wk[w].run
    <3>1. /\ wk[w].pc = "wake" /\ queue' = Wake(queue, s, wk[w].ask) /\ KeepsFaults /\ s \in Runs
          /\ \E k : Becomes(w, k)
      BY <2>2, <2>9 DEF WakeSelf, Working, KeepsFaults, Rests
    <3>2. ASSUME NEW r \in Runs, NEW a \in AskIds, queue'.parked[r] = a
          PROVE  queue.parked[r] = a /\ ~AtWaking(w, r, a)
      <4>1. a = IF r = s /\ queue.parked[s] = wk[w].ask THEN 0 ELSE queue.parked[r]
        BY <1>2, <3>1, <3>2, WakeParked
      <4>2. a # 0
        BY MaxDecisionsAssumption DEF AskIds
      <4> QED BY <4>1, <4>2 DEF AtWaking
    <3>3. ASSUME NEW r \in Runs, NEW a \in AskIds, Waker(r, a), queue'.parked[r] = a
          PROVE  Waker(r, a)'
      BY <1>1, <3>1, <3>2, <3>3, OtherWakers
    <3> QED BY <2>4, <3>1, <3>2, <3>3
  <2> QED BY <1>1, <1>4, <2>3, <2>5, <2>6, <2>7, <2>8, <2>9, WorkerParks
<1> QED BY <1>3, <1>4 DEF WorkerNext

LEMMA OthersWake ==
    ASSUME LogInv, LogInv', AnsweredAreWoken,
           ProducerNext \/ StopperNext \/ SweeperNext \/ UNCHANGED vars
    PROVE  AnsweredAreWoken'
<1>1. TypeInv /\ UNCHANGED <<wk, dl>>
  BY DEF LogInv, ProducerNext, StopperNext, SweeperNext, noProducer, noStopper, noSweeper, vars
<1>2. \A r, a : Waker(r, a) => Waker(r, a)'
  BY <1>1, OtherWakers
<1>3. NoAnswer
  <2>1. CASE SweeperNext \/ UNCHANGED vars
    <3>1. UNCHANGED log
      BY <2>1 DEF SweeperNext, SweeperSteps, ReapExpired, ListPending, LoadPending, PushPending,
                  UnpendPending, SweepFails, shared, vars
    <3> QED BY <3>1 DEF NoAnswer
  <2> QED BY <2>1, ProducerNoAnswer, StopperNoAnswer
<1>4. KeepsFaults \/ CountsFault
  BY <1>1, ProducerParks, StopperParks, SweeperParks DEF vars, shared, KeepsFaults
<1>5. \A r \in Runs : \A a \in AskIds : queue'.parked[r] = a => queue.parked[r] = a
  <2>1. KeepsParked \/ (StopperNext /\ WakeCancelled)
    BY <1>1, ProducerParks, StopperParks, SweeperParks DEF vars, shared, KeepsParked
  <2>2. CASE StopperNext /\ WakeCancelled
    <3>1. st.run \in Runs /\ queue \in QueueType /\ queue' = Wake(queue, st.run, st.ask)
      BY <1>1, <2>2 DEF WakeCancelled, TypeInv, TypeOK, BusyOnRuns
    <3>2. \A r \in Runs : queue'.parked[r] \in {0, queue.parked[r]}
      BY <3>1, WakeParked
    <3> QED BY <3>2, MaxDecisionsAssumption DEF AskIds
  <2> QED BY <2>1, <2>2 DEF KeepsParked
<1> QED BY <1>2, <1>3, <1>4, <1>5, WakingKept DEF NoAnswer

LEMMA NextWakes == WakeInv /\ [Next]_vars => WakeInv'
<1> SUFFICES ASSUME WakeInv, [Next]_vars PROVE WakeInv'
  OBVIOUS
<1>1. LogInv /\ LogInv' /\ AnsweredAreWoken
  BY NextLogs DEF WakeInv
<1>2. AnsweredAreWoken'
  BY <1>1, CourierWakes, WorkerWakes, OthersWake DEF Next
<1> QED BY <1>1, <1>2 DEF WakeInv

LEMMA InitWakes == Init => WakeInv
<1> SUFFICES ASSUME Init PROVE WakeInv
  OBVIOUS
<1>1. \A r \in Runs : queue.parked[r] = 0
  BY DEF Init, SharedInit, EmptyQueue
<1> QED BY <1>1, InitLogs DEF WakeInv, AnsweredAreWoken

LEMMA WakeInvariant == Spec => []WakeInv
<1>1. WakeInv /\ [Next]_vars => WakeInv'
  BY NextWakes
<1> QED BY InitWakes, <1>1, PTL DEF Spec

\* A run that is parked on an answered ask has a thread on its way that will
\* wake it, whatever else workers, couriers, stops and sweeps do to it: no order
\* of PARK, the answer's append and the two looks that follow them leaves it to
\* the sweep, unless a thread failed (worker.rs Done::ack, deliverer.rs deliver,
\* http.rs answer_question).
THEOREM AnswersAlwaysWake == Spec => []AnswersWake
<1>1. WakeInv => AnswersWake
  BY DEF WakeInv, AnsweredAreWoken, AnswersWake, Waker, WillWake
<1> QED BY <1>1, WakeInvariant, PTL

(***************************************************************************)
(* Where runs ask only their users: how a log moves                        *)
(***************************************************************************)
Foreign == {"Answer", "MessageSent"}

\* What a step may make of log l: the log that is put, one with its end, one
\* with what a worker decided, or one with the answer to its open question.
Moves(l, m) ==
    \/ m = l
    \/ l = <<>> /\ m = QueuedEvents
    \/ Ended(m) /\ \E batch \in Seq(Event) : m = l \o batch /\ ~Has(batch, Foreign)
    \/ \E e \in Event : m = Append(l, e) /\ Fits(l, e) /\ e.type \notin Foreign
    \/ \E a \in AskIds : m = Append(l, About("Answer", a)) /\ AskState(l, a) = "Open"

AnswersOnce(l) == \A i, j \in DOMAIN l : l[i].type = "Answer" /\ l[i] = l[j] => i = j

LEMMA HasOne ==
    ASSUME NEW e, NEW types
    PROVE  Has(<<e>>, types) <=> e.type \in types
BY DEF Has

LEMMA HasConcat ==
    ASSUME NEW l \in Seq(Event), NEW batch \in Seq(Event), NEW types
    PROVE  Has(l \o batch, types) <=> Has(l, types) \/ Has(batch, types)
<1>1. ASSUME NEW i \in DOMAIN (l \o batch), (l \o batch)[i].type \in types
      PROVE  Has(l, types) \/ Has(batch, types)
  <2>1. CASE i \in DOMAIN l
    BY <1>1, <2>1 DEF Has
  <2>2. CASE i \notin DOMAIN l
    <3>1. i - Len(l) \in DOMAIN batch /\ (l \o batch)[i] = batch[i - Len(l)]
      BY <2>2
    <3> QED BY <1>1, <3>1 DEF Has
  <2> QED BY <2>1, <2>2
<1>2. ASSUME NEW i \in DOMAIN l, l[i].type \in types
      PROVE  Has(l \o batch, types)
  <2>1. i \in DOMAIN (l \o batch) /\ (l \o batch)[i] = l[i]
    OBVIOUS
  <2> QED BY <1>2, <2>1 DEF Has
<1>3. ASSUME NEW i \in DOMAIN batch, batch[i].type \in types
      PROVE  Has(l \o batch, types)
  <2>1. i + Len(l) \in DOMAIN (l \o batch) /\ (l \o batch)[i + Len(l)] = batch[i]
    OBVIOUS
  <2> QED BY <1>3, <2>1 DEF Has
<1> QED BY <1>1, <1>2, <1>3 DEF Has

\* No question is answered twice, and no message is ever sent.
LEMMA MovesAnswerOnce ==
    ASSUME NEW l \in Seq(Event), NEW m, GoodLog(l), Moves(l, m), AnswersOnce(l),
           ~Has(l, {"MessageSent"})
    PROVE  AnswersOnce(m) /\ ~Has(m, {"MessageSent"})
<1>1. CASE m = l
  BY <1>1
<1>2. CASE l = <<>> /\ m = QueuedEvents
  <2>1. DOMAIN m = {1} /\ m[1].type = "RunQueued"
    BY <1>2 DEF QueuedEvents, Plain
  <2> QED BY <2>1 DEF AnswersOnce, Has
<1>3. ASSUME NEW batch \in Seq(Event), m = l \o batch, ~Has(batch, Foreign)
      PROVE  AnswersOnce(m) /\ ~Has(m, {"MessageSent"})
  <2>1. \A i \in DOMAIN m : m[i].type = "Answer" => i \in DOMAIN l /\ m[i] = l[i]
    <3> SUFFICES ASSUME NEW i \in DOMAIN m, i \notin DOMAIN l PROVE m[i].type # "Answer"
      BY <1>3
    <3>1. i - Len(l) \in DOMAIN batch /\ m[i] = batch[i - Len(l)]
      BY <1>3
    <3> QED BY <1>3, <3>1 DEF Has, Foreign
  <2>2. ~Has(batch, {"MessageSent"})
    BY <1>3 DEF Has, Foreign
  <2>3. ~Has(m, {"MessageSent"})
    BY <1>3, <2>2, HasConcat
  <2> QED BY <2>1, <2>3 DEF AnswersOnce
<1>4. ASSUME NEW e \in Event, m = Append(l, e), e.type \notin Foreign
      PROVE  AnswersOnce(m) /\ ~Has(m, {"MessageSent"})
  <2>1. <<e>> \in Seq(Event) /\ m = l \o <<e>>
    BY <1>4
  <2>2. ~Has(<<e>>, Foreign)
    BY <1>4, HasOne
  <2> QED BY <1>3, <2>1, <2>2
<1>5. ASSUME NEW a \in AskIds, m = Append(l, About("Answer", a)), AskState(l, a) = "Open"
      PROVE  AnswersOnce(m) /\ ~Has(m, {"MessageSent"})
  <2> DEFINE e == About("Answer", a)
  <2>1. e \in Event /\ e.type = "Answer" /\ e.ask = a
    BY EventTypes DEF AskIds, Types, About
  <2>2. ~IsAnswered(l, a)
    BY <1>5, AskStates DEF GoodLog
  <2>3. \A i \in DOMAIN l : l[i] # e
    BY <2>1, <2>2 DEF IsAnswered
  <2> HIDE DEF e
  <2>4. /\ DOMAIN m = DOMAIN l \cup {Len(l) + 1} /\ m[Len(l) + 1] = e
        /\ \A i \in DOMAIN l : m[i] = l[i]
    BY <1>5, <2>1, Appended DEF e
  <2>5. AnswersOnce(m)
    BY <2>3, <2>4 DEF AnswersOnce
  <2>6. m = Append(l, e)
    BY <1>5 DEF e
  <2>7. ~Has(m, {"MessageSent"})
    BY <2>1, <2>6, HasAppended
  <2> QED BY <2>5, <2>7
<1> QED BY <1>1, <1>2, <1>3, <1>4, <1>5 DEF Moves

\* A log that waits for an answer moves only with it or with the run's end.
LEMMA WaitingLogStands ==
    ASSUME NEW l \in Seq(Event), NEW m \in Seq(Event), GoodLog(l), GoodLog(m), Moves(l, m),
           NEW a \in AskIds, AskState(l, a) = "Open", AskState(m, a) # "Answered", ~Ended(m)
    PROVE  m = l
<1>1. ~NoneOpen(l) /\ ~Decidable(l) /\ ~StepAnswered(l)
  BY DEF NoneOpen, Decidable, GoodLog, StepsInTurn
<1>2. Has(l, {"RunStarted"}) /\ Has(l, {"RunScheduled"})
  <2>1. IsSent(l, a)
    BY AskStates DEF GoodLog
  <2>2. Has(l, DecidedTypes)
    BY <2>1 DEF IsSent, Has, DecidedTypes
  <2> QED BY <2>2 DEF GoodLog, StartedFirst
<1>3. l # <<>>
  BY <1>2 DEF Has
<1>4. ASSUME NEW e \in Event, m = Append(l, e), Fits(l, e), e.type \notin Foreign
      PROVE  FALSE
  <2>1. e.type \in Ends
    BY <1>1, <1>2, <1>4 DEF Fits, Foreign, AskTypes
  <2> QED BY <1>4, <2>1, HasAppended DEF Ended
<1>5. ASSUME NEW b \in AskIds, m = Append(l, About("Answer", b)), AskState(l, b) = "Open"
      PROVE  FALSE
  <2>1. a = b
    BY <1>5, OneOpen
  <2> DEFINE e == About("Answer", b)
  <2>2. e \in Event /\ e.type = "Answer" /\ e.ask = b
    BY EventTypes DEF AskIds, Types, About
  <2>3. m = Append(l, e)
    BY <1>5
  <2> HIDE DEF e
  <2>4. IsAnswered(m, a)
    BY <2>1, <2>2, <2>3, AsksAppended
  <2> QED BY <2>4, AskStates DEF GoodLog
<1> QED BY <1>3, <1>4, <1>5 DEF Moves

LogsMove == \A r \in Runs : Moves(log[r], log'[r])

LEMMA NoMove ==
    ASSUME UNCHANGED log
    PROVE  LogsMove
BY DEF LogsMove, Moves

LEMMA OneMove ==
    ASSUME LogInv, NEW r \in Runs, NEW m, log' = [log EXCEPT ![r] = m], Moves(log[r], m)
    PROVE  LogsMove
<1>1. log \in [Runs -> Seq(Event)]
  BY DEF LogInv, TypeInv, TypeOK
<1>2. \A s \in Runs : log'[s] = IF s = r THEN m ELSE log[s]
  BY <1>1
<1>3. \A s \in Runs : Moves(log[s], log[s])
  BY DEF Moves
<1> QED BY <1>2, <1>3 DEF LogsMove

LEMMA EndMoves ==
    ASSUME LogInv, NEW r \in Runs, NEW type \in {"RunFailed", "RunCancelled"}, NEW seen,
           log' = [log EXCEPT ![r] = AppendEventsAfter(log[r], seen, <<Plain(type)>>)]
    PROVE  LogsMove
<1> DEFINE l == log[r]
           batch == <<Plain(type)>>
           m == AppendEventsAfter(l, seen, batch)
<1>1. l \in Seq(Event) /\ batch \in Seq(Event)
  BY PlainIsNoAnswer DEF LogInv, TypeInv, TypeOK
<1>2. ~Has(batch, Foreign) /\ Has(batch, Ends)
  BY HasOne DEF Plain, Foreign, Ends
<1>3. m = l \/ m = l \o batch
  BY DEF AppendEventsAfter
<1>4. log' = [log EXCEPT ![r] = m]
  OBVIOUS
<1> HIDE DEF batch, m, l
<1>5. Ended(l \o batch)
  BY <1>1, <1>2, HasConcat DEF Ended
<1>6. Moves(l, m)
  BY <1>1, <1>2, <1>3, <1>5 DEF Moves
<1> QED BY <1>4, <1>6, OneMove DEF l

LEMMA OneConcat ==
    ASSUME NEW l \in Seq(Event), NEW batch \in Seq(Event), Len(batch) = 1
    PROVE  batch[1] \in Event /\ l \o batch = Append(l, batch[1])
<1> DEFINE m == Append(l, batch[1])
<1>1. batch[1] \in Event
  OBVIOUS
<1>2. m \in Seq(Event) /\ l \o batch \in Seq(Event)
      /\ Len(l \o batch) = Len(l) + 1 /\ Len(m) = Len(l) + 1
  BY <1>1, Appended
<1>3. \A i \in 1..Len(m) : (l \o batch)[i] = m[i]
  BY <1>1, <1>2
<1> HIDE DEF m
<1>4. l \o batch = m
  BY <1>2, <1>3, SeqEqual
<1> QED BY <1>1, <1>4 DEF m

LEMMA BatchMoves ==
    ASSUME LogInv, OnlyQuestions, NEW w \in Workers, AppendBatch(w)
    PROVE  LogsMove
<1> DEFINE r == wk[w].run
           l == wk[w].events
           batch == wk[w].batch
           result == AppendResult(log[r], Len(l))
<1>1. /\ wk[w].pc = "append" /\ r \in Runs /\ log[r] \in Seq(Event)
      /\ l \in Seq(Event) /\ batch \in Seq(Event)
  BY DEF AppendBatch, Working, LogInv, TypeInv, TypeOK, BusyOnRuns, WorkerType
<1>2. CopyOf(l, log[r]) /\ BatchFits(l, batch)
  BY <1>1 DEF LogInv, WorkerFits
<1>3. ~Has(batch, {"MessageSent"})
  BY DEF OnlyQuestions
<1>4. log' = [log EXCEPT ![r] = IF result = "Appended" THEN log[r] \o batch ELSE log[r]]
  BY DEF AppendBatch, AppendEventsAfter
<1>5. CASE result # "Appended"
  <2>1. log' = log
    BY <1>1, <1>4, <1>5 DEF LogInv, TypeInv, TypeOK
  <2> QED BY <2>1, NoMove
<1>6. CASE result = "Appended"
  <2>1. log[r] = l
    <3>1. Len(l) = Len(log[r]) /\ \A i \in 1..Len(l) : log[r][i] = l[i]
      BY <1>1, <1>2, <1>6 DEF AppendResult, CopyOf
    <3> QED BY <1>1, <3>1, SeqEqual
  <2>2. log' = [log EXCEPT ![r] = l \o batch]
    BY <1>4, <1>6, <2>1
  <2>3. Moves(l, l \o batch)
    <3> HIDE DEF l, batch
    <3>1. CASE Len(batch) = 1
      <4>1. batch[1] \in Event /\ l \o batch = Append(l, batch[1])
        BY <1>1, <3>1, OneConcat
      <4>2. Fits(l, batch[1]) /\ batch[1].type # "Answer"
        BY <1>2, <3>1 DEF BatchFits
      <4>3. batch[1].type # "MessageSent"
        BY <1>1, <1>3, <3>1 DEF Has
      <4> QED BY <4>1, <4>2, <4>3 DEF Moves, Foreign
    <3>2. CASE Len(batch) = 2
      <4>1. batch[1].type # "Answer" /\ batch[2].type \in {"RunFailed", "RunCancelled"}
        BY <1>2, <3>2 DEF BatchFits
      <4>2. DOMAIN batch = {1, 2}
        BY <1>1, <3>2
      <4>3. Has(batch, Ends) /\ ~Has(batch, Foreign)
        BY <1>3, <4>1, <4>2 DEF Has, Ends, Foreign
      <4>4. Ended(l \o batch)
        BY <1>1, <4>3, HasConcat DEF Ended
      <4> QED BY <1>1, <4>3, <4>4 DEF Moves
    <3> QED BY <1>2, <3>1, <3>2 DEF BatchFits
  <2> HIDE DEF l, batch, r
  <2> QED BY <1>1, <2>1, <2>2, <2>3, OneMove
<1> QED BY <1>5, <1>6

LEMMA ReplyMoves ==
    ASSUME LogInv, OnlyQuestions, NEW d \in Couriers, ReplyToQuestion(d)
    PROVE  LogsMove
<1> DEFINE r == dl[d].run
           a == dl[d].ask
           l == log[r]
           seen == dl[d].seen
           e == About("Answer", a)
<1>1. dl[d].pc = "reply" /\ r \in Runs /\ l \in Seq(Event)
  BY DEF ReplyToQuestion, Carrying, LogInv, TypeInv, TypeOK, BusyOnRuns
<1>2. a \in AskIds
  <2>1. CourierFits(dl[d], log[dl[d].run])
    BY DEF LogInv
  <2> QED BY <1>1, <2>1 DEF CourierFits
<1>3. seen = Len(l) => AskState(l, a) = "Open"
  BY <1>1 DEF OnlyQuestions
<1>4. log' = [log EXCEPT ![r] = AppendEventsAfter(l, seen, <<e>>)]
  BY DEF ReplyToQuestion
<1>5. e \in Event
  BY <1>2, EventTypes DEF AskIds, Types
<1>6. \/ AppendEventsAfter(l, seen, <<e>>) = l
      \/ AppendEventsAfter(l, seen, <<e>>) = Append(l, e) /\ seen = Len(l)
  <2>1. l \o <<e>> = Append(l, e)
    BY <1>1, <1>5
  <2> QED BY <2>1 DEF AppendEventsAfter, AppendResult
<1>7. Moves(l, AppendEventsAfter(l, seen, <<e>>))
  BY <1>2, <1>3, <1>6 DEF Moves
<1> DEFINE m == AppendEventsAfter(l, seen, <<e>>)
<1>8. log' = [log EXCEPT ![r] = m] /\ Moves(log[r], m)
  BY <1>4, <1>7
<1> HIDE DEF m, r
<1> QED BY <1>1, <1>8, OneMove

LEMMA NextMoves ==
    ASSUME LogInv, OnlyQuestions, [Next]_vars
    PROVE  LogsMove
<1>1. CASE UNCHANGED vars \/ SweeperNext
  <2>1. UNCHANGED log
    BY <1>1 DEF SweeperNext, SweeperSteps, ReapExpired, ListPending, LoadPending, PushPending,
                UnpendPending, SweepFails, shared, vars
  <2> QED BY <2>1, NoMove
<1>2. CASE ProducerNext
  <2>1. \A p \in Producers : ProducedRun[p] \in Runs
    BY ProducerAssumption
  <2>2. \/ UNCHANGED log
        \/ \E p \in Producers : log' = [log EXCEPT ![ProducedRun[p]] = PutRun(log[ProducedRun[p]])]
        \/ \E p \in Producers :
             log' = [log EXCEPT ![ProducedRun[p]] =
                       AppendEventsAfter(log[ProducedRun[p]], Len(log[ProducedRun[p]]),
                                         <<Plain("RunFailed")>>)]
    BY <1>2 DEF ProducerNext, ProducerSteps, ProducerFaults, PendRun, PutStored, PutFails,
                PutCommitsLate, PushRun, PushFails, EndRun, ReadExisting, CheckQueued,
                UnpendExisting, ProducerDies, PendingForgotten, shared, AppendEvents
  <2>3. ASSUME NEW r \in Runs, log' = [log EXCEPT ![r] = PutRun(log[r])] PROVE LogsMove
    <3>1. Moves(log[r], PutRun(log[r]))
      BY DEF Moves, PutRun
    <3> QED BY <2>3, <3>1, OneMove
  <2> QED BY <2>1, <2>2, <2>3, NoMove, EndMoves
<1>3. CASE StopperNext
  <2>1. CASE CancelRun
    <3>1. st.run \in Runs
      BY <2>1 DEF CancelRun, LogInv, TypeInv, BusyOnRuns
    <3>2. log' = [log EXCEPT ![st.run] =
                    AppendEventsAfter(log[st.run], st.seen, <<Plain("RunCancelled")>>)]
      BY <2>1 DEF CancelRun
    <3> QED BY <3>1, <3>2, EndMoves
  <2>2. CASE ~CancelRun
    <3>1. UNCHANGED log
      BY <1>3, <2>2 DEF StopperNext, StopperSteps, PutStop, ReadParked, ReadRun, WakeCancelled,
                  StopFails, shared
    <3> QED BY <3>1, NoMove
  <2> QED BY <2>1, <2>2
<1>4. CASE WorkerNext
  <2>1. ASSUME NEW w \in Workers, FailExhausted(w) PROVE LogsMove
    <3>1. wk[w].run \in Runs
      BY <2>1 DEF FailExhausted, Working, LogInv, TypeInv, BusyOnRuns
    <3>2. log' = [log EXCEPT ![wk[w].run] =
                    AppendEventsAfter(log[wk[w].run], Len(log[wk[w].run]), <<Plain("RunFailed")>>)]
      BY <2>1 DEF FailExhausted, AppendEvents
    <3> QED BY <3>1, <3>2, EndMoves
  <2>2. ASSUME NEW r \in Runs, AbandonedLeaseExpires(r) \/ LiveLeaseExpires(r) PROVE LogsMove
    BY <2>2, NoMove DEF AbandonedLeaseExpires, LiveLeaseExpires
  <2>3. ASSUME NEW w \in Workers, WorkerSteps(w) \/ WorkerFaults(w) PROVE LogsMove
    BY <2>1, <2>3, WorkerWrites, NoMove, BatchMoves
  <2> QED BY <1>4, <2>2, <2>3 DEF WorkerNext
<1>5. CASE CourierNext
  <2>1. PICK d \in Couriers : CourierStarts(d) \/ CourierCarries(d) \/ CourierFails(d)
    BY <1>5 DEF CourierNext
  <2>2. KeepsLogs \/ DeliverAppend(d) \/ ReplyToQuestion(d)
    BY <2>1, CourierParks DEF LogInv
  <2>3. ~DeliverAppend(d)
    BY DEF OnlyQuestions, DeliverAppend, Carrying
  <2> QED BY <2>2, <2>3, NoMove, ReplyMoves DEF KeepsLogs
<1> QED BY <1>1, <1>2, <1>3, <1>4, <1>5 DEF Next

(***************************************************************************)
(* Where runs ask only their users: no thread carries a message            *)
(***************************************************************************)
NoSend(k) == k.pc # "send" /\ ~Has(k.batch, {"MessageSent"})

\* Courier k brings no message's answer, and a user's answer to the log it was
\* read from finds the question open.
Replies(k, l) ==
    /\ k.pc \notin {"deliver", "append", "mark"}
    /\ k.pc = "reply" => k.seen <= Len(l) /\ (k.seen = Len(l) => AskState(l, k.ask) = "Open")

LEMMA WorkersSendNothing ==
    ASSUME LogInv, OnlyQuestions, WorkerNext, "MessageSent" \notin AskKinds
    PROVE  \A v \in Workers : NoSend(wk'[v])
<1>1. wk \in [Workers -> WorkerType] /\ \A v \in Workers : NoSend(wk[v])
  BY DEF LogInv, TypeInv, TypeOK, OnlyQuestions, NoSend
<1>2. ASSUME NEW w \in Workers, NEW k, Becomes(w, k), NoSend(k)
      PROVE  \A v \in Workers : NoSend(wk'[v])
  BY <1>1, <1>2 DEF Becomes
<1>3. CASE UNCHANGED wk
  BY <1>1, <1>3
<1>4. ~Has(<<>>, {"MessageSent"})
  BY DEF Has
<1>5. ASSUME NEW w \in Workers, NEW pc, pc # "send",
             Goes(w, pc) \/ Rests(w) \/ \E a : Finishes(w, pc, a)
      PROVE  \A v \in Workers : NoSend(wk'[v])
  <2>1. CASE Goes(w, pc)
    <3> DEFINE k == [wk[w] EXCEPT !.pc = pc]
    <3>1. k.pc = pc /\ k.batch = wk[w].batch /\ Becomes(w, k)
      BY <1>1, <2>1 DEF Goes, WorkerType
    <3> HIDE DEF k
    <3> QED BY <1>1, <1>2, <1>5, <3>1 DEF NoSend
  <2>2. CASE Rests(w)
    <3>1. NoSend(IdleWorker)
      BY <1>4 DEF NoSend, IdleWorker
    <3> QED BY <1>2, <2>2, <3>1 DEF Rests
  <2>3. ASSUME NEW a, Finishes(w, pc, a) PROVE \A v \in Workers : NoSend(wk'[v])
    <3> DEFINE k == [IdleWorker EXCEPT !.pc = pc, !.run = wk[w].run, !.ask = a]
    <3>1. k.pc = pc /\ k.batch = <<>> /\ Becomes(w, k)
      BY <2>3 DEF Finishes, IdleWorker
    <3> HIDE DEF k
    <3> QED BY <1>2, <1>4, <1>5, <3>1 DEF NoSend
  <2> QED BY <1>5, <2>1, <2>2, <2>3
\* A worker that goes to pc with a batch in hand.
<1>6. ASSUME NEW w \in Workers, NEW k, Becomes(w, k), NEW pc, NEW batch, pc # "send",
             k.pc = pc, k.batch = batch, ~Has(batch, {"MessageSent"})
      PROVE  \A v \in Workers : NoSend(wk'[v])
  BY <1>2, <1>6 DEF NoSend
<1>7. \A type \in Types \ {"MessageSent"} : \A a : ~Has(<<About(type, a)>>, {"MessageSent"})
                                               /\ ~Has(<<Plain(type)>>, {"MessageSent"})
  BY HasOne DEF About, Plain
<1>8. {"RunCancelled", "RunScheduled", "RunStarted", "StepAdvanced", "RunFailed", "RunCompleted",
       "Step", "UserAsked"} \subseteq Types \ {"MessageSent"}
  BY DEF Types, Ends, DecidedTypes, AskTypes
<1>9. ASSUME NEW w \in Workers, WorkerSteps(w) \/ WorkerFaults(w)
      PROVE  \A v \in Workers : NoSend(wk'[v])
  <2>1. wk[w] \in WorkerType /\ wk[w].pc # "send" /\ ~Has(wk[w].batch, {"MessageSent"})
        /\ wk[w].batch \in Seq(Event)
    BY <1>1 DEF NoSend, WorkerType
  <2>2. CASE ClaimRun(w)
    <3> DEFINE k == [IdleWorker EXCEPT !.pc = "load", !.run = Head(queue.runs)]
    <3>1. k.pc = "load" /\ k.batch = <<>>
      BY DEF IdleWorker
    <3>2. Becomes(w, k) \/ UNCHANGED wk
      BY <2>2 DEF ClaimRun
    <3> HIDE DEF k
    <3> QED BY <1>3, <1>4, <1>6, <3>1, <3>2
  <2>3. CASE LoadRun(w) \/ Reload(w)
    <3> DEFINE K(pc) == [wk[w] EXCEPT !.pc = pc, !.events = log[wk[w].run]]
    <3>1. \A pc : K(pc).pc = pc /\ K(pc).batch = wk[w].batch
      BY <2>1 DEF WorkerType
    <3>2. Finishes(w, "ack", 0) \/ Becomes(w, K("start")) \/ Becomes(w, K("run"))
      BY <2>3 DEF LoadRun, Reload
    <3> HIDE DEF K
    <3> QED BY <1>5, <1>6, <2>1, <3>1, <3>2
  <2>4. CASE \/ LoadFails(w) \/ StartRun(w) \/ FailExhausted(w) \/ ParkRun(w) \/ Recheck(w)
             \/ RecheckStop(w) \/ WakeSelf(w) \/ ReleaseRun(w) \/ AckRun(w) \/ Panics(w)
             \/ WorkerFaults(w) \/ CheckLease(w)
    <3>1. \/ Rests(w) \/ Goes(w, "run") \/ Goes(w, "recheck") \/ Goes(w, "restop") \/ Goes(w, "wake")
          \/ Goes(w, "append") \/ Finishes(w, "exhausted", 0) \/ Finishes(w, "ack", 0)
          \/ Finishes(w, "release", 0)
      BY <2>4 DEF LoadFails, StartRun, FailExhausted, ParkRun, Recheck, RecheckStop, WakeSelf,
                  ReleaseRun, AckRun, Panics, WorkerFaults, StartFails, Abandon, CheckLease
    <3> QED BY <1>5, <3>1
  <2>5. CASE RunFrom(w)
    <3> DEFINE K(batch) == [wk[w] EXCEPT !.pc = "hold", !.batch = batch]
               g == [wk[w] EXCEPT !.pc = "resume"]
    <3>1. (\A batch : K(batch).pc = "hold" /\ K(batch).batch = batch)
          /\ g.pc = "resume" /\ g.batch = wk[w].batch
      BY <2>1 DEF WorkerType
    <3>2. \/ Finishes(w, "ack", 0) \/ Becomes(w, g)
          \/ Becomes(w, K(<<Plain("RunCancelled")>>)) \/ Becomes(w, K(<<Plain("RunScheduled")>>))
      BY <2>5 DEF RunFrom
    <3> HIDE DEF K, g
    <3>3. ~Has(<<Plain("RunCancelled")>>, {"MessageSent"}) /\ ~Has(<<Plain("RunScheduled")>>, {"MessageSent"})
      BY <1>7, <1>8
    <3> QED BY <1>5, <1>6, <2>1, <3>1, <3>2, <3>3
  <2>6. CASE Resume(w)
    <3> DEFINE batch == ResumeEvents(wk[w].events)
               k == [wk[w] EXCEPT !.pc = "bound", !.batch = batch]
    <3>1. k.pc = "bound" /\ k.batch = batch
      BY <2>1 DEF WorkerType
    <3>2. Finishes(w, "release", 0) \/ Becomes(w, k)
      BY <2>6 DEF Resume
    <3>3. ~Has(batch, {"MessageSent"})
      BY <1>4, <1>7, <1>8 DEF ResumeEvents, StartEvents
    <3> HIDE DEF k, batch
    <3> QED BY <1>5, <1>6, <3>1, <3>2, <3>3
  <2>7. CASE NoDecider(w)
    <3> DEFINE start == StartEvents(wk[w].events)
               batch == Append(start, Plain("RunFailed"))
               k == [wk[w] EXCEPT !.pc = "hold", !.batch = batch]
    <3>1. k.pc = "hold" /\ k.batch = batch /\ Becomes(w, k)
      BY <2>1, <2>7 DEF WorkerType, NoDecider
    <3>2. ~Has(start, {"MessageSent"}) /\ start \in Seq(Event)
      BY <1>4, <1>7, <1>8, ResumeType DEF StartEvents
    <3>3. Plain("RunFailed") \in Event /\ Plain("RunFailed").type = "RunFailed"
      BY <1>8, EventTypes DEF Plain
    <3> HIDE DEF start
    <3>4. ~Has(batch, {"MessageSent"})
      BY <3>2, <3>3, HasAppended
    <3> HIDE DEF k, batch
    <3> QED BY <1>6, <3>1, <3>4
  <2>8. CASE AtBoundary(w)
    <3> DEFINE batch == Append(wk[w].batch, Plain("RunCancelled"))
               k == [wk[w] EXCEPT !.pc = "hold", !.batch = batch]
    <3>1. k.pc = "hold" /\ k.batch = batch
      BY <2>1 DEF WorkerType
    <3>2. \/ Becomes(w, k) \/ Goes(w, "hold") \/ Goes(w, "decide")
          \/ Finishes(w, "park", WaitingForMessage(wk[w].events))
      BY <2>8 DEF AtBoundary
    <3>3. Plain("RunCancelled") \in Event /\ Plain("RunCancelled").type = "RunCancelled"
      BY <1>8, EventTypes DEF Plain
    <3>4. ~Has(batch, {"MessageSent"})
      BY <2>1, <3>3, HasAppended
    <3> HIDE DEF k, batch
    <3> QED BY <1>5, <1>6, <3>1, <3>2, <3>4
  <2>9. CASE Decide(w)
    <3> DEFINE K(pc, type, ask) == [wk[w] EXCEPT !.pc = pc, !.batch = <<About(type, ask)>>]
    <3>1. \A pc, type, ask : K(pc, type, ask).pc = pc /\ K(pc, type, ask).batch = <<About(type, ask)>>
      BY <2>1 DEF WorkerType
    <3>2. \/ Becomes(w, K("bound", "Step", 0))
          \/ Becomes(w, K("bound", "UserAsked", Decisions(wk[w].events) + 1))
          \/ Becomes(w, K("hold", "RunCompleted", 0)) \/ Becomes(w, K("hold", "RunFailed", 0))
      BY <2>9 DEF Decide
    <3> HIDE DEF K
    <3>3. ASSUME NEW pc \in {"bound", "hold"}, NEW type \in Types \ {"MessageSent"}, NEW ask,
                 Becomes(w, K(pc, type, ask))
          PROVE  \A v \in Workers : NoSend(wk'[v])
      <4> DEFINE k == K(pc, type, ask)
                 batch == <<About(type, ask)>>
      <4>1. k.pc = pc /\ k.batch = batch /\ ~Has(batch, {"MessageSent"}) /\ Becomes(w, k)
        BY <1>7, <3>1, <3>3
      <4> HIDE DEF k, batch
      <4> QED BY <1>6, <4>1
    <3> QED BY <1>8, <3>2, <3>3
  <2>10. CASE AppendBatch(w)
    <3> DEFINE f == [wk[w] EXCEPT !.pc = "reload", !.batch = <<>>, !.events = <<>>,
                                  !.reloads = wk[w].reloads + 1]
               events == wk[w].events \o wk[w].batch
               g == [wk[w] EXCEPT !.pc = IF Has(wk[w].batch, {"RunScheduled"})
                                         THEN "resume" ELSE "decide",
                                  !.events = events, !.batch = <<>>]
    <3>1. /\ g.pc \in {"resume", "decide"} /\ g.batch = <<>>
          /\ f.pc = "reload" /\ f.batch = <<>>
      BY <2>1 DEF WorkerType
    <3>2. \/ Finishes(w, "ack", 0) \/ Finishes(w, "park", WaitingForMessage(events))
          \/ Finishes(w, "release", 0) \/ Becomes(w, f) \/ Becomes(w, g)
      BY <2>10 DEF AppendBatch
    <3> HIDE DEF f, g
    <3> QED BY <1>4, <1>5, <1>6, <3>1, <3>2
  <2>11. ~SendAsk(w)
    BY <2>1 DEF SendAsk, Working
  <2> QED BY <1>9, <2>2, <2>3, <2>4, <2>5, <2>6, <2>7, <2>8, <2>9, <2>10, <2>11 DEF WorkerSteps
<1> QED BY <1>3, <1>9 DEF WorkerNext, AbandonedLeaseExpires, LiveLeaseExpires

\* An answer still finds what its courier read, or a longer log.
LEMMA StillReplies ==
    ASSUME NEW k \in CourierType, NEW l \in Seq(Event), NEW m \in Seq(Event), Replies(k, l), Grows(l, m)
    PROVE  Replies(k, m)
<1>1. k.seen \in Nat /\ Len(l) \in Nat /\ Len(m) \in Nat
  BY DEF CourierType
<1>2. m = l \/ Len(l) < Len(m)
  BY DEF Grows
<1> QED BY <1>1, <1>2 DEF Replies

LEMMA OpenIsQuestion ==
    ASSUME NEW l \in Seq(Event), NEW a, AskState(l, a) = "Open", ~Has(l, {"MessageSent"})
    PROVE  IsUserQuestion(l, a)
<1>1. PICK i \in DOMAIN l : l[i].type \in AskTypes /\ l[i].ask = a
  BY DEF AskState
<1>2. l[i].type = "UserAsked" /\ l[i] \in Event
  BY <1>1 DEF AskTypes, Has
<1>3. l[i] = About("UserAsked", a)
  BY <1>1, <1>2 DEF About, Event
<1> QED BY <1>3 DEF IsUserQuestion

LEMMA CouriersOnlyReply ==
    ASSUME LogInv, LogInv', LogsGood, OnlyQuestions, [Next]_vars
    PROVE  \A c \in Couriers : Replies(dl'[c], log'[dl'[c].run])
<1>1. dl \in [Couriers -> CourierType] /\ log \in [Runs -> Seq(Event)] /\ log' \in [Runs -> Seq(Event)]
  BY DEF LogInv, TypeInv, TypeOK
<1>2. \A c \in Couriers : dl[c] \in CourierType /\ (dl[c].pc # "idle" => dl[c].run \in Runs)
  BY <1>1 DEF LogInv, TypeInv, BusyOnRuns
<1>3. \A c \in Couriers : Replies(dl[c], log[dl[c].run])
  BY DEF OnlyQuestions, Replies
<1>4. ASSUME NEW c \in Couriers, dl'[c] = dl[c]
      PROVE  Replies(dl'[c], log'[dl'[c].run])
  <2>1. CASE dl[c].pc = "idle"
    BY <1>4, <2>1 DEF Replies
  <2>2. CASE dl[c].pc # "idle"
    BY <1>1, <1>2, <1>3, <1>4, <2>2, StillReplies DEF LogsGood
  <2> QED BY <2>1, <2>2
<1>5. CASE UNCHANGED dl
  BY <1>4, <1>5
<1>6. CASE CourierNext
  <2>1. PICK d \in Couriers : CourierStarts(d) \/ CourierCarries(d) \/ CourierFails(d)
    BY <1>6 DEF CourierNext
  <2>2. ASSUME NEW k, Carries(d, k), Replies(k, log'[k.run])
        PROVE  \A c \in Couriers : Replies(dl'[c], log'[dl'[c].run])
    <3>1. \A c \in Couriers : dl'[c] = IF c = d THEN k ELSE dl[c]
      BY <1>1, <2>2 DEF Carries
    <3> QED BY <1>4, <2>2, <3>1
  <2>3. ASSUME NEW k, Carries(d, k), k.pc \notin {"deliver", "append", "mark", "reply"}
        PROVE  \A c \in Couriers : Replies(dl'[c], log'[dl'[c].run])
    BY <2>2, <2>3 DEF Replies
  <2>4. dl[d].pc \notin {"deliver", "append", "mark"} /\ dl[d] \in CourierType
    BY <1>1, <1>3 DEF Replies
  <2>5. Drops(d) => \A c \in Couriers : Replies(dl'[c], log'[dl'[c].run])
    <3>1. IdleCourier.pc = "idle"
      BY DEF IdleCourier
    <3> QED BY <2>3, <3>1 DEF Drops
  <2>6. \A pc \in {"wake", "stop"} :
          Turns(d, pc) => \A c \in Couriers : Replies(dl'[c], log'[dl'[c].run])
    <3>1. \A pc : [dl[d] EXCEPT !.pc = pc].pc = pc
      BY <2>4 DEF CourierType
    <3> QED BY <2>3, <3>1 DEF Turns
  <2>7. CASE CourierStarts(d)
    <3>1. PICK r \in Runs : SweepParked(d, r) \/ UserAnswers(d, r)
      <4>1. \A r \in Runs : \A a \in AskIds : ~TaskAnswers(d, r, a) /\ ~AskIsDue(d, r, a)
        BY DEF OnlyQuestions, TaskAnswers, AskIsDue
      <4> QED BY <2>7, <4>1 DEF CourierStarts
    <3> DEFINE Look == [IdleCourier EXCEPT !.pc = "look", !.run = r, !.ask = queue.parked[r]]
               Ask == [IdleCourier EXCEPT !.pc = "question", !.run = r]
    <3>2. Look.pc = "look" /\ Ask.pc = "question"
      BY DEF IdleCourier
    <3>3. Carries(d, Look) \/ Carries(d, Ask)
      BY <3>1 DEF SweepParked, UserAnswers
    <3> HIDE DEF Look, Ask
    <3> QED BY <2>3, <3>2, <3>3
  <2>8. CASE LookAtParked(d)
    <3>1. dl[d].pc = "look" /\ dl[d].run \in Runs
      BY <1>2, <2>8 DEF LookAtParked, Carrying
    <3>2. ~Has(log[dl[d].run], {"MessageSent"}) /\ log[dl[d].run] \in Seq(Event)
      BY <1>1, <3>1 DEF OnlyQuestions
    <3>3. AskState(log[dl[d].run], dl[d].ask) = "Open" => IsUserQuestion(log[dl[d].run], dl[d].ask)
      BY <3>2, OpenIsQuestion
    <3>4. Turns(d, "wake") \/ Turns(d, "stop")
      BY <2>8, <3>3 DEF LookAtParked
    <3> QED BY <2>6, <3>4
  <2>9. CASE LookAtStop(d) \/ WakeAsker(d) \/ CourierFails(d)
    BY <2>4, <2>5, <2>6, <2>9 DEF LookAtStop, WakeAsker, CourierFails, Carrying
  <2>10. CASE ReadQuestion(d)
    <3> DEFINE l == log[dl[d].run]
               a == WaitingForMessage(l)
               k == [dl[d] EXCEPT !.pc = "reply", !.ask = a, !.seen = Len(l)]
    <3>1. Drops(d) \/ (Carries(d, k) /\ a # 0)
      BY <2>10 DEF ReadQuestion
    <3>2. k.pc = "reply" /\ k.ask = a /\ k.seen = Len(l) /\ k.run = dl[d].run
      BY <2>4 DEF CourierType
    <3>3. UNCHANGED log /\ l \in Seq(Event)
      BY <1>1, <1>2, <2>10 DEF ReadQuestion, Carrying, shared
    <3>4. a # 0 => AskState(l, a) = "Open"
      BY WaitsOnOpen
    <3>5. a # 0 => Replies(k, log'[k.run])
      <4> HIDE DEF k, a
      <4> QED BY <3>2, <3>3, <3>4 DEF Replies
    <3> HIDE DEF k
    <3> QED BY <2>2, <2>5, <3>1, <3>5
  <2>11. CASE ReplyToQuestion(d)
    <3> DEFINE k == [dl[d] EXCEPT !.pc = "question", !.tries = dl[d].tries + 1, !.seen = 0]
    <3>1. k.pc = "question"
      BY <2>4 DEF CourierType
    <3>2. Turns(d, "wake") \/ Drops(d) \/ Carries(d, k)
      BY <2>11 DEF ReplyToQuestion
    <3> HIDE DEF k
    <3> QED BY <2>3, <2>5, <2>6, <3>1, <3>2
  <2>12. ~DeliverRead(d) /\ ~DeliverAppend(d) /\ ~MarkAnswered(d)
    BY <2>4 DEF DeliverRead, DeliverAppend, MarkAnswered, Carrying
  <2> QED BY <2>1, <2>7, <2>8, <2>9, <2>10, <2>11, <2>12 DEF CourierCarries
<1>7. UNCHANGED dl \/ CourierNext
  BY DEF Next, ProducerNext, WorkerNext, StopperNext, SweeperNext, noProducer, noWorker, noStopper,
         noSweeper, vars
<1> QED BY <1>5, <1>6, <1>7

LEMMA NextOnlyQuestions ==
    ASSUME LogInv, LogInv', LogsGood, OnlyQuestions, AnswerOnlyWhileOpen, [Next]_vars,
           "MessageSent" \notin AskKinds
    PROVE  OnlyQuestions' /\ AnswerOnlyWhileOpen'
<1>1. UNCHANGED rows
  <2>1. \A w \in Workers : ~SendAsk(w)
    BY DEF OnlyQuestions, SendAsk, Working
  <2>2. \A d \in Couriers : ~MarkAnswered(d)
    BY DEF OnlyQuestions, MarkAnswered, Carrying
  <2>3. CASE ProducerNext
    BY <2>3 DEF ProducerNext, ProducerSteps, ProducerFaults, PendRun, PutStored, PutFails,
                PutCommitsLate, PushRun, PushFails, EndRun, ReadExisting, CheckQueued,
                UnpendExisting, ProducerDies, PendingForgotten, shared
  <2>4. CASE StopperNext \/ SweeperNext \/ UNCHANGED vars
    BY <2>4 DEF StopperNext, StopperSteps, PutStop, ReadParked, ReadRun, CancelRun, WakeCancelled,
                StopFails, SweeperNext, SweeperSteps, ReapExpired, ListPending, LoadPending,
                PushPending, UnpendPending, SweepFails, shared, vars
  <2>5. CASE CourierNext
    BY <2>2, <2>5 DEF CourierNext, CourierStarts, CourierCarries, CourierFails, SweepParked,
                UserAnswers, TaskAnswers, AskIsDue, LookAtParked, LookAtStop, DeliverRead,
                DeliverAppend, WakeAsker, ReadQuestion, ReplyToQuestion, shared
  <2>6. CASE WorkerNext
    BY <2>1, <2>6 DEF WorkerNext, WorkerSteps, WorkerFaults, ClaimRun, LoadRun, LoadFails, StartRun,
                RunFrom, Resume, NoDecider, AtBoundary, Decide, CheckLease, Reload, ParkRun,
                Recheck, RecheckStop, WakeSelf, ReleaseRun, AckRun, Panics, StartFails, Abandon,
                FailExhausted, AppendBatch, AbandonedLeaseExpires, LiveLeaseExpires, shared
  <2> QED BY <2>3, <2>4, <2>5, <2>6 DEF Next
<1>2. LogsMove
  BY NextMoves
<1>3. \A r \in Runs : AnswersOnce(log'[r]) /\ ~Has(log'[r], {"MessageSent"})
  <2>1. \A r \in Runs : /\ log[r] \in Seq(Event) /\ GoodLog(log[r])
                        /\ AnswersOnce(log[r]) /\ ~Has(log[r], {"MessageSent"})
    BY DEF LogInv, TypeInv, TypeOK, AnswerOnlyWhileOpen, AnswersOnce, OnlyQuestions
  <2> QED BY <1>2, <2>1, MovesAnswerOnce DEF LogsMove
<1>4. \A w \in Workers : NoSend(wk'[w])
  <2>1. CASE WorkerNext
    BY <2>1, WorkersSendNothing
  <2>2. CASE UNCHANGED wk
    BY <2>2 DEF NoSend, OnlyQuestions
  <2> QED BY <2>1, <2>2 DEF Next, ProducerNext, CourierNext, StopperNext, SweeperNext, noProducer,
             noCourier, noStopper, noSweeper, vars
<1>5. \A d \in Couriers : Replies(dl'[d], log'[dl'[d].run])
  BY CouriersOnlyReply
<1>6. AnswerOnlyWhileOpen'
  BY <1>3 DEF AnswersOnce, AnswerOnlyWhileOpen
<1>7. OnlyQuestions'
  BY <1>1, <1>3, <1>4, <1>5 DEF OnlyQuestions, NoSend, Replies
<1> QED BY <1>6, <1>7

(***************************************************************************)
(* Where runs ask only their users: what is parked is in the log           *)
(***************************************************************************)
\* A run is parked on nothing new but by a worker, which then looks again.
LEMMA NewlyParked ==
    ASSUME TypeInv, [Next]_vars, NEW r \in Runs, NEW a \in AskIds, queue'.parked[r] = a,
           queue.parked[r] # a
    PROVE  /\ Waker(r, a)'
           /\ \E w \in Workers : wk[w].pc = "park" /\ wk[w].run = r /\ wk[w].ask = a
<1>1. wk \in [Workers -> WorkerType] /\ queue \in QueueType /\ a # 0
  BY MaxDecisionsAssumption DEF TypeInv, TypeOK, AskIds
<1>2. ~KeepsParked
  BY DEF KeepsParked
<1>3. ASSUME NEW s \in Runs, NEW b, queue' = Wake(queue, s, b) PROVE FALSE
  BY <1>1, <1>3, WakeParked
<1>4. ~StopperNext
  <2>1. StopperNext => WakeCancelled
    BY <1>2, StopperParks
  <2> QED BY <1>3, <2>1 DEF WakeCancelled, TypeInv, BusyOnRuns
<1>5. ~CourierNext
  <2>1. ASSUME NEW d \in Couriers, WakeAsker(d) PROVE FALSE
    BY <1>3, <2>1 DEF WakeAsker, Carrying, TypeInv, BusyOnRuns
  <2> QED BY <1>2, <2>1, CourierParks DEF CourierNext
<1>6. WorkerNext
  BY <1>2, <1>4, <1>5, ProducerParks, SweeperParks DEF Next, vars, shared, KeepsParked
<1>7. PICK w \in Workers : WorkerSteps(w) \/ WorkerFaults(w)
  BY <1>2, <1>6, LeaseParks DEF WorkerNext
<1>8. ~Recheck(w) /\ ~RecheckStop(w)
  BY <1>2 DEF Recheck, RecheckStop, KeepsParked, shared
<1>9. ~WakeSelf(w)
  BY <1>3 DEF WakeSelf, Working, TypeInv, BusyOnRuns
<1>10. ParkRun(w)
  BY <1>2, <1>7, <1>8, <1>9, WorkerParks
<1>11. wk[w].pc = "park" /\ wk[w].run \in Runs
  BY <1>10 DEF ParkRun, Working, TypeInv, BusyOnRuns
<1>12. a = IF r = wk[w].run /\ queue.lease[wk[w].run] = w THEN wk[w].ask ELSE queue.parked[r]
  BY <1>1, <1>10, <1>11, ParkParked DEF ParkRun
<1>13. r = wk[w].run /\ queue.lease[r] = w /\ a = wk[w].ask
  BY <1>12
<1>14. wk'[w].pc = "recheck" /\ wk'[w].run = r /\ wk'[w].ask = a
  BY <1>1, <1>10, <1>13 DEF ParkRun, Goes, Becomes, WorkerType
<1> QED BY <1>11, <1>13, <1>14 DEF Waker

\* Where a worker is after a step.
LEMMA WhoParks ==
    ASSUME TypeInv, NEW w \in Workers, WorkerSteps(w) \/ WorkerFaults(w), wk'[w].pc = "park"
    PROVE  AtBoundary(w) \/ AppendBatch(w)
<1>1. wk \in [Workers -> WorkerType] /\ wk[w] \in WorkerType
  BY DEF TypeInv, TypeOK
<1>2. ASSUME NEW k, Becomes(w, k) PROVE k.pc = "park"
  BY <1>1, <1>2 DEF Becomes
<1>3. /\ ~Rests(w)
      /\ \A pc : Goes(w, pc) => pc = "park"
      /\ \A pc, a : Finishes(w, pc, a) => pc = "park"
  <2>1. \A pc : [wk[w] EXCEPT !.pc = pc].pc = pc
    BY <1>1 DEF WorkerType
  <2>2. \A pc, a : [IdleWorker EXCEPT !.pc = pc, !.run = wk[w].run, !.ask = a].pc = pc
    BY DEF IdleWorker
  <2>3. IdleWorker.pc = "idle"
    BY DEF IdleWorker
  <2>4. ~Rests(w)
    BY <1>2, <2>3 DEF Rests
  <2>5. ASSUME NEW pc, Goes(w, pc) PROVE pc = "park"
    BY <1>2, <2>1, <2>5 DEF Goes
  <2>6. ASSUME NEW pc, NEW a, Finishes(w, pc, a) PROVE pc = "park"
    <3> DEFINE k == [IdleWorker EXCEPT !.pc = pc, !.run = wk[w].run, !.ask = a]
    <3>1. k.pc = pc /\ Becomes(w, k)
      BY <2>2, <2>6 DEF Finishes
    <3> HIDE DEF k
    <3> QED BY <1>2, <3>1
  <2> QED BY <2>4, <2>5, <2>6
<1>4. /\ ~LoadFails(w) /\ ~StartRun(w) /\ ~FailExhausted(w) /\ ~ParkRun(w) /\ ~Recheck(w)
      /\ ~RecheckStop(w) /\ ~WakeSelf(w) /\ ~ReleaseRun(w) /\ ~AckRun(w) /\ ~Panics(w)
      /\ ~WorkerFaults(w) /\ ~CheckLease(w)
  BY <1>3 DEF LoadFails, StartRun, FailExhausted, ParkRun, Recheck, RecheckStop, WakeSelf,
              ReleaseRun, AckRun, Panics, WorkerFaults, StartFails, Abandon, CheckLease
<1>5. ~ClaimRun(w)
  <2> DEFINE k == [IdleWorker EXCEPT !.pc = "load", !.run = Head(queue.runs)]
  <2>1. k.pc = "load"
    BY DEF IdleWorker
  <2>2. ClaimRun(w) => wk[w].pc = "idle" /\ (Becomes(w, k) \/ UNCHANGED wk)
    BY DEF ClaimRun, Working
  <2> HIDE DEF k
  <2> QED BY <1>2, <2>1, <2>2
<1>6. ~LoadRun(w) /\ ~Reload(w)
  <2> DEFINE K(pc) == [wk[w] EXCEPT !.pc = pc, !.events = log[wk[w].run]]
  <2>1. \A pc : K(pc).pc = pc
    BY <1>1 DEF WorkerType
  <2>2. LoadRun(w) \/ Reload(w) =>
          Finishes(w, "ack", 0) \/ Becomes(w, K("start")) \/ Becomes(w, K("run"))
    BY DEF LoadRun, Reload
  <2> HIDE DEF K
  <2> QED BY <1>2, <1>3, <2>1, <2>2
<1>7. ~RunFrom(w) /\ ~Resume(w) /\ ~NoDecider(w) /\ ~Decide(w)
  <2> DEFINE K(pc, batch) == [wk[w] EXCEPT !.pc = pc, !.batch = batch]
             g == [wk[w] EXCEPT !.pc = "resume"]
             h == [wk[w] EXCEPT !.pc = "send", !.ask = Decisions(wk[w].events) + 1]
  <2>1. (\A pc, batch : K(pc, batch).pc = pc) /\ g.pc = "resume" /\ h.pc = "send"
    BY <1>1 DEF WorkerType
  <2>2. RunFrom(w) => \/ Finishes(w, "ack", 0) \/ Becomes(w, g)
                      \/ \E batch : Becomes(w, K("hold", batch))
    BY DEF RunFrom
  <2>3. Resume(w) => Finishes(w, "release", 0) \/ \E batch : Becomes(w, K("bound", batch))
    BY DEF Resume
  <2>4. NoDecider(w) => \E batch : Becomes(w, K("hold", batch))
    BY DEF NoDecider
  <2>5. Decide(w) => Becomes(w, h) \/ \E pc \in {"bound", "hold"} : \E batch : Becomes(w, K(pc, batch))
    BY DEF Decide
  <2> HIDE DEF K, g, h
  <2> QED BY <1>2, <1>3, <2>1, <2>2, <2>3, <2>4, <2>5
<1>8. ~SendAsk(w)
  <2> DEFINE K(event) == [wk[w] EXCEPT !.pc = "bound", !.batch = <<event>>, !.ask = 0]
  <2>1. \A event : K(event).pc = "bound"
    BY <1>1 DEF WorkerType
  <2>2. SendAsk(w) => \E event : Becomes(w, K(event))
    BY DEF SendAsk
  <2> HIDE DEF K
  <2> QED BY <1>2, <2>1, <2>2
<1> QED BY <1>4, <1>5, <1>6, <1>7, <1>8 DEF WorkerSteps

\* What a worker parks its run on is in the log.
LEMMA ParksOnSent ==
    ASSUME LogInv, LogInv', LogsGood, NEW w \in Workers, AtBoundary(w) \/ AppendBatch(w),
           wk'[w].pc = "park"
    PROVE  AskState(log'[wk'[w].run], wk'[w].ask) # "Unsent"
<1> DEFINE r == wk[w].run
           l == wk[w].events
           batch == wk[w].batch
<1>1. /\ wk \in [Workers -> WorkerType] /\ wk[w] \in WorkerType /\ WorkerFits(wk[w], log[r])
      /\ wk[w].pc \in {"bound", "append"} /\ r \in Runs /\ log[r] \in Seq(Event)
      /\ log'[r] \in Seq(Event) /\ l \in Seq(Event) /\ batch \in Seq(Event)
      /\ GoodLog(log[r]) /\ GoodLog(log'[r])
  BY DEF LogInv, TypeInv, TypeOK, BusyOnRuns, AtBoundary, AppendBatch, Working, WorkerType
<1>2. ASSUME NEW k, Becomes(w, k) PROVE wk'[w] = k
  BY <1>1, <1>2 DEF Becomes
<1>3. \A a : Finishes(w, "park", a) => wk'[w].run = r /\ wk'[w].ask = a
  BY <1>1 DEF Finishes, Becomes, IdleWorker
<1>4. \A pc, a : Finishes(w, pc, a) => pc = "park"
  BY <1>1 DEF Finishes, Becomes, IdleWorker
<1>5. CASE AtBoundary(w)
  <2> DEFINE a == WaitingForMessage(l)
             k == [wk[w] EXCEPT !.pc = "hold", !.batch = Append(batch, Plain("RunCancelled"))]
  <2>1. Becomes(w, k) \/ Goes(w, "hold") \/ Goes(w, "decide") \/ (a # 0 /\ Finishes(w, "park", a))
    BY <1>5 DEF AtBoundary
  <2>2. k.pc = "hold" /\ (Goes(w, "hold") => wk'[w].pc = "hold")
                      /\ (Goes(w, "decide") => wk'[w].pc = "decide")
    BY <1>1 DEF WorkerType, Goes, Becomes
  <2>3. a # 0 /\ Finishes(w, "park", a)
    <3> HIDE DEF k
    <3> QED BY <1>2, <2>1, <2>2
  <2>4. wk[w].pc = "bound" /\ UNCHANGED log
    BY <1>5 DEF AtBoundary, Working
  <2>5. CopyOf(l, log[r]) /\ GoodLog(l)
    BY <1>1, <2>4 DEF WorkerFits
  <2>6. IsSent(l, a)
    <3>1. AskState(l, a) = "Open"
      BY <2>3, WaitsOnOpen
    <3> QED BY <1>1, <2>5, <3>1, AskStates DEF GoodLog
  <2>7. IsSent(log[r], a)
    <3>1. PICK i \in DOMAIN l : l[i].type \in AskTypes /\ l[i].ask = a
      BY <2>6 DEF IsSent
    <3>2. i \in DOMAIN log[r] /\ log[r][i] = l[i]
      BY <1>1, <2>5 DEF CopyOf
    <3> QED BY <3>1, <3>2 DEF IsSent
  <2>8. AskState(log[r], a) # "Unsent"
    BY <1>1, <2>7, AskStates DEF GoodLog
  <2> QED BY <1>3, <2>3, <2>4, <2>8
<1>6. CASE AppendBatch(w)
  <2> DEFINE result == AppendResult(log[r], Len(l))
             events == l \o batch
             a == WaitingForMessage(events)
             f == [wk[w] EXCEPT !.pc = "reload", !.batch = <<>>, !.events = <<>>,
                                !.reloads = wk[w].reloads + 1]
             g == [wk[w] EXCEPT !.pc = IF Has(batch, {"RunScheduled"})
                                       THEN "resume" ELSE "decide",
                                !.events = events, !.batch = <<>>]
  <2>1. g.pc \in {"resume", "decide"} /\ f.pc = "reload" /\ wk[w].pc = "append"
    BY <1>1, <1>6 DEF WorkerType, AppendBatch, Working
  <2>2. \/ Finishes(w, "ack", 0) \/ Finishes(w, "release", 0) \/ Becomes(w, f) \/ Becomes(w, g)
        \/ result = "Appended" /\ a # 0 /\ Finishes(w, "park", a)
    BY <1>6 DEF AppendBatch
  <2>3. result = "Appended" /\ a # 0 /\ Finishes(w, "park", a)
    <3> HIDE DEF f, g, result, a
    <3> QED BY <1>2, <1>4, <2>1, <2>2
  <2>4. CopyOf(l, log[r])
    BY <1>1, <2>1 DEF WorkerFits
  <2>5. log[r] = l
    <3>1. Len(l) = Len(log[r]) /\ \A i \in 1..Len(l) : log[r][i] = l[i]
      BY <1>1, <2>3, <2>4 DEF AppendResult, CopyOf
    <3> QED BY <1>1, <3>1, SeqEqual
  <2>6. log'[r] = events
    BY <1>1, <1>6, <2>3, <2>5 DEF AppendBatch, AppendEventsAfter, LogInv, TypeInv, TypeOK
  <2>7. AskState(log'[r], a) = "Open"
    BY <2>3, <2>6, WaitsOnOpen
  <2> QED BY <1>3, <2>3, <2>7
<1> QED BY <1>5, <1>6

LEMMA NextParkedOnSent ==
    ASSUME LogInv, LogInv', LogsGood, ParkedOnSent, [Next]_vars
    PROVE  ParkedOnSent'
<1>1. /\ log \in [Runs -> Seq(Event)] /\ log' \in [Runs -> Seq(Event)]
      /\ wk \in [Workers -> WorkerType] /\ queue' \in QueueType /\ TypeInv
  BY DEF LogInv, TypeInv, TypeOK
<1>2. \A r \in Runs : \A a : AskState(log[r], a) # "Unsent" => AskState(log'[r], a) # "Unsent"
  BY <1>1, GrownLog DEF LogsGood
<1>3. ASSUME NEW r \in Runs, queue'.parked[r] # 0
      PROVE  AskState(log'[r], queue'.parked[r]) # "Unsent"
  <2>1. PICK a : a = queue'.parked[r]
    OBVIOUS
  <2>2. a \in AskIds
    <3>1. a \in 0..MaxDecisions
      BY <1>1, <2>1, QueueFields
    <3> QED BY <1>3, <2>1, <3>1, MaxDecisionsAssumption DEF AskIds
  <2>3. CASE queue.parked[r] = a
    BY <1>2, <1>3, <2>1, <2>3 DEF ParkedOnSent
  <2>4. CASE queue.parked[r] # a
    <3>1. \E w \in Workers : wk[w].pc = "park" /\ wk[w].run = r /\ wk[w].ask = a
      BY <1>1, <2>1, <2>2, <2>4, NewlyParked
    <3> QED BY <1>2, <2>1, <3>1 DEF ParkedOnSent
  <2> QED BY <2>3, <2>4
<1>4. ASSUME NEW v \in Workers, wk'[v].pc = "park"
      PROVE  AskState(log'[wk'[v].run], wk'[v].ask) # "Unsent"
  <2>1. CASE wk'[v] = wk[v]
    <3>1. wk[v].run \in Runs
      BY <1>1, <1>4, <2>1 DEF TypeInv, BusyOnRuns
    <3> QED BY <1>2, <1>4, <2>1, <3>1 DEF ParkedOnSent
  <2>2. CASE wk'[v] # wk[v]
    <3>1. WorkerNext
      BY <2>2 DEF Next, ProducerNext, CourierNext, StopperNext, SweeperNext, noProducer, noCourier,
                  noStopper, noSweeper, vars
    <3>2. PICK w \in Workers : WorkerSteps(w) \/ WorkerFaults(w)
      BY <2>2, <3>1 DEF WorkerNext, AbandonedLeaseExpires, LiveLeaseExpires
    <3>3. UNCHANGED wk \/ \E k : Becomes(w, k)
      <4>1. CASE ParkRun(w) \/ Recheck(w) \/ RecheckStop(w) \/ WakeSelf(w)
        BY <4>1 DEF ParkRun, Recheck, RecheckStop, WakeSelf, Goes, Rests
      <4>2. CASE WorkerFaults(w)
        BY <4>2 DEF WorkerFaults, StartFails, Abandon, Rests
      <4>3. CASE /\ ~(ParkRun(w) \/ Recheck(w) \/ RecheckStop(w) \/ WakeSelf(w))
                 /\ WorkerSteps(w)
        BY <4>3 DEF WorkerSteps, ClaimRun, LoadRun, LoadFails, StartRun, FailExhausted, RunFrom,
                    Resume, NoDecider, AtBoundary, Decide, SendAsk, CheckLease, AppendBatch, Reload,
                    ReleaseRun, AckRun, Panics, Goes, Rests, Finishes
      <4> QED BY <3>2, <4>1, <4>2, <4>3
    <3>4. v = w
      BY <1>1, <2>2, <3>3 DEF Becomes
    <3>5. AtBoundary(w) \/ AppendBatch(w)
      BY <1>1, <1>4, <3>2, <3>4, WhoParks
    <3> QED BY <1>4, <3>4, <3>5, ParksOnSent
  <2> QED BY <2>1, <2>2
<1> QED BY <1>3, <1>4 DEF ParkedOnSent

(***************************************************************************)
(* Where runs ask only their users: stops wake                             *)
(***************************************************************************)
Restops(w, r, a) == wk[w].run = r /\ wk[w].ask = a /\ wk[w].pc = "restop"

Comes(r, a) == Waker(r, a) \/ StopperComes(r, a) \/ \E w \in Workers : Restops(w, r, a)

LEMMA StaysAnswered ==
    ASSUME NEW l \in Seq(Event), NEW m \in Seq(Event), GoodLog(l), GoodLog(m), Grows(l, m), NEW a,
           AskState(l, a) = "Answered"
    PROVE  AskState(m, a) = "Answered"
<1>1. IsAnswered(l, a)
  BY AskStates DEF GoodLog
<1>2. \A i \in DOMAIN l : i \in DOMAIN m /\ m[i] = l[i]
  BY DEF Grows
<1>3. IsAnswered(m, a)
  BY <1>1, <1>2 DEF IsAnswered
<1> QED BY <1>3, AskStates DEF GoodLog

\* A run that stays parked, open and under a stop is looked at by the same
\* thread, or by the one that took over from it.
LEMMA WorkerComes ==
    ASSUME TypeInv, WorkerNext, KeepsFaults, NEW r \in Runs, NEW a \in AskIds,
           queue'.parked[r] = a, r \in stops, log'[r] = log[r], Comes(r, a)
    PROVE  Comes(r, a)'
<1>1. /\ wk \in [Workers -> WorkerType] /\ queue \in QueueType /\ a # 0 /\ faults \in Nat
      /\ UNCHANGED <<dl, st>>
  BY MaxDecisionsAssumption DEF TypeInv, TypeOK, AskIds, WorkerNext, noWorker
<1>2. CASE UNCHANGED wk
  BY <1>1, <1>2 DEF Comes, Waker, StopperComes, Restops
<1>3. ASSUME NEW w \in Workers, NEW k, Becomes(w, k),
             wk[w].pc \notin {"recheck", "wake", "restop"} \/ wk[w].run # r \/ wk[w].ask # a
      PROVE  Comes(r, a)'
  <2>1. \A v \in Workers : v = w \/ wk'[v] = wk[v]
    BY <1>1, <1>3 DEF Becomes
  <2> QED BY <1>1, <1>3, <2>1 DEF Comes, Waker, StopperComes, Restops
<1>4. ASSUME NEW w \in Workers, WorkerSteps(w) \/ WorkerFaults(w)
      PROVE  Comes(r, a)'
  <2>1. wk[w] \in WorkerType /\ (wk[w].pc # "idle" => wk[w].run \in Runs)
    BY <1>1 DEF TypeInv, BusyOnRuns
  <2>2. CASE /\ KeepsParked /\ KeepsFaults /\ Elsewhere(w)
             /\ UNCHANGED wk \/ \E k : Becomes(w, k)
    BY <1>2, <1>3, <2>2 DEF Elsewhere
  <2>3. ~CountsFault
    BY <1>1 DEF KeepsFaults, CountsFault
  <2>4. CASE ParkRun(w)
    <3>1. wk[w].pc = "park" /\ \E k : Becomes(w, k)
      BY <2>4 DEF ParkRun, Working, Goes, Rests
    <3> QED BY <1>3, <3>1
  <2>5. CASE Recheck(w)
    <3>1. (\E k : Becomes(w, k)) /\ (Goes(w, "wake") \/ Goes(w, "restop"))
      BY <2>5 DEF Recheck, Goes
    <3>2. wk'[w].pc \in {"wake", "restop"} /\ wk'[w].run = wk[w].run /\ wk'[w].ask = wk[w].ask
      BY <1>1, <3>1 DEF Goes, Becomes, WorkerType
    <3> QED BY <1>3, <3>1, <3>2 DEF Comes, Waker, Restops
  <2>6. CASE RecheckStop(w)
    <3>1. /\ \E k : Becomes(w, k)
          /\ wk[w].run = r => Goes(w, "wake")
      <4>1. PICK found \in BOOLEAN : /\ Stopped(wk[w].run, found)
                                     /\ IF found THEN Goes(w, "wake") ELSE Rests(w)
        BY <2>6 DEF RecheckStop
      <4>2. wk[w].run = r => found
        BY <1>1, <4>1 DEF Stopped, Fault, KeepsFaults
      <4> QED BY <4>1, <4>2 DEF Goes, Rests
    <3>2. wk[w].run = r => wk'[w].pc = "wake" /\ wk'[w].run = wk[w].run /\ wk'[w].ask = wk[w].ask
      BY <1>1, <3>1 DEF Goes, Becomes, WorkerType
    <3> QED BY <1>3, <3>1, <3>2 DEF Comes, Waker
  <2>7. CASE WakeSelf(w)
    <3>1. /\ wk[w].pc = "wake" /\ queue' = Wake(queue, wk[w].run, wk[w].ask)
          /\ wk[w].run \in Runs /\ \E k : Becomes(w, k)
      BY <2>1, <2>7 DEF WakeSelf, Working, Rests
    <3>2. a = IF r = wk[w].run /\ queue.parked[wk[w].run] = wk[w].ask THEN 0 ELSE queue.parked[r]
      BY <1>1, <3>1, WakeParked
    <3>3. wk[w].run # r \/ wk[w].ask # a
      BY <1>1, <3>2
    <3> QED BY <1>3, <3>1, <3>3
  <2> QED BY <1>4, <2>2, <2>3, <2>4, <2>5, <2>6, <2>7, WorkerParks
<1>5. CASE \E s \in Runs : AbandonedLeaseExpires(s) \/ LiveLeaseExpires(s)
  BY <1>2, <1>5, LeaseParks
<1> QED BY <1>4, <1>5 DEF WorkerNext

LEMMA CourierComes ==
    ASSUME TypeInv, CourierNext, KeepsFaults, NEW r \in Runs, NEW a \in AskIds,
           queue'.parked[r] = a, log'[r] = log[r], Comes(r, a)
    PROVE  Comes(r, a)'
<1>1. /\ dl \in [Couriers -> CourierType] /\ queue \in QueueType /\ a # 0 /\ faults \in Nat
      /\ UNCHANGED <<wk, st>>
  BY MaxDecisionsAssumption DEF TypeInv, TypeOK, AskIds, CourierNext, noCourier
<1>2. PICK d \in Couriers : CourierStarts(d) \/ CourierCarries(d) \/ CourierFails(d)
  BY DEF CourierNext
<1>3. \E k : Carries(d, k)
  BY <1>2, CourierParks
<1>4. CASE ~Bringing(d, r, a)
  <2>1. \A c \in Couriers : c = d \/ dl'[c] = dl[c]
    BY <1>1, <1>3 DEF Carries
  <2> QED BY <1>1, <1>4, <2>1 DEF Comes, Waker, StopperComes, Restops, Bringing
<1>5. CASE Bringing(d, r, a)
  <2>1. CASE MarkAnswered(d)
    <3>1. dl'[d].pc = "wake" /\ dl'[d].run = dl[d].run /\ dl'[d].ask = dl[d].ask
      BY <1>1, <2>1 DEF MarkAnswered, Turns, Carries, CourierType
    <3> QED BY <1>5, <3>1 DEF Bringing, Comes, Waker
  <2>2. CASE WakeAsker(d)
    <3>1. queue' = Wake(queue, r, a)
      BY <1>5, <2>2 DEF WakeAsker, Bringing
    <3>2. a = IF queue.parked[r] = a THEN 0 ELSE queue.parked[r]
      BY <1>1, <3>1, WakeParked
    <3> QED BY <1>1, <3>2
  <2>3. ~CourierFails(d)
    BY <1>1 DEF CourierFails, Fault, KeepsFaults
  <2>4. MarkAnswered(d) \/ WakeAsker(d)
    BY <1>2, <1>5, <2>3
       DEF Bringing, CourierStarts, CourierCarries, SweepParked, UserAnswers, TaskAnswers, AskIsDue,
           LookAtParked, LookAtStop, DeliverRead, DeliverAppend, ReadQuestion, ReplyToQuestion,
           Carrying
  <2> QED BY <2>1, <2>2, <2>4
<1> QED BY <1>4, <1>5

LEMMA StopperArrives ==
    ASSUME TypeInv, StopperNext, KeepsFaults, NEW r \in Runs, NEW a \in AskIds,
           queue.parked[r] = a, log'[r] = log[r], ~Ended(log[r]), log[r] # <<>>, Comes(r, a)
    PROVE  Comes(r, a)'
<1>1. st \in StopperType /\ a # 0 /\ faults \in Nat /\ UNCHANGED <<wk, dl>>
      /\ log \in [Runs -> Seq(Event)]
  BY MaxDecisionsAssumption DEF TypeInv, TypeOK, AskIds, StopperNext, noStopper
<1>2. CASE ~StopperComes(r, a)
  BY <1>1, <1>2 DEF Comes, Waker, Restops
<1>3. CASE StopperComes(r, a)
  <2>1. st.run = r /\ st.pc \in {"parked", "read", "append"}
    BY <1>3 DEF StopperComes
  <2>2. CASE ReadParked
    <3>1. st'.pc = "read" /\ st'.ask = a /\ st'.run = r
      BY <1>1, <2>1, <2>2 DEF ReadParked, StopperType
    <3> QED BY <3>1 DEF Comes, StopperComes
  <2>3. CASE ReadRun
    <3>1. st.pc = "read" /\ st.ask = a
      BY <1>3, <2>3 DEF ReadRun, StopperComes
    <3>2. st' = [st EXCEPT !.pc = "append", !.seen = Len(log[r])]
      BY <1>1, <2>1, <2>3, <3>1 DEF ReadRun
    <3>3. st'.pc = "append" /\ st'.ask = a /\ st'.run = r /\ st'.seen = Len(log[r])
      BY <1>1, <2>1, <3>1, <3>2 DEF StopperType
    <3> QED BY <3>3 DEF Comes, StopperComes
  <2>4. ~CancelRun
    <3> SUFFICES ASSUME CancelRun PROVE FALSE
      OBVIOUS
    <3>1. st.seen = Len(log[r])
      BY <1>3 DEF StopperComes, CancelRun
    <3>2. AppendResult(log[r], st.seen) = "Appended"
      BY <3>1 DEF AppendResult
    <3>3. log'[r] = log[r] \o <<Plain("RunCancelled")>>
      BY <1>1, <2>1, <3>2 DEF CancelRun, AppendEventsAfter
    <3>4. Len(log[r] \o <<Plain("RunCancelled")>>) = Len(log[r]) + 1 /\ Len(log[r]) \in Nat
      BY <1>1, PlainIsNoAnswer
    <3> QED BY <3>3, <3>4
  <2>5. ~StopFails
    BY <1>1 DEF StopFails, Fault, KeepsFaults
  <2>6. ~WakeCancelled
    BY <2>1 DEF WakeCancelled
  <2>7. ASSUME NEW s \in Runs PROVE ~PutStop(s)
    BY <2>1 DEF PutStop
  <2> QED BY <2>2, <2>3, <2>4, <2>5, <2>6, <2>7 DEF StopperNext, StopperSteps
<1> QED BY <1>2, <1>3

LEMMA NextStopsWake ==
    ASSUME QuestionInv, LogInv', LogsGood, [Next]_vars, AnsweredAreWoken', ParkedOnSent',
           "MessageSent" \notin AskKinds
    PROVE  StoppedAreWoken'
<1>1. LogInv /\ TypeInv /\ OnlyQuestions /\ ParkedOnSent /\ StoppedAreWoken
  BY DEF QuestionInv, WakeInv, LogInv
<1>2. /\ queue \in QueueType /\ queue' \in QueueType /\ faults \in Nat
      /\ log \in [Runs -> Seq(Event)] /\ log' \in [Runs -> Seq(Event)]
      /\ \A r \in Runs : GoodLog(log[r]) /\ GoodLog(log'[r])
  BY <1>1 DEF LogInv, TypeInv, TypeOK
<1> SUFFICES ASSUME NEW r \in Runs, NEW a, a = queue'.parked[r], a # 0, faults' = 0, r \in stops',
                    ~Ended(log'[r])
             PROVE  Comes(r, a)'
  BY DEF StoppedAreWoken, Comes, Waker, StopperComes, Restops
<1>3. a \in AskIds
  <2>1. a \in 0..MaxDecisions
    BY <1>2, QueueFields
  <2> QED BY <2>1, MaxDecisionsAssumption DEF AskIds
<1>4. CASE AskState(log'[r], a) = "Answered"
  BY <1>4 DEF AnsweredAreWoken, Comes, Waker
<1>5. CASE queue.parked[r] # a
  <2>1. Waker(r, a)'
    BY <1>1, <1>3, <1>5, NewlyParked
  <2> QED BY <2>1 DEF Comes, Waker
<1>6. CASE AskState(log'[r], a) # "Answered" /\ queue.parked[r] = a
  <2>1. KeepsFaults /\ faults = 0
    <3>1. KeepsFaults \/ CountsFault
      <4>1. CASE WorkerNext
        <5>1. ASSUME NEW w \in Workers, WorkerSteps(w) \/ WorkerFaults(w)
              PROVE  KeepsFaults \/ CountsFault
          <6>1. ParkRun(w) \/ Recheck(w) \/ RecheckStop(w) \/ WakeSelf(w) => KeepsFaults \/ CountsFault
            BY DEF ParkRun, Recheck, RecheckStop, WakeSelf, Stopped, Fault, KeepsFaults, CountsFault,
                   shared
          <6> QED BY <1>1, <5>1, <6>1, WorkerParks
        <5> QED BY <1>1, <4>1, <5>1, LeaseParks DEF WorkerNext
      <4>2. CASE CourierNext
        BY <1>1, <4>2, CourierParks DEF CourierNext
      <4> QED BY <1>1, <4>1, <4>2, ProducerParks, StopperParks, SweeperParks
              DEF Next, vars, shared, KeepsFaults
    <3> QED BY <1>2, <3>1 DEF KeepsFaults, CountsFault
  <2>2. Moves(log[r], log'[r]) /\ Grows(log[r], log'[r])
    BY <1>1, NextMoves DEF LogsMove, LogsGood
  <2>3. AskState(log[r], a) = "Open"
    <3>1. AskState(log[r], a) # "Unsent"
      BY <1>1, <1>6 DEF ParkedOnSent
    <3>2. AskState(log[r], a) # "Answered"
      BY <1>2, <1>6, <2>2, StaysAnswered
    <3> QED BY <3>1, <3>2 DEF AskState
  <2>4. log'[r] = log[r]
    BY <1>2, <1>3, <1>6, <2>2, <2>3, WaitingLogStands
  <2>5. ~Ended(log[r]) /\ log[r] # <<>>
    BY <2>3, <2>4 DEF AskState
  <2>6. CASE r \notin stops
    <3>1. PutStop(r)
      <4>1. StopperNext
        BY <2>6 DEF Next, ProducerNext, ProducerSteps, ProducerFaults, PendRun, PutStored, PutFails,
                PutCommitsLate, PushRun, PushFails, EndRun, ReadExisting, CheckQueued,
                UnpendExisting, ProducerDies, PendingForgotten,
                WorkerNext, WorkerSteps, WorkerFaults, ClaimRun, LoadRun, LoadFails, StartRun,
                RunFrom, Resume, NoDecider, AtBoundary, Decide, SendAsk, CheckLease, Reload, ParkRun,
                Recheck, RecheckStop, WakeSelf, ReleaseRun, AckRun, Panics, StartFails, Abandon,
                FailExhausted, AppendBatch, AbandonedLeaseExpires, LiveLeaseExpires,
                CourierNext, CourierStarts, CourierCarries, CourierFails, SweepParked, MarkAnswered,
                UserAnswers, TaskAnswers, AskIsDue, LookAtParked, LookAtStop, DeliverRead,
                DeliverAppend, WakeAsker, ReadQuestion, ReplyToQuestion,
                SweeperNext, SweeperSteps, ReapExpired, ListPending, LoadPending,
                PushPending, UnpendPending, SweepFails, shared, vars
      <4>2. \E s \in Runs : PutStop(s)
        BY <2>6, <4>1 DEF StopperNext, StopperSteps, ReadParked, ReadRun, CancelRun, WakeCancelled,
                          StopFails, shared
      <4> QED BY <2>6, <4>2 DEF PutStop
    <3>2. st'.pc = "parked" /\ st'.run = r
      BY <3>1 DEF PutStop, IdleStopper
    <3> QED BY <3>2 DEF Comes, StopperComes
  <2>7. CASE r \in stops
    <3>1. Comes(r, a)
      BY <1>1, <1>6, <2>1, <2>5, <2>7 DEF StoppedAreWoken, Comes, Restops
    <3>2. CASE WorkerNext
      BY <1>1, <1>3, <2>1, <2>4, <2>7, <3>1, <3>2, WorkerComes
    <3>3. CASE CourierNext
      BY <1>1, <1>3, <2>1, <2>4, <3>1, <3>3, CourierComes
    <3>4. CASE StopperNext
      BY <1>1, <1>3, <1>6, <2>1, <2>4, <2>5, <3>1, <3>4, StopperArrives
    <3>5. CASE ProducerNext \/ SweeperNext \/ UNCHANGED vars
      <4>1. UNCHANGED <<wk, dl, st>>
        BY <3>5 DEF ProducerNext, SweeperNext, noProducer, noSweeper, vars
      <4> QED BY <2>4, <3>1, <4>1 DEF Comes, Waker, StopperComes, Restops
    <3> QED BY <3>2, <3>3, <3>4, <3>5 DEF Next
  <2> QED BY <2>6, <2>7
<1> QED BY <1>4, <1>5, <1>6

LEMMA NextQuestions ==
    ASSUME QuestionInv, [Next]_vars, "MessageSent" \notin AskKinds
    PROVE  QuestionInv'
<1>1. WakeInv /\ LogInv /\ OnlyQuestions /\ AnswerOnlyWhileOpen /\ ParkedOnSent /\ StoppedAreWoken
  BY DEF QuestionInv, WakeInv
<1>2. LogInv' /\ LogsGood
  BY <1>1, NextLogs
<1>3. WakeInv' /\ AnsweredAreWoken'
  BY <1>1, NextWakes DEF WakeInv
<1>4. OnlyQuestions' /\ AnswerOnlyWhileOpen'
  BY <1>1, <1>2, NextOnlyQuestions
<1>5. ParkedOnSent'
  BY <1>1, <1>2, NextParkedOnSent
<1>6. StoppedAreWoken'
  BY <1>2, <1>3, <1>5, NextStopsWake
<1> QED BY <1>3, <1>4, <1>5, <1>6 DEF QuestionInv

LEMMA InitQuestions == Init => QuestionInv
<1> SUFFICES ASSUME Init PROVE QuestionInv
  OBVIOUS
<1>1. /\ \A r \in Runs : queue.parked[r] = 0 /\ log[r] = <<>>
      /\ \A r \in Runs : \A a \in AskIds : rows[r][a] = "none"
  BY DEF Init, SharedInit, EmptyQueue
<1>2. \A w \in Workers : wk[w].pc = "idle" /\ wk[w].batch = <<>>
  BY DEF Init, WorkerInit, IdleWorker
<1>3. \A d \in Couriers : dl[d].pc = "idle"
  BY DEF Init, CourierInit, IdleCourier
<1>4. \A types : ~Has(<<>>, types)
  BY DEF Has
<1>5. OnlyQuestions
  BY <1>1, <1>2, <1>3, <1>4 DEF OnlyQuestions
<1>6. AnswerOnlyWhileOpen
  BY <1>1 DEF AnswerOnlyWhileOpen
<1>7. ParkedOnSent /\ StoppedAreWoken
  BY <1>1, <1>2 DEF ParkedOnSent, StoppedAreWoken
<1> QED BY <1>5, <1>6, <1>7, InitWakes DEF QuestionInv

\* Where runs ask their users and no other agents, no wakeup is lost and every
\* question is answered at most once, whatever the stops, the users' retries and
\* the workers do (worker.rs Done::ack, http.rs stop and answer_question).
THEOREM QuestionsAreSafe ==
    "MessageSent" \notin AskKinds => (Spec => []NoLostWakeup /\ []AnswerOnlyWhileOpen)
<1> SUFFICES ASSUME "MessageSent" \notin AskKinds
             PROVE  Spec => []NoLostWakeup /\ []AnswerOnlyWhileOpen
  OBVIOUS
<1>1. QuestionInv /\ [Next]_vars => QuestionInv'
  BY NextQuestions
<1>2. QuestionInv => AnswerOnlyWhileOpen
  BY DEF QuestionInv
<1>3. QuestionInv => NoLostWakeup
  <2> SUFFICES ASSUME QuestionInv PROVE AnswersWake /\ StopsWake
    BY DEF NoLostWakeup
  <2>1. AnswersWake
    BY DEF QuestionInv, WakeInv, AnsweredAreWoken, AnswersWake, Waker, WillWake
  <2>2. StopsWake
    BY DEF QuestionInv, StoppedAreWoken, StopsWake, Waker, StopperComes, WillWake
  <2> QED BY <2>1, <2>2
<1> QED BY <1>1, <1>2, <1>3, InitQuestions, PTL DEF Spec

(***************************************************************************)
(* Starts.  A run's starts are counted by START and forgotten by PARK and  *)
(* ACK, so a wait uses none up as long as the worker that reads the log of *)
(* a run, however often couriers move it, still gets to park it.           *)
(***************************************************************************)
\* A worker at work on a claimed run, whose lease it should have ...
Claimed(k) == k.pc \notin {"idle", "recheck", "restop", "wake"}

\* ... or whose start is counted, and not forgotten yet.
Counted(k) == k.pc \in {"exhausted", "run", "resume", "bound", "decide", "send", "hold",
                        "append", "reload", "park", "ack"}

\* One that has a log in hand, which Moved may send it to read again.
Reading(k) == k.pc \in {"start", "run", "resume", "bound", "decide", "send", "hold", "append"}

Underway(r) == \E w \in Workers : wk[w].run = r /\ Counted(wk[w])

LeasesHeld ==
    /\ \A w \in Workers : Claimed(wk[w]) => queue.lease[wk[w].run] = w
    /\ \A w \in Workers : wk[w].pc # "release"

\* Every counted start but that of the worker under way ended in a fault.
StartsCounted ==
    /\ \A r \in Runs : queue.deliveries[r] <= faults + (IF Underway(r) THEN 1 ELSE 0)
    /\ \A w \in Workers : wk[w].pc = "exhausted" => faults >= MaxDeliveries

\* The couriers that will add an answer to a log in which its ask is answered.
Stale(r) == {d \in Couriers : /\ dl[d].pc = "append" /\ dl[d].run = r
                              /\ AskState(log[r], dl[d].ask) # "Open"}

\* How often couriers may yet move the log of r, asks not yet sent aside.
MovesLeft(r) == Cardinality(Stale(r)) + (IF NoneOpen(log[r]) THEN 0 ELSE Cardinality(Couriers))

\* Whether worker k's copy of log l is behind it.
Behind(k, l) == IF Reading(k) /\ Len(k.events) # Len(l) THEN 1 ELSE 0

\* A user's answer is to an ask that is open in the log it was read from.
RepliesFit ==
    \A d \in Couriers : dl[d].pc = "reply" =>
        /\ dl[d].seen <= Len(log[dl[d].run])
        /\ dl[d].seen = Len(log[dl[d].run]) => AskState(log[dl[d].run], dl[d].ask) = "Open"

\* The courier that answered an ask is not one of those it made stale.
StaleFew == \A r \in Runs : Cardinality(Stale(r)) + 1 <= Cardinality(Couriers) \/ Stale(r) = {}

\* A worker has the reloads left that the log it reads may ask of it.
ReloadsLeft(k) ==
    /\ k.pc = "load" => k.reloads = 0
    /\ (Reading(k) \/ k.pc = "reload") /\ ~Ended(log[k.run])
          => k.reloads + Behind(k, log[k.run]) + MovesLeft(k.run) <= Reloads

StartInv ==
    /\ LogInv
    /\ expiries = 0 => /\ LeasesHeld /\ StartsCounted
                       /\ RepliesFit /\ StaleFew
                       /\ \A w \in Workers : ReloadsLeft(wk[w])

\* The couriers there may be for the reloads of a worker (worker.rs RELOADS is
\* enough for two).
CouriersFit == IsFiniteSet(Couriers) /\ 2 * Cardinality(Couriers) <= Reloads + 1

(***************************************************************************)
(* Leases and start counts, script by script                               *)
(***************************************************************************)
LEMMA SameClaims ==
    ASSUME NEW q \in QueueType, NEW r \in Runs
    PROVE  /\ Pend(q, r).lease = q.lease /\ Pend(q, r).deliveries = q.deliveries
           /\ Unpend(q, r).lease = q.lease /\ Unpend(q, r).deliveries = q.deliveries
           /\ Push(q, r).lease = q.lease /\ Push(q, r).deliveries = q.deliveries
           /\ PendingAges(q, r).lease = q.lease /\ PendingAges(q, r).deliveries = q.deliveries
           /\ \A a : Wake(q, r, a).lease = q.lease /\ Wake(q, r, a).deliveries = q.deliveries
BY DEF QueueType, Pend, Unpend, Push, PendingAges, Wake

LEMMA TokenClaims ==
    ASSUME NEW q \in QueueType, NEW r \in Runs, NEW w \in Workers, NEW s \in Runs
    PROVE  /\ Start(q, r).lease[s] = q.lease[s]
           /\ Start(q, r).deliveries[s] = IF s = r THEN q.deliveries[s] + 1 ELSE q.deliveries[s]
           /\ \A p \in {Release(q, r, w), Ack(q, r, w)} \cup {Park(q, r, w, a) : a \in 0..MaxDecisions} :
                p.lease[s] = IF s = r /\ q.lease[s] = w THEN NoLease ELSE q.lease[s]
           /\ Release(q, r, w).deliveries[s] = q.deliveries[s]
           /\ Ack(q, r, w).deliveries[s] = IF s = r THEN 0 ELSE q.deliveries[s]
           /\ \A a \in 0..MaxDecisions :
                Park(q, r, w, a).deliveries[s] =
                    IF s = r /\ q.lease[s] = w THEN 0 ELSE q.deliveries[s]
           /\ LeaseExpires(q, r).lease[s] = IF s = r THEN NoLease ELSE q.lease[s]
           /\ LeaseExpires(q, r).deliveries[s] = q.deliveries[s]
<1>1. q.deliveries \in [Runs -> Nat] /\ q.lease \in [Runs -> Workers \cup {NoLease}]
  BY QueueFields
<1>2. /\ Start(q, r).lease = q.lease
      /\ Start(q, r).deliveries = [q.deliveries EXCEPT ![r] = q.deliveries[r] + 1]
      /\ LeaseExpires(q, r).lease = [q.lease EXCEPT ![r] = NoLease]
      /\ LeaseExpires(q, r).deliveries = q.deliveries
  BY DEF QueueType, Start, LeaseExpires
<1>3. /\ q.lease[r] = w => Release(q, r, w).lease = [q.lease EXCEPT ![r] = NoLease]
      /\ q.lease[r] # w => Release(q, r, w).lease = q.lease
      /\ Release(q, r, w).deliveries = q.deliveries
  BY DEF QueueType, Release
<1>4. /\ Ack(q, r, w).lease = [q.lease EXCEPT ![r] = IF q.lease[r] = w THEN NoLease ELSE q.lease[r]]
      /\ Ack(q, r, w).deliveries = [q.deliveries EXCEPT ![r] = 0]
  BY DEF QueueType, Ack
<1>5. ASSUME NEW a \in 0..MaxDecisions
      PROVE  /\ q.lease[r] = w => /\ Park(q, r, w, a).lease = [q.lease EXCEPT ![r] = NoLease]
                                  /\ Park(q, r, w, a).deliveries = [q.deliveries EXCEPT ![r] = 0]
             /\ q.lease[r] # w => Park(q, r, w, a) = q
  BY DEF QueueType, Park
<1>6. /\ Release(q, r, w).lease[s] = IF s = r /\ q.lease[s] = w THEN NoLease ELSE q.lease[s]
      /\ Ack(q, r, w).lease[s] = IF s = r /\ q.lease[s] = w THEN NoLease ELSE q.lease[s]
  BY <1>1, <1>3, <1>4
<1>7. ASSUME NEW a \in 0..MaxDecisions
      PROVE  /\ Park(q, r, w, a).lease[s] = IF s = r /\ q.lease[s] = w THEN NoLease ELSE q.lease[s]
             /\ Park(q, r, w, a).deliveries[s] =
                    IF s = r /\ q.lease[s] = w THEN 0 ELSE q.deliveries[s]
  BY <1>1, <1>5
<1> QED BY <1>1, <1>2, <1>3, <1>4, <1>6, <1>7

LEMMA ClaimClaims ==
    ASSUME NEW q \in QueueType, NEW w \in Workers, q.runs # <<>>, NEW s \in Runs
    PROVE  /\ Claim(q, w).lease[s] = IF s = Head(q.runs) /\ q.lease[s] = NoLease
                                     THEN w ELSE q.lease[s]
           /\ Claim(q, w).deliveries = q.deliveries
<1>1. Head(q.runs) \in Runs /\ q.lease \in [Runs -> Workers \cup {NoLease}]
  BY QueueFields
<1>2. /\ q.lease[Head(q.runs)] = NoLease => Claim(q, w).lease = [q.lease EXCEPT ![Head(q.runs)] = w]
      /\ q.lease[Head(q.runs)] # NoLease => Claim(q, w).lease = q.lease
      /\ Claim(q, w).deliveries = q.deliveries
  BY DEF QueueType, Claim
<1> QED BY <1>1, <1>2

(***************************************************************************)
(* Leases and starts, step by step                                         *)
(***************************************************************************)
\* A run has at most one worker that claimed it.
LEMMA OneClaims ==
    ASSUME LeasesHeld, NEW v \in Workers, NEW w \in Workers,
           Claimed(wk[v]), Claimed(wk[w]), wk[v].run = wk[w].run
    PROVE  v = w
BY DEF LeasesHeld

\* A step of a thread that is no worker.
LEMMA StandingStarts ==
    ASSUME TypeInv, LeasesHeld, StartsCounted, UNCHANGED wk,
           queue'.lease = queue.lease, queue'.deliveries = queue.deliveries,
           faults' = faults \/ faults' = faults + 1
    PROVE  LeasesHeld' /\ StartsCounted'
<1>1. LeasesHeld'
  BY DEF LeasesHeld
<1>2. faults \in Nat /\ MaxDeliveries \in Nat /\ queue.deliveries \in [Runs -> Nat]
  BY WorkerAssumption DEF TypeInv, TypeOK, QueueType
<1>3. ASSUME NEW r \in Runs
      PROVE  queue'.deliveries[r] <= faults' + (IF Underway(r)' THEN 1 ELSE 0)
  <2>1. Underway(r)' <=> Underway(r)
    BY DEF Underway
  <2>2. queue.deliveries[r] <= faults + (IF Underway(r) THEN 1 ELSE 0) /\ queue.deliveries[r] \in Nat
    BY <1>2 DEF StartsCounted
  <2> QED BY <1>2, <2>1, <2>2
<1>4. \A w \in Workers : wk'[w].pc = "exhausted" => faults' >= MaxDeliveries
  BY <1>2 DEF StartsCounted
<1> QED BY <1>1, <1>3, <1>4 DEF StartsCounted

\* What a step of worker w owes the leases ...
LEMMA LeasesKept ==
    ASSUME TypeInv, LeasesHeld, NEW w \in Workers, \A v \in Workers \ {w} : wk'[v] = wk[v],
           \A s \in Runs : queue'.lease[s] = queue.lease[s] \/ queue.lease[s] \in {NoLease, w},
           wk'[w].pc # "release",
           Claimed(wk'[w]) => queue'.lease[wk'[w].run] = w
    PROVE  LeasesHeld'
<1>1. ASSUME NEW v \in Workers, v # w, Claimed(wk[v]) PROVE queue'.lease[wk[v].run] = v
  <2>1. queue.lease[wk[v].run] = v /\ wk[v].run \in Runs
    BY <1>1 DEF LeasesHeld, Claimed, TypeInv, BusyOnRuns
  <2> QED BY <1>1, <2>1, QueueAssumption
<1>2. \A v \in Workers : Claimed(wk'[v]) => queue'.lease[wk'[v].run] = v
  BY <1>1
<1> QED BY <1>2 DEF LeasesHeld

\* ... and the starts counted: its own run's.
LEMMA CountsKept ==
    ASSUME TypeInv, StartsCounted, NEW w \in Workers, \A v \in Workers \ {w} : wk'[v] = wk[v],
           faults' = faults \/ faults' = faults + 1,
           \A s \in Runs :
              \/ queue'.deliveries[s] = queue.deliveries[s] /\ (Counted(wk[w]) => s # wk[w].run)
              \/ queue'.deliveries[s] <= faults' + (IF Underway(s)' THEN 1 ELSE 0),
           wk'[w].pc = "exhausted" => faults' >= MaxDeliveries
    PROVE  StartsCounted'
<1>2. faults \in Nat /\ MaxDeliveries \in Nat /\ queue.deliveries \in [Runs -> Nat]
  BY WorkerAssumption DEF TypeInv, TypeOK, QueueType
<1>3. ASSUME NEW s \in Runs, queue'.deliveries[s] = queue.deliveries[s],
             Counted(wk[w]) => s # wk[w].run
      PROVE  queue'.deliveries[s] <= faults' + (IF Underway(s)' THEN 1 ELSE 0)
  <2>1. Underway(s) => Underway(s)'
    BY <1>3 DEF Underway
  <2>2. queue.deliveries[s] <= faults + (IF Underway(s) THEN 1 ELSE 0) /\ queue.deliveries[s] \in Nat
    BY <1>2 DEF StartsCounted
  <2> QED BY <1>2, <1>3, <2>1, <2>2
<1>4. \A v \in Workers : wk'[v].pc = "exhausted" => faults' >= MaxDeliveries
  BY <1>2 DEF StartsCounted
<1> QED BY <1>3, <1>4 DEF StartsCounted

\* A worker under way that goes on under way.
LEMMA ProceedingStarts ==
    ASSUME TypeInv, LeasesHeld, StartsCounted, NEW w \in Workers, NEW k, Becomes(w, k),
           UNCHANGED queue, faults' = faults \/ faults' = faults + 1,
           Counted(wk[w]), Counted(k), k.run = wk[w].run, k.pc # "exhausted"
    PROVE  LeasesHeld' /\ StartsCounted'
<1>1. wk'[w] = k /\ \A v \in Workers \ {w} : wk'[v] = wk[v]
  BY WorkerFields
<1>2. Claimed(wk[w]) /\ Claimed(k) /\ k.pc # "release" /\ wk[w].run \in Runs
  BY DEF Counted, Claimed, TypeInv, BusyOnRuns
<1>3. queue.lease[wk[w].run] = w
  BY <1>2 DEF LeasesHeld
<1>4. LeasesHeld'
  BY <1>1, <1>2, <1>3, LeasesKept
<1>5. faults \in Nat /\ queue.deliveries \in [Runs -> Nat]
  BY DEF TypeInv, TypeOK, QueueType
<1>6. queue'.deliveries[wk[w].run] <= faults' + (IF Underway(wk[w].run)' THEN 1 ELSE 0)
  <2>1. Underway(wk[w].run)' /\ Underway(wk[w].run)
    BY <1>1 DEF Underway
  <2>2. queue.deliveries[wk[w].run] <= faults + 1 /\ queue.deliveries[wk[w].run] \in Nat
    BY <1>2, <1>5, <2>1 DEF StartsCounted
  <2> QED BY <1>5, <2>1, <2>2
<1>7. StartsCounted'
  BY <1>1, <1>6, CountsKept
<1> QED BY <1>4, <1>7

\* A worker whose start is not counted, and that leaves the counts alone.
LEMMA UncountedStarts ==
    ASSUME TypeInv, LeasesHeld, StartsCounted, NEW w \in Workers, NEW k, Becomes(w, k),
           ~Counted(wk[w]), k.pc # "release", k.pc # "exhausted",
           faults' = faults \/ faults' = faults + 1,
           \A s \in Runs : queue'.deliveries[s] = queue.deliveries[s],
           \A s \in Runs : queue'.lease[s] = queue.lease[s] \/ queue.lease[s] \in {NoLease, w},
           Claimed(k) => queue'.lease[k.run] = w
    PROVE  LeasesHeld' /\ StartsCounted'
<1>1. wk'[w] = k /\ \A v \in Workers \ {w} : wk'[v] = wk[v]
  BY WorkerFields
<1>2. LeasesHeld'
  BY <1>1, LeasesKept
<1>3. StartsCounted'
  BY <1>1, CountsKept
<1> QED BY <1>2, <1>3

\* A lease that is held is found held.
LEMMA HeldIsFound ==
    ASSUME TypeInv, LeasesHeld, NEW w \in Workers, Claimed(wk[w]), NEW held, Holds(w, held)
    PROVE  held /\ UNCHANGED faults
BY DEF LeasesHeld, Holds, Renew

LEMMA ClaimStarts ==
    ASSUME TypeInv, LeasesHeld, StartsCounted, NEW w \in Workers, ClaimRun(w)
    PROVE  LeasesHeld' /\ StartsCounted'
<1> DEFINE r == Head(queue.runs)
           k == [IdleWorker EXCEPT !.pc = "load", !.run = r]
<1>1. queue \in QueueType /\ r \in Runs /\ queue.runs # <<>> /\ queue' = Claim(queue, w)
  <2>1. queue \in QueueType /\ queue.runs # <<>> /\ queue' = Claim(queue, w)
    BY DEF ClaimRun, TypeInv, TypeOK
  <2> QED BY <2>1, ClaimType
<1>2. /\ UNCHANGED faults /\ ~Counted(wk[w]) /\ ~Claimed(wk[w])
      /\ k.pc = "load" /\ k.run = r
  BY DEF ClaimRun, Working, Counted, Claimed, IdleWorker
<1>3. /\ \A s \in Runs : queue'.deliveries[s] = queue.deliveries[s]
      /\ \A s \in Runs : queue'.lease[s] = queue.lease[s] \/ queue.lease[s] = NoLease
      /\ queue.lease[r] = NoLease => queue'.lease[r] = w
  BY <1>1, ClaimClaims
<1>4. CASE queue.lease[r] = NoLease
  <2>1. Becomes(w, k)
    BY <1>4 DEF ClaimRun
  <2> HIDE DEF k, r
  <2> QED BY <1>2, <1>3, <1>4, <2>1, UncountedStarts
<1>5. CASE queue.lease[r] # NoLease
  <2>1. UNCHANGED wk
    BY <1>5 DEF ClaimRun
  <2>2. UNCHANGED queue.lease /\ UNCHANGED queue.deliveries
    BY <1>1, <1>5 DEF Claim, QueueType
  <2> QED BY <1>2, <2>1, <2>2, StandingStarts
<1> QED BY <1>4, <1>5

\* Queue, count and claim stay with a worker that loads its run, or looks at
\* one it parked.
LEMMA LoadStarts ==
    ASSUME TypeInv, LeasesHeld, StartsCounted, NEW w \in Workers,
           LoadRun(w) \/ Recheck(w) \/ RecheckStop(w)
    PROVE  LeasesHeld' /\ StartsCounted'
<1>1. wk[w] \in WorkerType
  BY DEF TypeInv, TypeOK
<1>2. UNCHANGED queue /\ ~Counted(wk[w]) /\ (faults' = faults \/ faults' = faults + 1)
  BY DEF LoadRun, Recheck, RecheckStop, Working, Counted, shared, Stopped, Fault
<1>3. CASE LoadRun(w)
  <2> DEFINE j == [wk[w] EXCEPT !.pc = "start", !.events = log[wk[w].run]]
             k == [IdleWorker EXCEPT !.pc = "ack", !.run = wk[w].run, !.ask = 0]
  <2>1. Becomes(w, j) \/ Becomes(w, k)
    BY <1>3 DEF LoadRun, Finishes
  <2>2. j.pc = "start" /\ j.run = wk[w].run /\ k.pc = "ack" /\ k.run = wk[w].run
    BY <1>1 DEF WorkerType, IdleWorker
  <2>3. queue.lease[wk[w].run] = w
    BY <1>3 DEF LoadRun, Working, LeasesHeld, Claimed
  <2> HIDE DEF j, k
  <2> QED BY <1>2, <2>1, <2>2, <2>3, UncountedStarts
<1>4. CASE Recheck(w) \/ RecheckStop(w)
  <2>1. \E k : Becomes(w, k) /\ k.pc \in {"idle", "wake", "restop"}
    <3>1. IdleWorker.pc = "idle" /\ \A pc : [wk[w] EXCEPT !.pc = pc].pc = pc
      BY <1>1 DEF WorkerType, IdleWorker
    <3> QED BY <1>4, <3>1 DEF Recheck, RecheckStop, Goes, Rests
  <2> QED BY <1>2, <2>1, UncountedStarts DEF Claimed
<1> QED BY <1>3, <1>4

\* START, counted by a worker that has the run to itself.
LEMMA StartStarts ==
    ASSUME TypeInv, LeasesHeld, StartsCounted, NEW w \in Workers, StartRun(w) \/ StartFails(w)
    PROVE  LeasesHeld' /\ StartsCounted'
<1>0. PICK r \in Runs : r = wk[w].run
  BY DEF StartRun, StartFails, Working, TypeInv, BusyOnRuns
<1>1. /\ queue \in QueueType /\ wk[w] \in WorkerType /\ wk[w].pc = "start"
      /\ faults \in Nat /\ MaxDeliveries \in Nat /\ queue.deliveries \in [Runs -> Nat]
  BY WorkerAssumption
     DEF StartRun, StartFails, Working, TypeInv, TypeOK, QueueType
<1>2. Claimed(wk[w]) /\ ~Counted(wk[w]) /\ queue.lease[r] = w
  BY <1>0, <1>1 DEF Claimed, Counted, LeasesHeld
<1>3. ~Underway(r)
  <2> SUFFICES ASSUME NEW v \in Workers, wk[v].run = r, Counted(wk[v]) PROVE FALSE
    BY DEF Underway
  <2>1. Claimed(wk[v])
    BY DEF Claimed, Counted
  <2> QED BY <1>2, <2>1, <1>0, OneClaims
<1>4. queue.deliveries[r] <= faults /\ queue.deliveries[r] \in Nat
  BY <1>1, <1>3 DEF StartsCounted
<1>5. CASE StartRun(w)
  <2> DEFINE j == [IdleWorker EXCEPT !.pc = "exhausted", !.run = r, !.ask = 0]
             k == [wk[w] EXCEPT !.pc = "run"]
  <2>1. queue' = Start(queue, r) /\ UNCHANGED faults
    BY <1>0, <1>5 DEF StartRun
  <2>2. /\ \A s \in Runs : queue'.lease[s] = queue.lease[s]
        /\ \A s \in Runs : s # r => queue'.deliveries[s] = queue.deliveries[s]
        /\ queue'.deliveries[r] = queue.deliveries[r] + 1
    BY <1>1, <2>1, TokenClaims
  <2>3. IF queue'.deliveries[r] > MaxDeliveries THEN Becomes(w, j) ELSE Becomes(w, k)
    BY <1>0, <1>5, <2>1 DEF StartRun, Finishes, Goes
  <2>4. j.pc = "exhausted" /\ j.run = r /\ k.pc = "run" /\ k.run = r
    BY <1>0, <1>1 DEF WorkerType, IdleWorker
  <2> HIDE DEF j, k
  <2>5. /\ \A v \in Workers \ {w} : wk'[v] = wk[v]
        /\ wk'[w].run = r /\ wk'[w].pc \in {"exhausted", "run"}
        /\ wk'[w].pc = "exhausted" => queue'.deliveries[r] > MaxDeliveries
    BY <2>3, <2>4, WorkerFields
  <2>6. wk'[w].pc = "exhausted" => faults' >= MaxDeliveries
    BY <1>1, <1>4, <2>1, <2>2, <2>5
  <2>7. LeasesHeld'
    BY <1>2, <2>2, <2>5, LeasesKept
  <2>8. Underway(r)'
    BY <2>5 DEF Underway, Counted
  <2>9. queue'.deliveries[r] <= faults' + (IF Underway(r)' THEN 1 ELSE 0)
    BY <1>1, <1>4, <2>1, <2>2, <2>8
  <2>10. StartsCounted'
    BY <1>2, <2>1, <2>2, <2>5, <2>6, <2>9, CountsKept
  <2> QED BY <2>7, <2>10
<1>6. CASE StartFails(w)
  <2>1. PICK counted \in {queue, Start(queue, r)} : queue' = Release(counted, r, w)
    BY <1>0, <1>6 DEF StartFails
  <2>2. faults' = faults + 1 /\ Rests(w)
    BY <1>6 DEF StartFails, Fault
  <2>3. counted \in QueueType
    BY <1>1, <2>1, ScriptTypes
  <2>4. ASSUME NEW s \in Runs
        PROVE  /\ queue'.lease[s] = IF s = r /\ queue.lease[s] = w THEN NoLease ELSE queue.lease[s]
               /\ s # r => queue'.deliveries[s] = queue.deliveries[s]
               /\ s = r => queue'.deliveries[s] \in {queue.deliveries[s], queue.deliveries[s] + 1}
    <3>1. /\ queue'.lease[s] = IF s = r /\ counted.lease[s] = w THEN NoLease ELSE counted.lease[s]
          /\ queue'.deliveries[s] = counted.deliveries[s]
      BY <1>1, <2>1, <2>3, TokenClaims
    <3>2. counted.lease[s] = queue.lease[s]
      BY <1>1, <2>1, TokenClaims
    <3>3. /\ s # r => counted.deliveries[s] = queue.deliveries[s]
          /\ s = r => counted.deliveries[s] \in {queue.deliveries[s], queue.deliveries[s] + 1}
      BY <1>1, <2>1, TokenClaims
    <3> QED BY <3>1, <3>2, <3>3
  <2>5. wk'[w].pc = "idle" /\ \A v \in Workers \ {w} : wk'[v] = wk[v]
    BY <2>2, WorkerFields DEF Rests
  <2>6. LeasesHeld'
    BY <2>4, <2>5, LeasesKept DEF Claimed
  <2>7. queue'.deliveries[r] <= faults' + (IF Underway(r)' THEN 1 ELSE 0)
    <3>1. queue'.deliveries[r] \in {queue.deliveries[r], queue.deliveries[r] + 1}
      BY <1>1, <2>4
    <3> QED BY <1>1, <1>4, <2>2, <3>1
  <2>8. StartsCounted'
    BY <1>2, <2>2, <2>4, <2>5, <2>7, CountsKept
  <2> QED BY <2>6, <2>8
<1> QED BY <1>5, <1>6

\* Every step of a worker under way but the last.
LEMMA UnderwayStarts ==
    ASSUME TypeInv, LeasesHeld, StartsCounted, NEW w \in Workers,
           \/ FailExhausted(w) \/ RunFrom(w) \/ Resume(w) \/ NoDecider(w) \/ AtBoundary(w)
           \/ Decide(w) \/ SendAsk(w) \/ CheckLease(w) \/ AppendBatch(w) \/ Reload(w),
           AppendResult(log[wk[w].run], Len(wk[w].events)) = "Moved" /\ wk[w].pc = "append"
              => wk[w].reloads < Reloads
    PROVE  LeasesHeld' /\ StartsCounted'
<1>1. wk[w] \in WorkerType
  BY DEF TypeInv, TypeOK
<1>2. /\ wk[w].pc \in {"exhausted", "run", "resume", "bound", "decide", "send", "hold",
                       "append", "reload"}
      /\ UNCHANGED queue
  BY DEF FailExhausted, RunFrom, Resume, NoDecider, AtBoundary, Decide, SendAsk, CheckLease,
         AppendBatch, Reload, Working, shared
<1>3. faults' = faults \/ faults' = faults + 1
  BY DEF FailExhausted, RunFrom, Resume, NoDecider, AtBoundary, Decide, SendAsk, CheckLease,
         AppendBatch, Reload, shared, Stopped, Holds, Fault
<1>4. Counted(wk[w]) /\ Claimed(wk[w])
  BY <1>2 DEF Counted, Claimed
<1>5. ASSUME NEW k, Becomes(w, k), Counted(k), k.run = wk[w].run, k.pc # "exhausted"
      PROVE  LeasesHeld' /\ StartsCounted'
  BY <1>2, <1>3, <1>4, <1>5, ProceedingStarts
<1>6. ASSUME NEW pc \in {"ack", "park"}, NEW a, Finishes(w, pc, a)
      PROVE  LeasesHeld' /\ StartsCounted'
  <2> DEFINE k == [IdleWorker EXCEPT !.pc = pc, !.run = wk[w].run, !.ask = a]
  <2>1. k.pc = pc /\ k.run = wk[w].run
    BY DEF IdleWorker
  <2>2. Becomes(w, k)
    BY <1>6 DEF Finishes
  <2> HIDE DEF k
  <2> QED BY <1>5, <1>6, <2>1, <2>2 DEF Counted
<1>9. CASE FailExhausted(w)
  BY <1>6, <1>9 DEF FailExhausted
<1>10. ASSUME NEW pc \in {"run", "resume", "bound", "decide", "send", "hold", "append", "reload"},
              NEW k, Becomes(w, k), k.pc = pc, k.run = wk[w].run
       PROVE  LeasesHeld' /\ StartsCounted'
  BY <1>5, <1>10 DEF Counted
<1> DEFINE Being(pc) == [wk[w] EXCEPT !.pc = pc]
           With(pc, batch) == [wk[w] EXCEPT !.pc = pc, !.batch = batch]
           Sending(a) == [wk[w] EXCEPT !.pc = "send", !.ask = a]
           Sent(batch) == [wk[w] EXCEPT !.pc = "bound", !.batch = batch, !.ask = 0]
<1>11. ASSUME NEW pc, NEW batch, NEW a
       PROVE  /\ Being(pc).pc = pc /\ Being(pc).run = wk[w].run
              /\ With(pc, batch).pc = pc /\ With(pc, batch).run = wk[w].run
              /\ Sending(a).pc = "send" /\ Sending(a).run = wk[w].run
              /\ Sent(batch).pc = "bound" /\ Sent(batch).run = wk[w].run
  BY <1>1 DEF WorkerType
<1> HIDE DEF Being, With, Sending, Sent
<1>12. CASE RunFrom(w)
  <2>1. \/ Finishes(w, "ack", 0)
        \/ Becomes(w, With("hold", <<Plain("RunCancelled")>>))
        \/ Becomes(w, With("hold", <<Plain("RunScheduled")>>))
        \/ Becomes(w, Being("resume"))
    BY <1>12 DEF RunFrom, With, Being
  <2> QED BY <1>6, <1>10, <1>11, <2>1
<1>13. CASE Resume(w) \/ CheckLease(w)
  <2>1. \E held \in BOOLEAN :
          /\ Holds(w, held)
          /\ held => \/ Becomes(w, With("bound", ResumeEvents(wk[w].events)))
                     \/ Becomes(w, Being("append"))
    BY <1>13 DEF Resume, CheckLease, Goes, With, Being
  <2>2. \/ Becomes(w, With("bound", ResumeEvents(wk[w].events)))
        \/ Becomes(w, Being("append"))
    BY <1>4, <2>1, HeldIsFound
  <2> QED BY <1>10, <1>11, <2>2
<1>14. CASE NoDecider(w)
  <2>1. \E batch : Becomes(w, With("hold", batch))
    BY <1>14 DEF NoDecider, With
  <2> QED BY <1>10, <1>11, <2>1
<1>15. CASE AtBoundary(w)
  <2>1. \/ \E batch : Becomes(w, With("hold", batch))
        \/ Becomes(w, Being("hold")) \/ Becomes(w, Being("decide"))
        \/ Finishes(w, "park", WaitingForMessage(wk[w].events))
    BY <1>15 DEF AtBoundary, Goes, With, Being
  <2> QED BY <1>6, <1>10, <1>11, <2>1
<1>16. CASE Decide(w)
  <2>1. \/ \E batch : Becomes(w, With("bound", batch)) \/ Becomes(w, With("hold", batch))
        \/ \E a : Becomes(w, Sending(a))
    BY <1>16 DEF Decide, With, Sending
  <2> QED BY <1>10, <1>11, <2>1
<1>17. CASE SendAsk(w)
  <2>1. \E batch : Becomes(w, Sent(batch))
    BY <1>17 DEF SendAsk, Sent
  <2> QED BY <1>10, <1>11, <2>1
<1>18. CASE AppendBatch(w)
  <2> DEFINE result == AppendResult(log[wk[w].run], Len(wk[w].events))
             waits == WaitingForMessage(wk[w].events \o wk[w].batch)
             events == wk[w].events \o wk[w].batch
             pc == IF Has(wk[w].batch, {"RunScheduled"}) THEN "resume" ELSE "decide"
             GoesOn == [wk[w] EXCEPT !.pc = pc, !.events = events, !.batch = <<>>]
             Reloading == [wk[w] EXCEPT !.pc = "reload", !.batch = <<>>, !.events = <<>>,
                                        !.reloads = wk[w].reloads + 1]
  <2>1. wk[w].pc = "append"
    BY <1>18 DEF AppendBatch, Working
  <2>2. \/ Finishes(w, "ack", 0) \/ Finishes(w, "park", waits) \/ Becomes(w, GoesOn)
        \/ Becomes(w, Reloading)
    BY <1>18, <2>1 DEF AppendBatch
  <2>3. /\ GoesOn.pc = pc /\ GoesOn.run = wk[w].run /\ pc \in {"resume", "decide"}
        /\ Reloading.pc = "reload" /\ Reloading.run = wk[w].run
    BY <1>1 DEF WorkerType
  <2> HIDE DEF GoesOn, Reloading
  <2> QED BY <1>6, <1>10, <2>2, <2>3
<1>19. CASE Reload(w)
  <2> DEFINE k == [wk[w] EXCEPT !.pc = "run", !.events = log[wk[w].run]]
  <2>1. Finishes(w, "ack", 0) \/ Becomes(w, k)
    BY <1>19 DEF Reload
  <2>2. k.pc = "run" /\ k.run = wk[w].run
    BY <1>1 DEF WorkerType
  <2> HIDE DEF k
  <2> QED BY <1>6, <1>10, <2>1, <2>2
<1> QED BY <1>9, <1>12, <1>13, <1>14, <1>15, <1>16, <1>17, <1>18, <1>19

\* The end of a claim, or of a worker.
LEMMA RestingStarts ==
    ASSUME TypeInv, LeasesHeld, StartsCounted, NEW w \in Workers,
           LoadFails(w) \/ ParkRun(w) \/ WakeSelf(w) \/ AckRun(w) \/ Abandon(w)
    PROVE  LeasesHeld' /\ StartsCounted'
<1>1. /\ wk[w] \in WorkerType /\ queue \in QueueType /\ faults \in Nat
      /\ queue.deliveries \in [Runs -> Nat]
  BY DEF TypeInv, TypeOK, QueueType
<1>2. PICK r \in Runs : r = wk[w].run
  BY DEF LoadFails, ParkRun, WakeSelf, AckRun, Abandon, Working, TypeInv, BusyOnRuns
<1>3. faults' = faults \/ faults' = faults + 1
  BY DEF LoadFails, ParkRun, WakeSelf, AckRun, Abandon, Fault
<1>4. IdleWorker.pc = "idle"
  BY DEF IdleWorker
<1>5. CASE LoadFails(w) \/ WakeSelf(w)
  <2>1. Rests(w) /\ ~Counted(wk[w])
    BY <1>5 DEF LoadFails, WakeSelf, Working, Counted
  <2>2. queue' = Release(queue, r, w) \/ \E a : queue' = Wake(queue, r, a)
    BY <1>2, <1>5 DEF LoadFails, WakeSelf
  <2>3. \A s \in Runs : /\ queue'.deliveries[s] = queue.deliveries[s]
                        /\ queue'.lease[s] = queue.lease[s] \/ queue.lease[s] \in {NoLease, w}
    BY <1>1, <2>2, TokenClaims, SameClaims
  <2> QED BY <1>3, <1>4, <2>1, <2>3, UncountedStarts DEF Rests, Claimed
<1>6. CASE ParkRun(w) \/ AckRun(w)
  <2>1. Claimed(wk[w]) /\ queue.lease[r] = w
    BY <1>2, <1>6 DEF ParkRun, AckRun, Working, Claimed, LeasesHeld
  <2>2. /\ \A s \in Runs : queue'.lease[s] = queue.lease[s] \/ queue.lease[s] \in {NoLease, w}
        /\ \A s \in Runs : s # r => queue'.deliveries[s] = queue.deliveries[s]
        /\ queue'.deliveries[r] = 0
    <3>1. CASE ParkRun(w)
      <4>1. queue' = Park(queue, r, w, wk[w].ask) /\ wk[w].ask \in 0..MaxDecisions
        BY <1>1, <1>2, <3>1 DEF ParkRun, WorkerType
      <4> QED BY <1>1, <2>1, <4>1, TokenClaims
    <3>2. CASE AckRun(w)
      <4>1. queue' = Ack(queue, r, w)
        BY <1>2, <3>2 DEF AckRun
      <4> QED BY <1>1, <2>1, <4>1, TokenClaims
    <3> QED BY <1>6, <3>1, <3>2
  <2>3. wk'[w].pc \in {"idle", "recheck"} /\ \A v \in Workers \ {w} : wk'[v] = wk[v]
    <3>1. Rests(w) \/ Goes(w, "recheck")
      BY <1>6 DEF ParkRun, AckRun
    <3> QED BY <3>1, WorkerFields DEF Rests, Goes
  <2>4. LeasesHeld'
    BY <2>2, <2>3, LeasesKept DEF Claimed
  <2>5. queue'.deliveries[r] <= faults' + (IF Underway(r)' THEN 1 ELSE 0)
    BY <1>1, <1>3, <2>2
  <2>6. StartsCounted'
    BY <1>2, <1>3, <2>2, <2>3, <2>5, CountsKept
  <2> QED BY <2>4, <2>6
<1>7. CASE Abandon(w)
  <2>1. Rests(w) /\ UNCHANGED queue /\ faults' = faults + 1
    BY <1>7 DEF Abandon, Fault
  <2>2. wk'[w].pc = "idle" /\ \A v \in Workers \ {w} : wk'[v] = wk[v]
    BY <2>1, WorkerFields DEF Rests
  <2>3. LeasesHeld'
    BY <2>1, <2>2, LeasesKept DEF Claimed
  <2>4. queue'.deliveries[r] <= faults' + (IF Underway(r)' THEN 1 ELSE 0)
    <3>1. queue.deliveries[r] <= faults + 1 /\ queue.deliveries[r] \in Nat
      <4>1. queue.deliveries[r] <= faults + (IF Underway(r) THEN 1 ELSE 0)
        BY DEF StartsCounted
      <4> QED BY <1>1, <4>1
    <3> QED BY <1>1, <2>1, <3>1
  <2>5. StartsCounted'
    BY <1>2, <2>1, <2>2, <2>4, CountsKept
  <2> QED BY <2>3, <2>5
<1> QED BY <1>5, <1>6, <1>7

\* Redis takes back the lease of a worker that is gone.
LEMMA ExpiryStarts ==
    ASSUME TypeInv, LeasesHeld, StartsCounted, NEW r \in Runs, AbandonedLeaseExpires(r)
    PROVE  LeasesHeld' /\ StartsCounted'
<1>1. /\ queue \in QueueType /\ UNCHANGED wk /\ UNCHANGED faults
      /\ wk[queue.lease[r]].run # r /\ queue' = LeaseExpires(queue, r)
      /\ queue.lease[r] \in Workers
  BY DEF AbandonedLeaseExpires, TypeInv, TypeOK, QueueType
<1>2. \A s \in Runs : /\ queue'.lease[s] = IF s = r THEN NoLease ELSE queue.lease[s]
                      /\ queue'.deliveries[s] = queue.deliveries[s]
  BY <1>1, TokenClaims
<1>3. LeasesHeld'
  <2>1. ASSUME NEW w \in Workers, Claimed(wk[w]) PROVE queue'.lease[wk[w].run] = w
    <3>1. queue.lease[wk[w].run] = w /\ wk[w].run \in Runs
      BY <2>1 DEF LeasesHeld, Claimed, TypeInv, BusyOnRuns
    <3> QED BY <1>1, <1>2, <3>1
  <2> QED BY <1>1, <2>1 DEF LeasesHeld
<1>4. StartsCounted'
  BY <1>1, <1>2 DEF StartsCounted, Underway
<1> QED BY <1>3, <1>4

\* A worker whose log moved has a reload left.
MayReload(w) ==
    AppendResult(log[wk[w].run], Len(wk[w].events)) = "Moved" /\ wk[w].pc = "append"
       => wk[w].reloads < Reloads

LEMMA WorkerStarts ==
    ASSUME TypeInv, LeasesHeld, StartsCounted, Poison = {}, expiries' = 0,
           \A w \in Workers : MayReload(w), WorkerNext
    PROVE  LeasesHeld' /\ StartsCounted'
<1>1. ASSUME NEW w \in Workers, WorkerSteps(w) \/ WorkerFaults(w)
      PROVE  LeasesHeld' /\ StartsCounted'
  <2>1. ~ReleaseRun(w) /\ ~Panics(w)
    BY DEF ReleaseRun, Panics, Working, LeasesHeld
  <2>2. CASE \/ FailExhausted(w) \/ RunFrom(w) \/ Resume(w) \/ NoDecider(w) \/ AtBoundary(w)
             \/ Decide(w) \/ SendAsk(w) \/ CheckLease(w) \/ AppendBatch(w) \/ Reload(w)
    BY <2>2, UnderwayStarts DEF MayReload
  <2>3. CASE StartRun(w) \/ StartFails(w)
    BY <2>3, StartStarts
  <2>4. CASE LoadRun(w) \/ Recheck(w) \/ RecheckStop(w)
    BY <2>4, LoadStarts
  <2>5. CASE LoadFails(w) \/ ParkRun(w) \/ WakeSelf(w) \/ AckRun(w) \/ Abandon(w)
    BY <2>5, RestingStarts
  <2>6. CASE ClaimRun(w)
    BY <2>6, ClaimStarts
  <2> QED BY <1>1, <2>1, <2>2, <2>3, <2>4, <2>5, <2>6 DEF WorkerSteps, WorkerFaults
<1>2. ASSUME NEW r \in Runs, AbandonedLeaseExpires(r) PROVE LeasesHeld' /\ StartsCounted'
  BY <1>2, ExpiryStarts
<1>3. ASSUME NEW r \in Runs PROVE ~LiveLeaseExpires(r)
  BY DEF LiveLeaseExpires, TypeInv, TypeOK
<1> QED BY <1>1, <1>2, <1>3 DEF WorkerNext

\* The scripts of the other threads leave leases and counts alone.
LEMMA OtherStarts ==
    ASSUME TypeInv, ProducerNext \/ CourierNext \/ StopperNext \/ SweeperNext
    PROVE  /\ queue'.lease = queue.lease /\ queue'.deliveries = queue.deliveries
           /\ faults' = faults \/ faults' = faults + 1
           /\ UNCHANGED <<wk, expiries>>
<1> DEFINE Goal == /\ queue'.lease = queue.lease /\ queue'.deliveries = queue.deliveries
                   /\ faults' = faults \/ faults' = faults + 1
<1>1. queue \in QueueType
  BY DEF TypeInv, TypeOK
<1>2. \A p \in Producers : ProducedRun[p] \in Runs
  BY ProducerAssumption
<1>3. UNCHANGED <<wk, expiries>>
  BY DEF ProducerNext, CourierNext, StopperNext, SweeperNext,
         noProducer, noCourier, noStopper, noSweeper
<1> SUFFICES Goal
  BY <1>3
<1>4. CASE ProducerNext
  <2>1. ASSUME NEW p \in Producers, ProducerSteps(p) PROVE Goal
    BY <1>1, <1>2, <2>1, SameClaims
       DEF ProducerSteps, PendRun, PutStored, PushRun, EndRun, ReadExisting, CheckQueued,
           UnpendExisting, shared
  <2>2. ASSUME NEW p \in Producers, ProducerFaults(p) PROVE Goal
    BY <1>1, <1>2, <2>2, SameClaims
       DEF ProducerFaults, PutFails, PushFails, ProducerDies, PutCommitsLate, Fault
  <2>3. ASSUME NEW r \in Runs, PendingForgotten(r) PROVE Goal
    BY <1>1, <2>3, SameClaims DEF PendingForgotten
  <2> QED BY <1>4, <2>1, <2>2, <2>3 DEF ProducerNext
<1>5. CASE CourierNext
  <2>1. PICK d \in Couriers : CourierStarts(d) \/ CourierCarries(d) \/ CourierFails(d)
    BY <1>5 DEF CourierNext
  <2>2. CASE WakeAsker(d)
    <3>1. dl[d].run \in Runs /\ queue' = Wake(queue, dl[d].run, dl[d].ask) /\ UNCHANGED faults
      BY <2>2 DEF WakeAsker, Carrying, TypeInv, BusyOnRuns
    <3> QED BY <1>1, <3>1, SameClaims
  <2>3. CASE ~WakeAsker(d)
    <3>1. UNCHANGED queue
      BY <2>1, <2>3
         DEF CourierStarts, SweepParked, UserAnswers, TaskAnswers, AskIsDue, CourierCarries,
             LookAtParked, LookAtStop, DeliverRead, DeliverAppend, MarkAnswered, ReadQuestion,
             ReplyToQuestion, CourierFails, shared
    <3>2. faults' = faults \/ faults' = faults + 1
      BY <2>1, CourierParks DEF KeepsFaults, CountsFault
    <3> QED BY <3>1, <3>2
  <2> QED BY <2>2, <2>3
<1>6. CASE StopperNext
  <2>1. CASE WakeCancelled
    <3>1. st.run \in Runs /\ queue' = Wake(queue, st.run, st.ask) /\ UNCHANGED faults
      BY <2>1 DEF WakeCancelled, TypeInv, BusyOnRuns
    <3> QED BY <1>1, <3>1, SameClaims
  <2>2. CASE ~WakeCancelled
    BY <1>6, <2>2
       DEF StopperNext, StopperSteps, PutStop, ReadParked, ReadRun, CancelRun, StopFails, shared,
           Fault
  <2> QED BY <2>1, <2>2
<1>7. CASE SweeperNext
  <2>1. CASE ReapExpired
    <3>1. \A order : /\ Reap(queue, order).lease = queue.lease
                      /\ Reap(queue, order).deliveries = queue.deliveries
      BY <1>1 DEF Reap, QueueType
    <3> QED BY <2>1, <3>1 DEF ReapExpired
  <2>2. CASE PushPending \/ UnpendPending \/ SweepFails
    <3>1. \A r : /\ Push(queue, r).lease = queue.lease
                  /\ Push(queue, r).deliveries = queue.deliveries
                  /\ Unpend(queue, r).lease = queue.lease
                  /\ Unpend(queue, r).deliveries = queue.deliveries
      BY <1>1 DEF Push, Unpend, QueueType
    <3> QED BY <2>2, <3>1 DEF PushPending, UnpendPending, SweepFails, Fault
  <2>3. CASE LoadPending \/ \E r \in Runs : ListPending(r)
    BY <2>3 DEF LoadPending, ListPending, shared
  <2> QED BY <1>7, <2>1, <2>2, <2>3 DEF SweeperNext, SweeperSteps
<1> QED BY <1>4, <1>5, <1>6, <1>7

(***************************************************************************)
(* Reloads: how often a log may move under its worker                      *)
(***************************************************************************)
LEMMA MovesCount ==
    ASSUME CouriersFit, NEW r
    PROVE  /\ IsFiniteSet(Stale(r)) /\ Cardinality(Stale(r)) \in Nat
           /\ Cardinality(Couriers) \in Nat /\ MovesLeft(r) \in Nat
<1>1. IsFiniteSet(Couriers) /\ Stale(r) \subseteq Couriers
  BY DEF CouriersFit, Stale
<1>2. IsFiniteSet(Stale(r))
  BY <1>1, FS_Subset
<1>3. Cardinality(Stale(r)) \in Nat /\ Cardinality(Couriers) \in Nat
  BY <1>1, <1>2, FS_CardinalityType
<1> QED BY <1>2, <1>3 DEF MovesLeft

\* A worker that reads a log afresh has the reloads that may be asked of it.
LEMMA FreshReads ==
    ASSUME CouriersFit, StaleFew, NEW r \in Runs
    PROVE  MovesLeft(r) <= Reloads
<1>1. /\ Cardinality(Stale(r)) \in Nat /\ Cardinality(Couriers) \in Nat /\ Reloads \in Nat
      /\ 2 * Cardinality(Couriers) <= Reloads + 1
  BY MovesCount, WorkerAssumption DEF CouriersFit
<1>2. Cardinality({}) = 0
  BY FS_EmptySet
<1>3. Cardinality(Stale(r)) + 1 <= Cardinality(Couriers) \/ Cardinality(Stale(r)) = 0
  BY <1>2 DEF StaleFew
<1>4. Cardinality(Stale(r)) + Cardinality(Couriers) <= Reloads
  BY <1>1, <1>3
<1>5. Cardinality(Stale(r)) + 0 <= Reloads
  BY <1>1, <1>4
<1> QED BY <1>4, <1>5 DEF MovesLeft

LEMMA ReadersMayReload ==
    ASSUME TypeInv, CouriersFit, NEW w \in Workers, ReloadsLeft(wk[w])
    PROVE  MayReload(w)
<1> SUFFICES ASSUME AppendResult(log[wk[w].run], Len(wk[w].events)) = "Moved",
                    wk[w].pc = "append"
             PROVE  wk[w].reloads < Reloads
  BY DEF MayReload
<1>1. ~Ended(log[wk[w].run]) /\ Len(wk[w].events) # Len(log[wk[w].run])
  BY DEF AppendResult
<1>2. Reading(wk[w])
  BY DEF Reading
<1>3. wk[w].reloads + 1 + MovesLeft(wk[w].run) <= Reloads
  BY <1>1, <1>2 DEF ReloadsLeft, Behind
<1>4. MovesLeft(wk[w].run) \in Nat
  BY MovesCount
<1>5. wk[w].reloads \in Nat /\ Reloads \in Nat
  BY WorkerAssumption DEF TypeInv, TypeOK, WorkerType
<1> QED BY <1>3, <1>4, <1>5

\* A step that brings no answer leaves open asks open.
LEMMA OpenStays ==
    ASSUME LogInv, LogInv', LogsGood, NoAnswer, NEW r \in Runs, NEW a,
           AskState(log[r], a) = "Open"
    PROVE  AskState(log'[r], a) = "Open"
<1>1. log[r] \in Seq(Event) /\ log'[r] \in Seq(Event)
  BY DEF LogInv, TypeInv, TypeOK
<1>2. AskState(log'[r], a) # "Unsent"
  <2> DEFINE m == log'[r]
  <2>1. m \in Seq(Event) /\ Grows(log[r], m)
    BY <1>1 DEF LogsGood
  <2> HIDE DEF m
  <2>2. AskState(m, a) # "Unsent"
    BY <1>1, <2>1, GrownLog
  <2> QED BY <2>2 DEF m
<1>3. AskState(log'[r], a) # "Answered"
  BY DEF NoAnswer
<1>4. AskState(log'[r], a) \in {"Unsent", "Open", "Answered"}
  BY DEF AskState
<1> QED BY <1>2, <1>3, <1>4

\* Fewer stale couriers, and no ask opened: fewer moves.
LEMMA FewerMoves ==
    ASSUME CouriersFit, NEW r \in Runs, Stale(r)' \subseteq Stale(r)
    PROVE  /\ Cardinality(Stale(r)') <= Cardinality(Stale(r))
           /\ NoneOpen(log'[r]) \/ ~NoneOpen(log[r]) => MovesLeft(r)' <= MovesLeft(r)
<1>1. IsFiniteSet(Stale(r)) /\ Cardinality(Stale(r)) \in Nat /\ Cardinality(Couriers) \in Nat
  BY MovesCount
<1>2. Cardinality(Stale(r)') <= Cardinality(Stale(r)) /\ Cardinality(Stale(r)') \in Nat
  <2> DEFINE S == Stale(r)'
  <2>1. S \subseteq Stale(r)
    OBVIOUS
  <2> HIDE DEF S
  <2>2. Cardinality(S) <= Cardinality(Stale(r)) /\ IsFiniteSet(S)
    BY <1>1, <2>1, FS_Subset
  <2>3. Cardinality(S) \in Nat
    BY <2>2, FS_CardinalityType
  <2> QED BY <2>2, <2>3 DEF S
<1>3. MovesLeft(r)' = Cardinality(Stale(r)') + (IF NoneOpen(log'[r]) THEN 0 ELSE Cardinality(Couriers))
  BY DEF MovesLeft
<1> QED BY <1>1, <1>2, <1>3 DEF MovesLeft

\* A courier that does not move.
LEMMA ReplyStays ==
    ASSUME LogInv, LogInv', LogsGood, RepliesFit, NEW d \in Couriers, dl'[d] = dl[d],
           dl[d].pc = "reply"
    PROVE  /\ dl[d].seen <= Len(log'[dl[d].run])
           /\ dl[d].seen = Len(log'[dl[d].run]) => AskState(log'[dl[d].run], dl[d].ask) = "Open"
<1>1. PICK r \in Runs : r = dl[d].run
  BY DEF LogInv, TypeInv, BusyOnRuns
<1>2. log[r] \in Seq(Event) /\ log'[r] \in Seq(Event) /\ dl[d].seen \in Nat
  BY DEF LogInv, TypeInv, TypeOK, CourierType
<1>3. dl[d].seen <= Len(log[r]) /\ (dl[d].seen = Len(log[r]) => AskState(log[r], dl[d].ask) = "Open")
  BY <1>1 DEF RepliesFit
<1>4. CASE log'[r] = log[r]
  BY <1>1, <1>3, <1>4
<1>5. CASE log'[r] # log[r]
  <2>1. Len(log[r]) < Len(log'[r])
    BY <1>5 DEF LogsGood, Grows
  <2>2. Len(log[r]) \in Nat /\ Len(log'[r]) \in Nat
    BY <1>2
  <2>3. dl[d].seen < Len(log'[r])
    BY <1>2, <1>3, <2>1, <2>2
  <2> QED BY <1>1, <1>2, <2>2, <2>3
<1> QED BY <1>4, <1>5

\* A step of a thread that is no courier.
LEMMA StandingCouriers ==
    ASSUME LogInv, LogInv', LogsGood, NoAnswer, UNCHANGED dl, CouriersFit,
           RepliesFit, StaleFew
    PROVE  /\ RepliesFit' /\ StaleFew'
           /\ \A r \in Runs : NoneOpen(log'[r]) \/ ~NoneOpen(log[r]) => MovesLeft(r)' <= MovesLeft(r)
<1>1. RepliesFit'
  BY ReplyStays DEF RepliesFit
<1>2. ASSUME NEW r \in Runs PROVE Stale(r)' \subseteq Stale(r)
  BY <1>2, OpenStays DEF Stale
<1>3. StaleFew'
  <2> SUFFICES ASSUME NEW r \in Runs
               PROVE  Cardinality(Stale(r)') + 1 <= Cardinality(Couriers) \/ Stale(r)' = {}
    BY DEF StaleFew
  <2>1. Cardinality(Stale(r)') <= Cardinality(Stale(r)) /\ Stale(r)' \subseteq Stale(r)
    BY <1>2, FewerMoves
  <2>2. Cardinality(Stale(r)) + 1 <= Cardinality(Couriers) \/ Stale(r) = {}
    BY DEF StaleFew
  <2>3. Cardinality(Stale(r)) \in Nat /\ Cardinality(Couriers) \in Nat
    BY MovesCount
  <2>4. Cardinality(Stale(r)') \in Nat
    <3> DEFINE S == Stale(r)'
    <3>1. IsFiniteSet(Stale(r)) /\ S \subseteq Stale(r)
      BY <2>1, MovesCount
    <3> HIDE DEF S
    <3>2. Cardinality(S) \in Nat
      BY <3>1, FS_Subset, FS_CardinalityType
    <3> QED BY <3>2 DEF S
  <2> QED BY <2>1, <2>2, <2>3, <2>4
<1> QED BY <1>1, <1>2, <1>3, FewerMoves

\* A worker that does not move: what it reads stands still, has ended, or was
\* only now stored and has no reader.
LEMMA ReaderStays ==
    ASSUME LogInv, LogInv', CouriersFit, NEW v \in Workers, wk'[v] = wk[v],
           ReloadsLeft(wk[v]),
           LET r == wk[v].run
           IN  r \in Runs =>
                 /\ \/ log'[r] = log[r] \/ Ended(log'[r])
                    \/ log[r] = <<>> /\ log'[r] = QueuedEvents
                 /\ NoneOpen(log'[r]) \/ ~NoneOpen(log[r]) => MovesLeft(r)' <= MovesLeft(r)
    PROVE  ReloadsLeft(wk[v])'
<1> SUFFICES ASSUME Reading(wk[v]) \/ wk[v].pc = "reload", ~Ended(log'[wk[v].run])
             PROVE  wk[v].reloads + Behind(wk[v], log'[wk[v].run]) + MovesLeft(wk[v].run)' <= Reloads
  BY DEF ReloadsLeft, Reading
<1>1. PICK r \in Runs : r = wk[v].run
  BY DEF LogInv, TypeInv, BusyOnRuns, Reading
<1>2. /\ wk[v].reloads \in Nat /\ Reloads \in Nat /\ MovesLeft(r) \in Nat
      /\ wk[v].events \in Seq(Event)
  BY MovesCount, WorkerAssumption DEF LogInv, TypeInv, TypeOK, WorkerType
<1>3. MovesLeft(r)' \in Nat
  <2> DEFINE S == Stale(r)'
  <2>1. S \subseteq Couriers /\ IsFiniteSet(Couriers)
    BY DEF Stale, CouriersFit
  <2>2. MovesLeft(r)' = Cardinality(S) + (IF NoneOpen(log'[r]) THEN 0 ELSE Cardinality(Couriers))
    BY DEF MovesLeft
  <2> HIDE DEF S
  <2>3. Cardinality(S) \in Nat /\ Cardinality(Couriers) \in Nat
    BY <2>1, FS_Subset, FS_CardinalityType
  <2> QED BY <2>2, <2>3
<1>4. CASE log'[r] = log[r]
  <2>1. wk[v].reloads + Behind(wk[v], log[r]) + MovesLeft(r) <= Reloads
    BY <1>1, <1>4 DEF ReloadsLeft
  <2>2. MovesLeft(r)' <= MovesLeft(r) /\ MovesLeft(wk[v].run)' = MovesLeft(r)'
    BY <1>1, <1>4
  <2>3. Behind(wk[v], log[r]) \in Nat
    BY DEF Behind
  <2> QED BY <1>1, <1>2, <1>3, <1>4, <2>1, <2>2, <2>3
<1>5. CASE log[r] = <<>> /\ log'[r] = QueuedEvents
  <2>1. ~Reading(wk[v])
    <3> SUFFICES ASSUME Reading(wk[v]) PROVE FALSE
      OBVIOUS
    <3>1. wk[v].events # <<>> /\ Len(wk[v].events) <= Len(log[r])
      BY <1>1 DEF LogInv, WorkerFits, CopyOf, Reading
    <3> QED BY <1>2, <1>5, <3>1
  <2>2. /\ wk[v].reloads + Behind(wk[v], log[r]) + MovesLeft(r) <= Reloads
        /\ Behind(wk[v], log[r]) = 0 /\ Behind(wk[v], log'[r]) = 0
    <3>1. ~Ended(log[r])
      BY <1>5 DEF Ended, Has
    <3> QED BY <1>1, <2>1, <3>1 DEF ReloadsLeft, Behind
  <2>3. NoneOpen(log'[r])
    <3>1. \A i \in DOMAIN QueuedEvents : QueuedEvents[i].type = "RunQueued"
      BY DEF QueuedEvents, Plain
    <3> QED BY <1>5, <3>1 DEF NoneOpen, AskState, AskTypes
  <2>4. MovesLeft(r)' <= MovesLeft(r) /\ MovesLeft(wk[v].run)' = MovesLeft(r)'
    BY <1>1, <2>3
  <2> QED BY <1>1, <1>2, <1>3, <2>2, <2>4
<1> QED BY <1>1, <1>4, <1>5

\* Worker w becomes k, which reads nothing yet, or nothing more, or goes on from
\* the log it has: of a run just loaded, the log as it stands.
ReadsOn(w, k) ==
    \/ ~Reading(k) /\ k.pc \notin {"load", "reload"}
    \/ k.pc = "load" /\ k.reloads = 0
    \/ /\ wk[w].pc = "load" \/ wk[w].pc = "reload" \/ Reading(wk[w])
       /\ k.run = wk[w].run /\ k.reloads = wk[w].reloads
       /\ k.events = IF Reading(wk[w]) THEN wk[w].events ELSE log[wk[w].run]
       /\ Reading(k)

LEMMA ReaderGoesOn ==
    ASSUME LogInv, CouriersFit, StaleFew, NEW w \in Workers, ReloadsLeft(wk[w]),
           UNCHANGED <<log, dl>>, NEW k, Becomes(w, k), ReadsOn(w, k)
    PROVE  ReloadsLeft(wk[w])'
<1>1. wk'[w] = k
  BY WorkerFields DEF LogInv
<1>2. ASSUME NEW r PROVE MovesLeft(r)' = MovesLeft(r)
  BY DEF MovesLeft, Stale
<1>3. CASE ~Reading(k) /\ k.pc # "reload"
  BY <1>1, <1>3 DEF ReloadsLeft, ReadsOn
<1>4. CASE /\ wk[w].pc = "load" \/ wk[w].pc = "reload" \/ Reading(wk[w])
           /\ k.run = wk[w].run /\ k.reloads = wk[w].reloads
           /\ k.events = IF Reading(wk[w]) THEN wk[w].events ELSE log[wk[w].run]
           /\ Reading(k)
  <2> SUFFICES ASSUME ~Ended(log[k.run])
               PROVE  k.reloads + Behind(k, log[k.run]) + MovesLeft(k.run) <= Reloads
    <3>1. k.pc # "load"
      BY <1>4 DEF Reading
    <3>2. ReloadsLeft(k)'
      BY <1>2, <3>1 DEF ReloadsLeft
    <3> QED BY <1>1, <3>2
  <2>1. PICK r \in Runs : r = k.run
    BY <1>4 DEF LogInv, TypeInv, BusyOnRuns, Reading
  <2>2. MovesLeft(r) \in Nat /\ Reloads \in Nat
    BY MovesCount, WorkerAssumption
  <2>3. CASE wk[w].pc = "load"
    <3>1. ~Reading(wk[w]) /\ k.reloads = 0 /\ k.events = log[r]
      BY <1>4, <2>1, <2>3 DEF Reading, ReloadsLeft
    <3>2. Behind(k, log[r]) = 0
      BY <3>1 DEF Behind
    <3> QED BY <2>1, <2>2, <3>1, <3>2, FreshReads
  <2>4. CASE wk[w].pc = "reload" \/ Reading(wk[w])
    <3>1. wk[w].reloads + Behind(wk[w], log[r]) + MovesLeft(r) <= Reloads
      BY <1>4, <2>1, <2>4 DEF ReloadsLeft
    <3>2. Behind(k, log[r]) = Behind(wk[w], log[r])
      BY <1>4, <2>1, <2>4 DEF Behind, Reading
    <3> QED BY <1>4, <2>1, <3>1, <3>2
  <2> QED BY <1>4, <2>3, <2>4
<1> QED BY <1>3, <1>4 DEF Reading, ReadsOn

LEMMA WorkerReadsOn ==
    ASSUME TypeInv, NEW w \in Workers, WorkerSteps(w) \/ WorkerFaults(w), ~AppendBatch(w)
    PROVE  UNCHANGED wk \/ \E k : Becomes(w, k) /\ ReadsOn(w, k)
<1> DEFINE Goal == UNCHANGED wk \/ \E k : Becomes(w, k) /\ ReadsOn(w, k)
           Being(pc) == [wk[w] EXCEPT !.pc = pc]
           With(pc, batch) == [wk[w] EXCEPT !.pc = pc, !.batch = batch]
           Sending(a) == [wk[w] EXCEPT !.pc = "send", !.ask = a]
           Sent(batch) == [wk[w] EXCEPT !.pc = "bound", !.batch = batch, !.ask = 0]
           Read(pc) == [wk[w] EXCEPT !.pc = pc, !.events = log[wk[w].run]]
           Loading == [IdleWorker EXCEPT !.pc = "load", !.run = Head(queue.runs)]
<1>1. wk[w] \in WorkerType
  BY DEF TypeInv, TypeOK
<1>2. ASSUME NEW pc, pc \in {"start", "run", "resume", "bound", "decide", "send", "hold", "append"},
             NEW k, Becomes(w, k), k.pc = pc, k.run = wk[w].run, k.reloads = wk[w].reloads,
             \/ Reading(wk[w]) /\ k.events = wk[w].events
             \/ wk[w].pc \in {"load", "reload"} /\ k.events = log[wk[w].run]
      PROVE  Goal
  BY <1>2 DEF ReadsOn, Reading
<1>3. ASSUME NEW pc, pc \notin {"start", "run", "resume", "bound", "decide", "send", "hold",
                                "append", "load", "reload"},
             Goes(w, pc) \/ (\E a : Finishes(w, pc, a))
      PROVE  Goal
  <2>1. \A a : [IdleWorker EXCEPT !.pc = pc, !.run = wk[w].run, !.ask = a].pc = pc
    BY DEF IdleWorker
  <2>2. Being(pc).pc = pc
    BY <1>1 DEF WorkerType
  <2> QED BY <1>3, <2>1, <2>2 DEF ReadsOn, Reading, Goes, Finishes
<1>4. ASSUME Rests(w) PROVE Goal
  <2>1. IdleWorker.pc = "idle"
    BY DEF IdleWorker
  <2> QED BY <1>4, <2>1 DEF ReadsOn, Reading, Rests
<1>5. ASSUME NEW pc, NEW batch, NEW a
      PROVE  /\ Being(pc).pc = pc /\ Being(pc).run = wk[w].run
             /\ Being(pc).reloads = wk[w].reloads /\ Being(pc).events = wk[w].events
             /\ With(pc, batch).pc = pc /\ With(pc, batch).run = wk[w].run
             /\ With(pc, batch).reloads = wk[w].reloads /\ With(pc, batch).events = wk[w].events
             /\ Sending(a).pc = "send" /\ Sending(a).run = wk[w].run
             /\ Sending(a).reloads = wk[w].reloads /\ Sending(a).events = wk[w].events
             /\ Sent(batch).pc = "bound" /\ Sent(batch).run = wk[w].run
             /\ Sent(batch).reloads = wk[w].reloads /\ Sent(batch).events = wk[w].events
             /\ Read(pc).pc = pc /\ Read(pc).run = wk[w].run
             /\ Read(pc).reloads = wk[w].reloads /\ Read(pc).events = log[wk[w].run]
  BY <1>1 DEF WorkerType
<1>6. Loading.pc = "load" /\ Loading.reloads = 0
  BY DEF IdleWorker
<1> SUFFICES Goal
  OBVIOUS
<1> HIDE DEF Goal, Being, With, Sending, Sent, Read, Loading
<1>7. ASSUME Reading(wk[w]),
             NEW pc \in {"start", "run", "resume", "bound", "decide", "send", "hold", "append"},
             Becomes(w, Being(pc)) \/ \E batch : Becomes(w, With(pc, batch))
      PROVE  Goal
  BY <1>2, <1>5, <1>7
<1>8. CASE ClaimRun(w)
  <2>1. UNCHANGED wk \/ Becomes(w, Loading)
    BY <1>8 DEF ClaimRun, Loading
  <2> QED BY <1>6, <2>1 DEF Goal, ReadsOn
<1>9. CASE LoadRun(w) \/ Reload(w)
  <2>1. /\ wk[w].pc \in {"load", "reload"}
        /\ Finishes(w, "ack", 0) \/ Becomes(w, Read("start")) \/ Becomes(w, Read("run"))
    BY <1>9 DEF LoadRun, Reload, Working, Read
  <2> QED BY <1>2, <1>3, <1>5, <2>1
<1>10. CASE \/ LoadFails(w) \/ StartFails(w) \/ Abandon(w) \/ Panics(w) \/ WakeSelf(w)
           \/ ReleaseRun(w) \/ AckRun(w)
  BY <1>4, <1>10 DEF LoadFails, StartFails, Abandon, Panics, WakeSelf, ReleaseRun, AckRun
<1>11. CASE ParkRun(w) \/ Recheck(w) \/ RecheckStop(w) \/ FailExhausted(w)
  <2>1. \/ Rests(w) \/ Goes(w, "recheck") \/ Goes(w, "restop") \/ Goes(w, "wake")
        \/ Finishes(w, "ack", 0)
    BY <1>11 DEF ParkRun, Recheck, RecheckStop, FailExhausted
  <2> QED BY <1>3, <1>4, <2>1
<1>12. CASE \/ StartRun(w) \/ RunFrom(w) \/ Resume(w) \/ NoDecider(w) \/ AtBoundary(w)
            \/ Decide(w) \/ SendAsk(w) \/ CheckLease(w)
  <2>1. Reading(wk[w])
    BY <1>12 DEF StartRun, RunFrom, Resume, NoDecider, AtBoundary, Decide, SendAsk, CheckLease,
                 Working, Reading
  <2>2. CASE StartRun(w)
    <3>1. Finishes(w, "exhausted", 0) \/ Becomes(w, Being("run"))
      BY <2>2 DEF StartRun, Goes, Being
    <3> QED BY <1>3, <1>7, <2>1, <3>1
  <2>3. CASE RunFrom(w)
    <3>1. \/ Finishes(w, "ack", 0)
          \/ Becomes(w, With("hold", <<Plain("RunCancelled")>>))
          \/ Becomes(w, With("hold", <<Plain("RunScheduled")>>))
          \/ Becomes(w, Being("resume"))
      BY <2>3 DEF RunFrom, With, Being
    <3> QED BY <1>3, <1>7, <2>1, <3>1
  <2>4. CASE Resume(w) \/ CheckLease(w)
    <3>1. \/ Becomes(w, With("bound", ResumeEvents(wk[w].events)))
          \/ Becomes(w, Being("append")) \/ Finishes(w, "release", 0)
      BY <2>4 DEF Resume, CheckLease, Goes, With, Being
    <3> QED BY <1>3, <1>7, <2>1, <3>1
  <2>5. CASE NoDecider(w) \/ Decide(w) \/ SendAsk(w)
    <3>1. \/ \E batch : Becomes(w, With("hold", batch)) \/ Becomes(w, With("bound", batch))
          \/ \E a : Becomes(w, Sending(a))
          \/ \E batch : Becomes(w, Sent(batch))
      BY <2>5 DEF NoDecider, Decide, SendAsk, With, Sending, Sent
    <3> QED BY <1>2, <1>5, <2>1, <3>1
  <2>6. CASE AtBoundary(w)
    <3>1. \/ \E batch : Becomes(w, With("hold", batch))
          \/ Becomes(w, Being("hold")) \/ Becomes(w, Being("decide"))
          \/ Finishes(w, "park", WaitingForMessage(wk[w].events))
      BY <2>6 DEF AtBoundary, Goes, With, Being
    <3> QED BY <1>3, <1>7, <2>1, <3>1
  <2> QED BY <1>12, <2>2, <2>3, <2>4, <2>5, <2>6
<1> QED BY <1>8, <1>9, <1>10, <1>11, <1>12 DEF WorkerSteps, WorkerFaults

\* The append moves its own log, and tells a worker whose log was moved.
LEMMA AppendReads ==
    ASSUME LogInv, LogInv', LogsGood, NoAnswer, UNCHANGED dl, CouriersFit,
           RepliesFit, StaleFew, NEW w \in Workers, ReloadsLeft(wk[w]), AppendBatch(w)
    PROVE  ReloadsLeft(wk[w])'
<1>1. wk[w] \in WorkerType /\ wk[w].pc = "append" /\ TypeInv
  BY DEF LogInv, TypeInv, TypeOK, AppendBatch, Working
<1>2. PICK r \in Runs : r = wk[w].run
  BY <1>1 DEF TypeInv, BusyOnRuns
<1> DEFINE l == wk[w].events
           batch == wk[w].batch
           events == l \o batch
           result == AppendResult(log[r], Len(l))
           pc == IF Has(batch, {"RunScheduled"}) THEN "resume" ELSE "decide"
           GoesOn == [wk[w] EXCEPT !.pc = pc, !.events = events, !.batch = <<>>]
           Reloading == [wk[w] EXCEPT !.pc = "reload", !.batch = <<>>, !.events = <<>>,
                                      !.reloads = wk[w].reloads + 1]
<1>3. /\ l \in Seq(Event) /\ batch \in Seq(Event) /\ log[r] \in Seq(Event)
      /\ CopyOf(l, log[r]) /\ log \in [Runs -> Seq(Event)]
      /\ wk[w].reloads \in Nat /\ Reloads \in Nat /\ MovesLeft(r) \in Nat
  BY <1>1, <1>2, MovesCount, WorkerAssumption
     DEF LogInv, TypeInv, TypeOK, WorkerType, WorkerFits
<1>4. log' = [log EXCEPT ![r] = IF result = "Appended" THEN log[r] \o batch ELSE log[r]]
  BY <1>2 DEF AppendBatch, AppendEventsAfter
<1>5. \/ \E a : Finishes(w, "ack", a) \/ Finishes(w, "park", a) \/ Finishes(w, "release", a)
      \/ result = "Appended" /\ WaitingForMessage(events) = 0 /\ Becomes(w, GoesOn)
      \/ result = "Moved" /\ Becomes(w, Reloading)
  BY <1>2 DEF AppendBatch
<1>6. /\ GoesOn.pc = pc /\ GoesOn.run = r /\ GoesOn.events = events
      /\ GoesOn.reloads = wk[w].reloads /\ pc \in {"resume", "decide"}
      /\ Reloading.pc = "reload" /\ Reloading.run = r /\ Reloading.reloads = wk[w].reloads + 1
  BY <1>1, <1>2 DEF WorkerType
<1>7. NoneOpen(log'[r]) \/ ~NoneOpen(log[r]) => MovesLeft(r)' <= MovesLeft(r)
  BY StandingCouriers
<1>8. ~Ended(log[r]) => wk[w].reloads + Behind(wk[w], log[r]) + MovesLeft(r) <= Reloads
  BY <1>1, <1>2 DEF ReloadsLeft, Reading
<1>9. MovesLeft(r)' \in Nat
  <2> DEFINE S == Stale(r)'
  <2>1. S \subseteq Couriers /\ IsFiniteSet(Couriers)
    BY DEF Stale, CouriersFit
  <2>2. MovesLeft(r)' = Cardinality(S) + (IF NoneOpen(log'[r]) THEN 0 ELSE Cardinality(Couriers))
    BY DEF MovesLeft
  <2> HIDE DEF S
  <2>3. Cardinality(S) \in Nat /\ Cardinality(Couriers) \in Nat
    BY <2>1, FS_Subset, FS_CardinalityType
  <2> QED BY <2>2, <2>3
<1>10. CASE \E a : Finishes(w, "ack", a) \/ Finishes(w, "park", a) \/ Finishes(w, "release", a)
  <2>1. wk'[w].pc \in {"ack", "park", "release"}
    BY <1>1, <1>10, WorkerFields
  <2> QED BY <2>1 DEF ReloadsLeft, Reading
<1> HIDE DEF GoesOn, Reloading
<1>11. CASE result = "Appended" /\ WaitingForMessage(events) = 0 /\ Becomes(w, GoesOn)
  <2>1. wk'[w] = GoesOn
    BY <1>1, <1>11, WorkerFields
  <2>2. ~Ended(log[r]) /\ Len(l) = Len(log[r])
    BY <1>11 DEF AppendResult
  <2>3. log[r] = l
    <3>1. \A i \in 1..Len(l) : log[r][i] = l[i]
      BY <1>3 DEF CopyOf
    <3> QED BY <1>3, <2>2, <3>1, SeqEqual
  <2>4. log'[r] = events
    BY <1>3, <1>4, <1>11, <2>3
  <2>5. NoneOpen(log'[r])
    BY <1>11, <2>4, NotWaiting
  <2>6. wk[w].reloads + MovesLeft(r)' <= Reloads
    <3>1. Behind(wk[w], log[r]) \in Nat
      BY DEF Behind
    <3> QED BY <1>3, <1>7, <1>8, <1>9, <2>2, <2>5, <3>1
  <2>7. Behind(GoesOn, log'[r]) = 0
    BY <1>6, <2>4 DEF Behind
  <2>8. GoesOn.reloads + Behind(GoesOn, log'[r]) + MovesLeft(r)' <= Reloads
    BY <1>3, <1>6, <1>9, <2>6, <2>7
  <2>9. GoesOn.pc # "load" /\ wk'[w].run = r
    BY <1>6, <2>1
  <2>10. MovesLeft(wk[w].run)' = MovesLeft(r)'
    BY <2>9
  <2> HIDE DEF pc, events
  <2> QED BY <2>1, <2>8, <2>9, <2>10 DEF ReloadsLeft
<1>12. CASE result = "Moved" /\ Becomes(w, Reloading)
  <2>1. wk'[w] = Reloading
    BY <1>1, <1>12, WorkerFields
  <2>2. ~Ended(log[r]) /\ Len(l) # Len(log[r])
    BY <1>12 DEF AppendResult
  <2>3. Behind(wk[w], log[r]) = 1
    BY <1>1, <2>2 DEF Behind, Reading
  <2>4. log'[r] = log[r]
    BY <1>3, <1>4, <1>12
  <2>5. MovesLeft(r)' <= MovesLeft(r)
    BY <1>7, <2>4
  <2>6. Behind(Reloading, log'[r]) = 0
    BY <1>6 DEF Behind, Reading
  <2>7. Reloading.reloads + Behind(Reloading, log'[r]) + MovesLeft(r)' <= Reloads
    BY <1>3, <1>6, <1>8, <1>9, <2>2, <2>3, <2>5, <2>6
  <2>8. Reloading.pc # "load" /\ wk'[w].run = r
    BY <1>6, <2>1
  <2>9. MovesLeft(wk[w].run)' = MovesLeft(r)'
    BY <2>8
  <2> QED BY <2>1, <2>7, <2>8, <2>9 DEF ReloadsLeft
<1> QED BY <1>5, <1>10, <1>11, <1>12

\* A subset of the stale couriers is as few.
LEMMA FewStale ==
    ASSUME CouriersFit, StaleFew, NEW r \in Runs, Stale(r)' \subseteq Stale(r)
    PROVE  Cardinality(Stale(r)') + 1 <= Cardinality(Couriers) \/ Stale(r)' = {}
<1> DEFINE S == Stale(r)'
<1>1. IsFiniteSet(Stale(r)) /\ S \subseteq Stale(r)
  BY MovesCount
<1>2. Cardinality(Stale(r)) + 1 <= Cardinality(Couriers) \/ Stale(r) = {}
  BY DEF StaleFew
<1>3. Cardinality(Stale(r)) \in Nat /\ Cardinality(Couriers) \in Nat
  BY MovesCount
<1> HIDE DEF S
<1>4. Cardinality(S) <= Cardinality(Stale(r)) /\ Cardinality(S) \in Nat
  BY <1>1, FS_Subset, FS_CardinalityType
<1>5. Cardinality(S) + 1 <= Cardinality(Couriers) \/ S = {}
  BY <1>1, <1>2, <1>3, <1>4
<1> QED BY <1>5 DEF S

\* The answer to ask a closes it, and no other.
LEMMA AnswerCloses ==
    ASSUME NEW l \in Seq(Event), GoodLog(l), NEW a \in AskIds,
           GoodLog(Append(l, About("Answer", a))), NEW b
    PROVE  AskState(Append(l, About("Answer", a)), b) = "Open" <=> AskState(l, b) = "Open" /\ b # a
<1> DEFINE e == About("Answer", a)
           m == Append(l, e)
<1>1. e \in Event /\ e.type = "Answer" /\ e.ask = a
  BY MaxDecisionsAssumption DEF About, Event, AskIds, Types
<1> HIDE DEF e
<1>2. m \in Seq(Event)
  BY <1>1
<1>3. "Answer" \notin AskTypes
  BY DEF AskTypes
<1>4. /\ IsSent(m, b) <=> IsSent(l, b)
      /\ IsAnswered(m, b) <=> IsAnswered(l, b) \/ b = a
  BY <1>1, <1>3, AsksAppended
<1> HIDE DEF m
<1>5. GoodLog(m)
  BY DEF m, e
<1>6. /\ AskState(m, b) = "Open" <=> IsSent(m, b) /\ ~IsAnswered(m, b)
      /\ AskState(l, b) = "Open" <=> IsSent(l, b) /\ ~IsAnswered(l, b)
  BY <1>2, <1>5, AskStates DEF GoodLog
<1>7. AskState(m, b) = "Open" <=> AskState(l, b) = "Open" /\ b # a
  BY <1>4, <1>6
<1> QED BY <1>7 DEF m, e

\* An answer that is stored uses up a move of its log: either it closes the
\* ask, and makes stale only couriers other than the one that brought it, or
\* that courier was stale.
LEMMA AnswerMoves ==
    ASSUME LogInv, LogInv', CouriersFit, RepliesFit, StaleFew, NEW d \in Couriers,
           NEW r \in Runs, r = dl[d].run,
           dl[d].pc = "append" \/ (dl[d].pc = "reply" /\ dl[d].seen = Len(log[r])),
           log' = [log EXCEPT ![r] = Append(log[r], About("Answer", dl[d].ask))],
           dl'[d].pc \notin {"append", "reply"},
           \A c \in Couriers \ {d} : dl'[c] = dl[c]
    PROVE  /\ StaleFew' /\ MovesLeft(r)' + 1 <= MovesLeft(r)
           /\ \A s \in Runs \ {r} : log'[s] = log[s] /\ MovesLeft(s)' <= MovesLeft(s)
<1> DEFINE l == log[r]
           S == Stale(r)'
<1>1. PICK a \in AskIds : a = dl[d].ask
  BY DEF LogInv, CourierFits
<1> DEFINE m == Append(l, About("Answer", a))
<1>2. log \in [Runs -> Seq(Event)]
  BY DEF LogInv, TypeInv, TypeOK
<1>3. log'[r] = m /\ \A s \in Runs \ {r} : log'[s] = log[s]
  BY <1>1, <1>2
<1>4. l \in Seq(Event) /\ GoodLog(l) /\ GoodLog(m)
  BY <1>2, <1>3 DEF LogInv
<1>5. \A b : AskState(m, b) = "Open" <=> AskState(l, b) = "Open" /\ b # a
  BY <1>4, AnswerCloses
<1>6. /\ Cardinality(Couriers) \in Nat /\ Cardinality(Stale(r)) \in Nat
      /\ IsFiniteSet(Couriers) /\ IsFiniteSet(Stale(r))
  BY MovesCount DEF CouriersFit
<1>7. S = {c \in Couriers \ {d} : /\ dl[c].pc = "append" /\ dl[c].run = r
                                  /\ AskState(m, dl[c].ask) # "Open"}
  BY <1>3 DEF Stale
<1>8. MovesLeft(r)' = Cardinality(S) + (IF NoneOpen(m) THEN 0 ELSE Cardinality(Couriers))
  BY <1>3 DEF MovesLeft
<1>9. MovesLeft(r) = Cardinality(Stale(r)) + (IF NoneOpen(l) THEN 0 ELSE Cardinality(Couriers))
  BY DEF MovesLeft
<1> HIDE DEF S, m
<1>10. IsFiniteSet(S) /\ Cardinality(S) \in Nat
  BY <1>6, <1>7, FS_Subset, FS_CardinalityType
<1>11. /\ Cardinality(S) + 1 <= Cardinality(Couriers)
       /\ MovesLeft(r)' + 1 <= MovesLeft(r)
  <2>1. CASE AskState(l, a) = "Open"
    <3>1. NoneOpen(m) /\ ~NoneOpen(l)
      <4>1. ~NoneOpen(l)
        BY <2>1 DEF NoneOpen
      <4>2. ASSUME NEW b \in AskIds, AskState(m, b) = "Open" PROVE FALSE
        <5>1. AskState(l, b) = "Open" /\ b # a
          BY <1>5, <4>2
        <5> HIDE DEF l
        <5> QED BY <1>4, <2>1, <5>1, OneOpen
      <4> QED BY <4>1, <4>2 DEF NoneOpen
    <3>2. S \subseteq Couriers \ {d}
      BY <1>7
    <3>3. Cardinality(Couriers \ {d}) = Cardinality(Couriers) - 1 /\ IsFiniteSet(Couriers \ {d})
      BY <1>6, FS_RemoveElement
    <3>4. Cardinality(S) <= Cardinality(Couriers \ {d})
      BY <3>2, <3>3, FS_Subset
    <3> QED BY <1>6, <1>8, <1>9, <1>10, <3>1, <3>3, <3>4
  <2>2. CASE AskState(l, a) # "Open"
    <3>1. d \in Stale(r)
      BY <1>1, <2>2 DEF RepliesFit, Stale
    <3>2. S = Stale(r) \ {d}
      BY <1>5, <1>7, <2>2 DEF Stale
    <3>3. Cardinality(S) = Cardinality(Stale(r)) - 1
      BY <1>6, <3>1, <3>2, FS_RemoveElement
    <3>4. NoneOpen(m) <=> NoneOpen(l)
      BY <1>5, <2>2 DEF NoneOpen
    <3>5. Cardinality(Stale(r)) + 1 <= Cardinality(Couriers)
      BY <3>1 DEF StaleFew
    <3> QED BY <1>6, <1>8, <1>9, <1>10, <3>3, <3>4, <3>5
  <2> QED BY <2>1, <2>2
<1>12. ASSUME NEW s \in Runs \ {r} PROVE Stale(s)' \subseteq Stale(s)
  BY <1>3 DEF Stale
<1>13. \A s \in Runs \ {r} : MovesLeft(s)' <= MovesLeft(s)
  BY <1>3, <1>12, FewerMoves
<1>14. StaleFew'
  <2> SUFFICES ASSUME NEW s \in Runs
               PROVE  Cardinality(Stale(s)') + 1 <= Cardinality(Couriers) \/ Stale(s)' = {}
    BY DEF StaleFew
  <2>1. CASE s = r
    BY <1>11, <2>1 DEF S
  <2>2. CASE s # r
    BY <1>12, <2>2, FewStale
  <2> QED BY <2>1, <2>2
<1> QED BY <1>3, <1>11, <1>13, <1>14

\* A courier that writes nothing: it is not stale when it has read the log.
LEMMA QuietMoves ==
    ASSUME LogInv, LogInv', CouriersFit, RepliesFit, StaleFew, NEW d \in Couriers,
           UNCHANGED log, \A c \in Couriers \ {d} : dl'[c] = dl[c],
           dl'[d].pc = "append" => AskState(log[dl'[d].run], dl'[d].ask) = "Open",
           dl'[d].pc = "reply" =>
               /\ dl'[d].seen <= Len(log[dl'[d].run])
               /\ AskState(log[dl'[d].run], dl'[d].ask) = "Open"
    PROVE  RepliesFit' /\ StaleFew' /\ \A s \in Runs : MovesLeft(s)' <= MovesLeft(s)
<1>1. RepliesFit'
  BY DEF RepliesFit
<1>2. ASSUME NEW s \in Runs PROVE Stale(s)' \subseteq Stale(s)
  BY DEF Stale
<1>3. StaleFew'
  BY <1>2, FewStale DEF StaleFew
<1>4. \A s \in Runs : MovesLeft(s)' <= MovesLeft(s)
  BY <1>2, FewerMoves
<1> QED BY <1>1, <1>3, <1>4

\* Courier d writes nothing, and has read the log as it stands ...
Quiet(d) ==
    /\ UNCHANGED log
    /\ dl'[d].pc = "append" => AskState(log[dl'[d].run], dl'[d].ask) = "Open"
    /\ dl'[d].pc = "reply" => /\ dl'[d].seen <= Len(log[dl'[d].run])
                              /\ AskState(log[dl'[d].run], dl'[d].ask) = "Open"

\* ... or stores its answer.
Answering(d, r) ==
    /\ r = dl[d].run
    /\ dl[d].pc = "append" \/ (dl[d].pc = "reply" /\ dl[d].seen = Len(log[r]))
    /\ log' = [log EXCEPT ![r] = Append(log[r], About("Answer", dl[d].ask))]
    /\ dl'[d].pc \notin {"append", "reply"}

LEMMA CourierWrites ==
    ASSUME LogInv, NEW d \in Couriers, CourierStarts(d) \/ CourierCarries(d) \/ CourierFails(d)
    PROVE  Quiet(d) \/ \E r \in Runs : Answering(d, r)
<1> DEFINE Goal == Quiet(d) \/ \E r \in Runs : Answering(d, r)
<1> SUFFICES Goal
  OBVIOUS
<1>1. TypeInv /\ dl[d] \in CourierType /\ (dl[d].pc # "idle" => dl[d].run \in Runs)
      /\ log \in [Runs -> Seq(Event)]
  BY DEF LogInv, TypeInv, TypeOK, BusyOnRuns
<1>2. ASSUME UNCHANGED log, dl'[d].pc \notin {"append", "reply"} PROVE Goal
  BY <1>2 DEF Quiet
<1>3. ASSUME NEW k, Carries(d, k), UNCHANGED log, k.pc \notin {"append", "reply"} PROVE Goal
  BY <1>1, <1>2, <1>3, CourierFields
<1>4. CASE DeliverRead(d)
  <2> DEFINE k == [dl[d] EXCEPT !.pc = "append"]
  <2>1. UNCHANGED log
    BY <1>4 DEF DeliverRead, shared
  <2>2. CASE Carries(d, k) /\ AskState(log[dl[d].run], dl[d].ask) = "Open"
    <3>1. k.pc = "append" /\ k.run = dl[d].run /\ k.ask = dl[d].ask
      BY <1>1 DEF CourierType
    <3> HIDE DEF k
    <3>2. dl'[d] = k
      BY <1>1, <2>2, CourierFields
    <3> QED BY <2>1, <2>2, <3>1, <3>2 DEF Quiet
  <2>3. CASE Turns(d, "mark") \/ Drops(d)
    BY <1>1, <1>2, <2>1, <2>3, CourierFields
  <2> QED BY <1>4, <2>2, <2>3 DEF DeliverRead, Turns
<1>5. CASE ReadQuestion(d)
  <2> DEFINE l == log[dl[d].run]
             a == WaitingForMessage(l)
             k == [dl[d] EXCEPT !.pc = "reply", !.ask = a, !.seen = Len(l)]
  <2>1. UNCHANGED log /\ dl[d].run \in Runs
    BY <1>1, <1>5 DEF ReadQuestion, shared, Carrying
  <2>2. CASE Carries(d, k) /\ a # 0
    <3>1. k.pc = "reply" /\ k.run = dl[d].run /\ k.ask = a /\ k.seen = Len(l)
      BY <1>1 DEF CourierType
    <3>2. AskState(l, a) = "Open" /\ Len(l) \in Nat
      BY <1>1, <2>1, <2>2, WaitsOnOpen
    <3> HIDE DEF k
    <3>3. dl'[d] = k
      BY <1>1, <2>2, CourierFields
    <3> QED BY <2>1, <3>1, <3>2, <3>3 DEF Quiet
  <2>3. CASE Drops(d)
    BY <1>1, <1>2, <2>1, <2>3, CourierFields
  <2> QED BY <1>5, <2>2, <2>3 DEF ReadQuestion
<1>6. ASSUME dl[d].pc \in {"append", "reply"}, NEW seen,
             dl[d].pc = "append" => seen = Len(log[dl[d].run]),
             dl[d].pc = "reply" => seen = dl[d].seen,
             dl'[d].pc \notin {"append", "reply"},
             log' = [log EXCEPT ![dl[d].run] =
                       AppendEventsAfter(log[dl[d].run], seen, <<About("Answer", dl[d].ask)>>)]
      PROVE  Goal
  <2>1. PICK r \in Runs : r = dl[d].run
    BY <1>1, <1>6
  <2> DEFINE e == About("Answer", dl[d].ask)
  <2>2. log[r] \in Seq(Event) /\ e \in Event
    BY <1>1, EventTypes DEF CourierType, Types
  <2>3. CASE AppendResult(log[r], seen) = "Appended"
    <3>1. seen = Len(log[r])
      BY <2>3 DEF AppendResult
    <3>2. AppendEventsAfter(log[r], seen, <<e>>) = Append(log[r], e)
      <4>1. AppendEventsAfter(log[r], seen, <<e>>) = log[r] \o <<e>>
        BY <2>3 DEF AppendEventsAfter
      <4> HIDE DEF e
      <4>2. log[r] \o <<e>> = Append(log[r], e)
        BY <2>2
      <4> QED BY <4>1, <4>2
    <3> QED BY <1>6, <2>1, <3>1, <3>2 DEF Answering
  <2>4. CASE AppendResult(log[r], seen) # "Appended"
    <3>1. UNCHANGED log
      BY <1>1, <1>6, <2>1, <2>4 DEF AppendEventsAfter
    <3> QED BY <1>2, <1>6, <3>1
  <2> QED BY <2>3, <2>4
<1>7. CASE DeliverAppend(d)
  <2>1. dl'[d].pc = "mark"
    BY <1>1, <1>7, CourierFields DEF DeliverAppend
  <2>2. /\ dl[d].pc = "append"
        /\ log' = [log EXCEPT ![dl[d].run] =
                      AppendEventsAfter(log[dl[d].run], Len(log[dl[d].run]),
                                        <<About("Answer", dl[d].ask)>>)]
    BY <1>7 DEF DeliverAppend, AppendEvents, Carrying
  <2> HIDE DEF Goal
  <2> QED BY <1>6, <2>1, <2>2
<1>8. CASE ReplyToQuestion(d)
  <2> DEFINE again == [dl[d] EXCEPT !.pc = "question", !.tries = dl[d].tries + 1, !.seen = 0]
  <2>1. again.pc = "question"
    BY <1>1 DEF CourierType
  <2>2. Turns(d, "wake") \/ Carries(d, again) \/ Drops(d)
    BY <1>8 DEF ReplyToQuestion
  <2>3. dl'[d].pc \notin {"append", "reply"}
    <3> HIDE DEF again
    <3> QED BY <1>1, <2>1, <2>2, CourierFields
  <2>4. /\ dl[d].pc = "reply"
        /\ log' = [log EXCEPT ![dl[d].run] =
                      AppendEventsAfter(log[dl[d].run], dl[d].seen,
                                        <<About("Answer", dl[d].ask)>>)]
    BY <1>8 DEF ReplyToQuestion, Carrying
  <2> HIDE DEF Goal
  <2> QED BY <1>6, <2>3, <2>4
<1>9. CASE CourierStarts(d)
  <2>1. UNCHANGED log
    BY <1>9 DEF CourierStarts, SweepParked, UserAnswers, TaskAnswers, AskIsDue, shared
  <2>2. CASE \E r \in Runs : \E a \in AskIds : TaskAnswers(d, r, a) \/ AskIsDue(d, r, a)
    <3>1. dl'[d].pc = "deliver"
      BY <1>1, <2>2, CourierFields DEF TaskAnswers, AskIsDue
    <3> QED BY <1>2, <2>1, <3>1
  <2>3. ASSUME NEW r \in Runs, SweepParked(d, r) \/ UserAnswers(d, r) PROVE Goal
    <3>1. \A a : /\ [IdleCourier EXCEPT !.pc = "look", !.run = r, !.ask = a].pc = "look"
                 /\ [IdleCourier EXCEPT !.pc = "question", !.run = r].pc = "question"
      BY DEF IdleCourier
    <3> HIDE DEF Goal
    <3> QED BY <1>3, <2>1, <2>3, <3>1 DEF SweepParked, UserAnswers
  <2> QED BY <1>9, <2>2, <2>3 DEF CourierStarts
<1>10. CASE LookAtParked(d) \/ LookAtStop(d) \/ MarkAnswered(d) \/ WakeAsker(d) \/ CourierFails(d)
  <2>1. UNCHANGED log
    BY <1>10 DEF LookAtParked, LookAtStop, MarkAnswered, WakeAsker, CourierFails, shared
  <2>2. \/ Turns(d, "wake") \/ Turns(d, "stop") \/ Drops(d)
        \/ \E r, a, leave : SetsOut(d, r, a, leave)
    BY <1>10 DEF LookAtParked, LookAtStop, MarkAnswered, WakeAsker, CourierFails
  <2>3. dl'[d].pc \in {"wake", "stop", "idle", "deliver"}
    BY <1>1, <2>2, CourierFields
  <2> QED BY <1>2, <2>1, <2>3
<1> QED BY <1>4, <1>5, <1>7, <1>8, <1>9, <1>10 DEF CourierCarries

LEMMA MovesNext ==
    ASSUME CouriersFit, NEW r
    PROVE  MovesLeft(r)' \in Nat
<1> DEFINE S == Stale(r)'
<1>1. S \subseteq Couriers /\ IsFiniteSet(Couriers)
  BY DEF Stale, CouriersFit
<1>2. MovesLeft(r)' = Cardinality(S) + (IF NoneOpen(log'[r]) THEN 0 ELSE Cardinality(Couriers))
  BY DEF MovesLeft
<1> HIDE DEF S
<1>3. Cardinality(S) \in Nat /\ Cardinality(Couriers) \in Nat
  BY <1>1, FS_Subset, FS_CardinalityType
<1> QED BY <1>2, <1>3

\* A courier's answer may send a worker to read again, once for each move.
LEMMA CourierReads ==
    ASSUME LogInv, LogInv', LogsGood, CouriersFit, RepliesFit, StaleFew,
           \A w \in Workers : ReloadsLeft(wk[w]), CourierNext
    PROVE  RepliesFit' /\ StaleFew' /\ \A w \in Workers : ReloadsLeft(wk[w])'
<1>1. PICK d \in Couriers : CourierStarts(d) \/ CourierCarries(d) \/ CourierFails(d)
  BY DEF CourierNext
<1>2. /\ \A c \in Couriers \ {d} : dl'[c] = dl[c]
      /\ UNCHANGED wk
  BY <1>1, CourierAlone DEF LogInv, CourierNext, noCourier
<1>3. CASE Quiet(d)
  <2>1. RepliesFit' /\ StaleFew' /\ \A s \in Runs : MovesLeft(s)' <= MovesLeft(s)
    BY <1>2, <1>3, QuietMoves DEF Quiet
  <2>2. ASSUME NEW w \in Workers PROVE ReloadsLeft(wk[w])'
    BY <1>2, <1>3, <2>1, ReaderStays DEF Quiet
  <2> QED BY <2>1, <2>2
<1>4. ASSUME NEW r \in Runs, Answering(d, r)
      PROVE  RepliesFit' /\ StaleFew' /\ \A w \in Workers : ReloadsLeft(wk[w])'
  <2>1. /\ StaleFew' /\ MovesLeft(r)' + 1 <= MovesLeft(r)
        /\ \A s \in Runs \ {r} : log'[s] = log[s] /\ MovesLeft(s)' <= MovesLeft(s)
    BY <1>2, <1>4, AnswerMoves DEF Answering
  <2>2. RepliesFit'
    <3> SUFFICES ASSUME NEW c \in Couriers, dl'[c].pc = "reply"
                 PROVE  /\ dl'[c].seen <= Len(log'[dl'[c].run])
                        /\ dl'[c].seen = Len(log'[dl'[c].run])
                              => AskState(log'[dl'[c].run], dl'[c].ask) = "Open"
      BY DEF RepliesFit
    <3>1. c # d
      BY <1>4 DEF Answering
    <3>2. dl'[c] = dl[c]
      BY <1>2, <3>1
    <3> QED BY <3>2, ReplyStays
  <2>3. ASSUME NEW w \in Workers PROVE ReloadsLeft(wk[w])'
    <3>1. CASE wk[w].run # r
      BY <1>2, <2>1, <2>3, <3>1, ReaderStays
    <3>2. CASE wk[w].run = r
      <4> SUFFICES ASSUME Reading(wk[w]) \/ wk[w].pc = "reload", ~Ended(log'[r])
                   PROVE  wk[w].reloads + Behind(wk[w], log'[r]) + MovesLeft(r)' <= Reloads
        <5>1. ReloadsLeft(wk[w])
          BY <2>3
        <5>2. wk'[w] = wk[w] /\ MovesLeft(wk[w].run)' = MovesLeft(r)'
          BY <1>2, <3>2
        <5> QED BY <3>2, <5>1, <5>2 DEF ReloadsLeft, Reading
      <4>1. ~Ended(log[r])
        <5> DEFINE e == About("Answer", dl[d].ask)
        <5>1. log[r] \in Seq(Event) /\ e \in Event /\ log'[r] = Append(log[r], e)
          BY <1>4, EventTypes DEF Answering, LogInv, TypeInv, TypeOK, CourierType, Types
        <5> HIDE DEF e
        <5> QED BY <5>1, HasAppended DEF Ended
      <4>2. wk[w].reloads + Behind(wk[w], log[r]) + MovesLeft(r) <= Reloads
        BY <2>3, <3>2, <4>1 DEF ReloadsLeft
      <4>3. /\ Behind(wk[w], log[r]) \in {0, 1} /\ Behind(wk[w], log'[r]) \in {0, 1}
            /\ wk[w].reloads \in Nat /\ Reloads \in Nat
        BY WorkerAssumption DEF Behind, LogInv, TypeInv, TypeOK, WorkerType
      <4>4. MovesLeft(r) \in Nat /\ MovesLeft(r)' \in Nat
        BY MovesCount, MovesNext
      <4> QED BY <2>1, <4>2, <4>3, <4>4
    <3> QED BY <3>1, <3>2
  <2> QED BY <2>1, <2>2, <2>3
<1> QED BY <1>1, <1>3, <1>4, CourierWrites

\* What an end, or a put, does to the log of a run.
LEMMA EndOrSame ==
    ASSUME LogInv, NEW r \in Runs, NEW seen, NEW type \in {"RunFailed", "RunCancelled"},
           log' = [log EXCEPT ![r] = AppendEventsAfter(log[r], seen, <<Plain(type)>>)]
    PROVE  \A s \in Runs : log'[s] = log[s] \/ Ended(log'[s])
<1> DEFINE e == Plain(type)
<1>1. log \in [Runs -> Seq(Event)]
  BY DEF LogInv, TypeInv, TypeOK
<1>2. e \in Event /\ e.type \in Ends
  BY EventTypes DEF Plain, Types, Ends
<1>3. \A s \in Runs : log'[s] = log[s] \/ (s = r /\ log'[s] = log[r] \o <<e>>)
  BY <1>1 DEF AppendEventsAfter
<1> HIDE DEF e
<1>4. log[r] \in Seq(Event) /\ log[r] \o <<e>> = Append(log[r], e)
  BY <1>1, <1>2
<1>5. Ended(log[r] \o <<e>>)
  <2>1. Has(Append(log[r], e), Ends)
    BY <1>2, <1>4, HasAppended
  <2> QED BY <1>4, <2>1 DEF Ended
<1> QED BY <1>3, <1>5

LEMMA PutMoves ==
    ASSUME LogInv, NEW r \in Runs, log' = [log EXCEPT ![r] = PutRun(log[r])]
    PROVE  \A s \in Runs : log'[s] = log[s] \/ (log[s] = <<>> /\ log'[s] = QueuedEvents)
BY DEF LogInv, TypeInv, TypeOK, PutRun

\* A producer, the stop or the sweeper writes an end or a put, and no answer.
LEMMA OtherMoves ==
    ASSUME LogInv, LogInv', ProducerNext \/ StopperNext \/ SweeperNext
    PROVE  /\ NoAnswer /\ UNCHANGED <<wk, dl>>
           /\ \A r \in Runs : \/ log'[r] = log[r] \/ Ended(log'[r])
                              \/ log[r] = <<>> /\ log'[r] = QueuedEvents
<1>1. UNCHANGED <<wk, dl>>
  BY DEF ProducerNext, StopperNext, SweeperNext, noProducer, noStopper, noSweeper
<1>2. CASE ProducerNext
  <2>1. \A p \in Producers : ProducedRun[p] \in Runs
    BY ProducerAssumption
  <2>2. \/ UNCHANGED log
        \/ \E p \in Producers : log' = [log EXCEPT ![ProducedRun[p]] = PutRun(log[ProducedRun[p]])]
        \/ \E p \in Producers :
             log' = [log EXCEPT ![ProducedRun[p]] =
                       AppendEventsAfter(log[ProducedRun[p]], Len(log[ProducedRun[p]]),
                                         <<Plain("RunFailed")>>)]
    BY <1>2 DEF ProducerNext, ProducerSteps, ProducerFaults, PendRun, PutStored, PutFails,
           PutCommitsLate, PushRun, PushFails, EndRun, ReadExisting, CheckQueued,
           UnpendExisting, ProducerDies, PendingForgotten, shared, AppendEvents
  <2> QED BY <1>1, <1>2, <2>1, <2>2, ProducerNoAnswer, EndOrSame, PutMoves
<1>3. CASE StopperNext
  <2>1. CASE CancelRun
    <3>1. st.run \in Runs
      BY <2>1 DEF CancelRun, LogInv, TypeInv, BusyOnRuns
    <3>2. log' = [log EXCEPT ![st.run] =
                    AppendEventsAfter(log[st.run], st.seen, <<Plain("RunCancelled")>>)]
      BY <2>1 DEF CancelRun
    <3> QED BY <1>1, <1>3, <3>1, <3>2, StopperNoAnswer, EndOrSame
  <2>2. CASE ~CancelRun
    <3>1. UNCHANGED log
      BY <1>3, <2>2 DEF StopperNext, StopperSteps, PutStop, ReadParked, ReadRun, WakeCancelled,
                   StopFails, shared
    <3> QED BY <1>1, <1>3, <3>1, StopperNoAnswer
  <2> QED BY <2>1, <2>2
<1>4. CASE SweeperNext
  <2>1. UNCHANGED log
    BY <1>4 DEF SweeperNext, SweeperSteps, ReapExpired, ListPending, LoadPending, PushPending,
           UnpendPending, SweepFails, shared
  <2> QED BY <1>1, <2>1 DEF NoAnswer
<1> QED BY <1>2, <1>3, <1>4

LEMMA OtherReads ==
    ASSUME LogInv, LogInv', LogsGood, CouriersFit, RepliesFit, StaleFew,
           \A w \in Workers : ReloadsLeft(wk[w]), ProducerNext \/ StopperNext \/ SweeperNext
    PROVE  RepliesFit' /\ StaleFew' /\ \A w \in Workers : ReloadsLeft(wk[w])'
<1>1. /\ NoAnswer /\ UNCHANGED <<wk, dl>>
      /\ \A r \in Runs : \/ log'[r] = log[r] \/ Ended(log'[r])
                         \/ log[r] = <<>> /\ log'[r] = QueuedEvents
  BY OtherMoves
<1>2. /\ RepliesFit' /\ StaleFew'
      /\ \A r \in Runs : NoneOpen(log'[r]) \/ ~NoneOpen(log[r]) => MovesLeft(r)' <= MovesLeft(r)
  BY <1>1, StandingCouriers
<1>3. ASSUME NEW w \in Workers PROVE ReloadsLeft(wk[w])'
  BY <1>1, <1>2, <1>3, ReaderStays
<1> QED BY <1>2, <1>3

\* What a worker's step makes of its own log.
LEMMA MoverReads ==
    ASSUME LogInv, LogInv', LogsGood, CouriersFit, RepliesFit, StaleFew, NoAnswer, UNCHANGED dl,
           NEW w \in Workers, ReloadsLeft(wk[w]), WorkerSteps(w) \/ WorkerFaults(w)
    PROVE  ReloadsLeft(wk[w])'
<1>1. TypeInv
  BY DEF LogInv
<1>2. CASE AppendBatch(w)
  BY <1>2, AppendReads
<1>3. CASE FailExhausted(w)
  <2>1. wk'[w].pc = "ack"
    BY <1>1, <1>3, WorkerFields DEF FailExhausted
  <2> QED BY <2>1 DEF ReloadsLeft, Reading
<1>4. CASE ~AppendBatch(w) /\ ~FailExhausted(w)
  <2>1. UNCHANGED <<log, dl>>
    BY <1>4, WorkerWrites
  <2>2. CASE UNCHANGED wk
    <3>1. \A r \in Runs : MovesLeft(r)' = MovesLeft(r)
      BY <2>1 DEF MovesLeft, Stale
    <3>2. \A r \in Runs : MovesLeft(r) \in Nat
      BY MovesCount
    <3>3. \A r \in Runs : MovesLeft(r)' <= MovesLeft(r)
      BY <3>1, <3>2
    <3> QED BY <2>1, <2>2, <3>3, ReaderStays
  <2>3. CASE \E k : Becomes(w, k) /\ ReadsOn(w, k)
    BY <2>1, <2>3, ReaderGoesOn
  <2> QED BY <1>1, <1>4, <2>2, <2>3, WorkerReadsOn
<1> QED BY <1>2, <1>3, <1>4

LEMMA WorkerReads ==
    ASSUME LogInv, LogInv', LogsGood, CouriersFit, RepliesFit, StaleFew, LeasesHeld,
           \A w \in Workers : ReloadsLeft(wk[w]), WorkerNext
    PROVE  RepliesFit' /\ StaleFew' /\ \A w \in Workers : ReloadsLeft(wk[w])'
<1>1. TypeInv /\ UNCHANGED dl
  BY DEF LogInv, WorkerNext, noWorker
<1>2. ASSUME NEW w \in Workers, WorkerSteps(w) \/ WorkerFaults(w)
      PROVE  RepliesFit' /\ StaleFew' /\ \A v \in Workers : ReloadsLeft(wk[v])'
  <2>1. NoAnswer
    BY <1>2, WorkerNoAnswer
  <2>2. /\ RepliesFit' /\ StaleFew'
        /\ \A r \in Runs : NoneOpen(log'[r]) \/ ~NoneOpen(log[r]) => MovesLeft(r)' <= MovesLeft(r)
    BY <1>1, <2>1, StandingCouriers
  <2>3. ReloadsLeft(wk[w])'
    BY <1>1, <1>2, <2>1, MoverReads
  <2>4. ASSUME NEW v \in Workers, v # w PROVE ReloadsLeft(wk[v])'
    <3>1. wk'[v] = wk[v] /\ ReloadsLeft(wk[v])
      BY <1>1, <1>2, <2>4, WorkerAlone
    <3>2. CASE UNCHANGED log
      BY <2>2, <3>1, <3>2, ReaderStays
    <3>3. CASE FailExhausted(w)
      <4>1. wk[w].run \in Runs
        BY <1>1, <3>3 DEF FailExhausted, Working, TypeInv, BusyOnRuns
      <4>2. log' = [log EXCEPT ![wk[w].run] =
                      AppendEventsAfter(log[wk[w].run], Len(log[wk[w].run]), <<Plain("RunFailed")>>)]
        BY <3>3 DEF FailExhausted, AppendEvents
      <4>3. \A r \in Runs : log'[r] = log[r] \/ Ended(log'[r])
        BY <4>1, <4>2, EndOrSame
      <4> QED BY <2>2, <3>1, <4>3, ReaderStays
    <3>4. CASE AppendBatch(w)
      <4>1. wk[w].pc = "append" /\ wk[w].run \in Runs
        BY <1>1, <3>4 DEF AppendBatch, Working, TypeInv, BusyOnRuns
      <4>2. \A r \in Runs : r # wk[w].run => log'[r] = log[r]
        BY <1>1, <3>4 DEF AppendBatch, TypeInv, TypeOK
      <4>3. CASE wk[v].run # wk[w].run
        BY <2>2, <3>1, <4>2, <4>3, ReaderStays
      <4>4. CASE wk[v].run = wk[w].run
        <5>1. ~Claimed(wk[v])
          BY <2>4, <4>1, <4>4, OneClaims DEF Claimed
        <5>2. ~Reading(wk[v]) /\ wk[v].pc \notin {"load", "reload"}
          BY <5>1 DEF Claimed, Reading
        <5> QED BY <3>1, <5>2 DEF ReloadsLeft, Reading
      <4> QED BY <4>3, <4>4
    <3> QED BY <1>2, <3>2, <3>3, <3>4, WorkerWrites
  <2> QED BY <2>2, <2>3, <2>4
<1>3. ASSUME NEW r \in Runs, AbandonedLeaseExpires(r) \/ LiveLeaseExpires(r)
      PROVE  RepliesFit' /\ StaleFew' /\ \A v \in Workers : ReloadsLeft(wk[v])'
  <2>1. UNCHANGED <<log, wk>> /\ NoAnswer
    BY <1>3 DEF AbandonedLeaseExpires, LiveLeaseExpires, NoAnswer
  <2>2. /\ RepliesFit' /\ StaleFew'
        /\ \A s \in Runs : NoneOpen(log'[s]) \/ ~NoneOpen(log[s]) => MovesLeft(s)' <= MovesLeft(s)
    BY <1>1, <2>1, StandingCouriers
  <2>3. ASSUME NEW v \in Workers PROVE ReloadsLeft(wk[v])'
    BY <2>1, <2>2, <2>3, ReaderStays
  <2> QED BY <2>2, <2>3
<1> QED BY <1>2, <1>3 DEF WorkerNext

\* No step takes back a lease that was lost.
LEMMA ExpiriesCount ==
    ASSUME TypeInv, Next
    PROVE  expiries' = expiries \/ expiries' = expiries + 1
<1>1. CASE ProducerNext \/ CourierNext \/ StopperNext \/ SweeperNext
  BY <1>1 DEF ProducerNext, CourierNext, StopperNext, SweeperNext,
              noProducer, noCourier, noStopper, noSweeper
<1>2. CASE WorkerNext
  BY <1>2 DEF WorkerNext, WorkerSteps, WorkerFaults, ClaimRun, LoadRun, LoadFails, StartRun,
       StartFails, FailExhausted, RunFrom, Resume, NoDecider, AtBoundary, Decide, SendAsk,
       CheckLease, AppendBatch, Reload, ParkRun, Recheck, RecheckStop, WakeSelf, ReleaseRun,
       AckRun, Abandon, Panics, AbandonedLeaseExpires, LiveLeaseExpires
<1> QED BY <1>1, <1>2 DEF Next

LEMMA InitStarts == Init => StartInv
<1> SUFFICES ASSUME Init PROVE StartInv
  OBVIOUS
<1>1. LogInv
  BY InitLogs
<1>2. \A w \in Workers : wk[w].pc = "idle"
  BY DEF Init, WorkerInit, IdleWorker
<1>3. \A d \in Couriers : dl[d].pc = "idle"
  BY DEF Init, CourierInit, IdleCourier
<1>4. \A r \in Runs : queue.deliveries[r] = 0 /\ faults = 0
  BY DEF Init, SharedInit, EmptyQueue
<1>5. LeasesHeld /\ StartsCounted
  BY <1>2, <1>4 DEF LeasesHeld, StartsCounted, Claimed, Underway, Counted
<1>6. RepliesFit /\ StaleFew
  BY <1>3 DEF RepliesFit, StaleFew, Stale
<1>7. \A w \in Workers : ReloadsLeft(wk[w])
  BY <1>2 DEF ReloadsLeft, Reading
<1> QED BY <1>1, <1>5, <1>6, <1>7 DEF StartInv

LEMMA NextStarts ==
    ASSUME CouriersFit, Poison = {}
    PROVE  StartInv /\ [Next]_vars => StartInv'
<1> SUFFICES ASSUME StartInv, [Next]_vars PROVE StartInv'
  OBVIOUS
<1>1. LogInv /\ LogInv' /\ LogsGood /\ TypeInv /\ TypeInv'
  BY NextLogs DEF StartInv, LogInv
<1> SUFFICES ASSUME expiries' = 0
             PROVE  /\ (LeasesHeld /\ StartsCounted)'
                    /\ (RepliesFit /\ StaleFew)'
                    /\ \A w \in Workers : ReloadsLeft(wk[w])'
  BY <1>1 DEF StartInv
<1>2. expiries \in Nat /\ (expiries' = expiries \/ expiries' = expiries + 1)
  BY <1>1, ExpiriesCount DEF TypeInv, TypeOK, vars
<1>3. expiries = 0
  BY <1>2
<1>4. /\ LeasesHeld /\ StartsCounted /\ RepliesFit /\ StaleFew
      /\ \A w \in Workers : ReloadsLeft(wk[w])
  BY <1>3 DEF StartInv
<1>5. \A w \in Workers : MayReload(w)
  BY <1>1, <1>4, ReadersMayReload
<1>6. CASE WorkerNext
  <2>1. LeasesHeld' /\ StartsCounted'
    BY <1>1, <1>4, <1>5, <1>6, WorkerStarts
  <2>2. RepliesFit' /\ StaleFew' /\ \A w \in Workers : ReloadsLeft(wk[w])'
    BY <1>1, <1>4, <1>6, WorkerReads
  <2> QED BY <2>1, <2>2
<1>7. CASE ProducerNext \/ CourierNext \/ StopperNext \/ SweeperNext
  <2>1. LeasesHeld' /\ StartsCounted'
    BY <1>1, <1>4, <1>7, OtherStarts, StandingStarts
  <2>2. RepliesFit' /\ StaleFew' /\ \A w \in Workers : ReloadsLeft(wk[w])'
    BY <1>1, <1>4, <1>7, CourierReads, OtherReads
  <2> QED BY <2>1, <2>2
<1>8. CASE UNCHANGED vars
  <2>1. UNCHANGED <<queue, log, faults, wk, dl>>
    BY <1>8 DEF vars, shared
  <2> QED BY <1>4, <2>1
       DEF LeasesHeld, StartsCounted, Underway, RepliesFit, StaleFew, Stale, ReloadsLeft, MovesLeft
<1> QED BY <1>6, <1>7, <1>8 DEF Next

\* Waiting exhausts no run: while no lease was lost, a run that is failed for
\* too many starts had that many of them end in a fault.  PARK and ACK forget
\* the start of a run that waits or is done, one worker at a time has a claimed
\* run's lease, and the answers that the couriers may carry to a log move it
\* less often than RELOADS lets the worker read it again (queue.rs START, PARK
\* and ACK, worker.rs drive).
THEOREM WaitsExhaustNothing ==
    ASSUME CouriersFit, Poison = {}
    PROVE  Spec => [](expiries = 0 => NoFalseExhaustion)
<1>1. StartInv => (expiries = 0 => NoFalseExhaustion)
  <2> SUFFICES ASSUME StartInv, expiries = 0, NEW w \in Workers, wk[w].pc = "exhausted"
               PROVE  faults + expiries >= MaxDeliveries
    BY DEF NoFalseExhaustion
  <2>1. faults >= MaxDeliveries
    BY DEF StartInv, StartsCounted
  <2>2. faults \in Nat
    BY DEF StartInv, LogInv, TypeInv, TypeOK
  <2> QED BY <2>1, <2>2
<1> QED BY <1>1, InitStarts, NextStarts, PTL DEF Spec
=============================================================================
