--------------------------- MODULE TriggersProofs ---------------------------
(***************************************************************************)
(* A fired run is queued once, a stop covers every fire that read its      *)
(* trigger before the stop's pause, and a sender who is told that its      *)
(* event was accepted is told the truth: for any triggers, threads,        *)
(* requests, clocks and faults.                                            *)
(*                                                                         *)
(* TriggerInv relates the queue, the logs and the history of pushes; the   *)
(* generations a stop paused and those of the triggers; and, for a thread  *)
(* in the middle of a fire, what it has read and what still holds of it.   *)
(***************************************************************************)
EXTENDS Triggers, WellFoundedInduction, NaturalsInduction, SequenceTheorems,
        FiniteSetTheorems, TLAPS

FiredTypes == {"RunQueued", "RunScheduled", "RunCompleted", "RunCancelled"}
FiredEvent == [type : FiredTypes, ask : {0}]

QueueType == [runs : Seq(Runs), processing : [Runs -> Nat], deliveries : [Runs -> Nat],
              pending : [Runs -> PendingAge], parked : [Runs -> {0}],
              lease : [Runs -> Workers \cup {NoLease}]]

RequestType == [pc : {"idle", "resume", "stop"}, t : Triggers \cup {"none"},
                next : TickTimes \cup {0}, gens : [Triggers -> Int]]

ThreadType == [pc : Pcs, t : Triggers \cup {"none"}, run : Runs \cup {<<>>}, gen : Nat,
               due : TickTimes \cup {0}, at : 0..MaxNow, rotation : 0..MaxRotation,
               known : BOOLEAN, why : {"none", "Refused", "Rejected"}, answer : Answers]

\* Only a schedule has ticks.
TypeInv ==
    /\ trig \in [Triggers -> RowType]
    /\ \A t \in Triggers : trig[t].next # 0 => t \in Schedules
    /\ now \in 0..MaxNow
    /\ rq \in [Requests -> RequestType]
    /\ \A q \in Requests : rq[q].next # 0 => rq[q].t \in Schedules
    /\ \A q \in Requests : rq[q].pc = "resume" => rq[q].t \in Triggers
    /\ queue \in QueueType
    /\ log \in [Runs -> Seq(FiredEvent)]
    /\ made \in [Runs -> Nat]
    /\ stops \subseteq Runs
    /\ stopGen \in [Triggers -> Int]
    /\ pushes \in [Runs -> Nat]
    /\ th \in [Threads -> ThreadType]

\* A run is on the list once, or with one worker.
OnceOnly(q) ==
    /\ \A i, j \in DOMAIN q.runs : q.runs[i] = q.runs[j] => i = j
    /\ \A r \in Runs : /\ q.processing[r] <= 1
                       /\ q.processing[r] = 1 => ~OnRuns(q, r)

\* A run that is queued, claimed, leased, scheduled or completed was pushed.
Ran == {"RunScheduled", "RunCompleted"}
PushedBefore ==
    \A r \in Runs :
        QueuedOrClaimed(queue, r) \/ queue.lease[r] # NoLease \/ Has(log[r], Ran)
            => pushes[r] > 0

\* A stop knows the triggers at generations they have had, and those that run
\* have been resumed since.
Behind(rows, gens) ==
    \A t \in Triggers :
        /\ rows[t] = Absent => gens[t] < 0
        /\ rows[t].stored => gens[t] <= rows[t].gen
        /\ rows[t].enabled => rows[t].stored /\ gens[t] < rows[t].gen

StopsBehind ==
    /\ Behind(trig, stopGen)
    /\ \A q \in Requests : rq[q].pc = "stop" => Behind(trig, rq[q].gens)

\* What holds of a thread in the middle of a fire, whatever the others did since.
ThreadOk(s) ==
    /\ th[s].pc \notin {"idle", "done"} => th[s].t \in Triggers
    /\ th[s].pc \notin {"idle", "done", "first"} => th[s].run \in Runs
    /\ th[s].pc \in {"settle", "gate", "push", "cancel"} => log[th[s].run] # <<>>
    /\ At(s, "push") /\ th[s].gen <= stopGen[th[s].t] => th[s].run \in stops
    /\ At(s, "load") => s \in Sweeps
    /\ At(s, "unpend") /\ s \in Deliveries => ~StillWaiting(log[th[s].run])
    /\ At(s, "replay") => pushes[th[s].run] > 0 \/ ~StillWaiting(log[th[s].run])
    /\ th[s].pc \in {"cancel", "drop"} => th[s].why \in {"Refused", "Rejected"}
    /\ th[s].answer \in {"Started", "Duplicate"} => th[s].run \in Runs /\ pushes[th[s].run] > 0

TriggerInv ==
    /\ TypeInv
    /\ OnceOnly(queue)
    /\ PushedBefore
    /\ StopsBehind
    /\ \A s \in Threads : ThreadOk(s)

(***************************************************************************)
(* Ticks and sequences                                                     *)
(***************************************************************************)
\* A set of naturals that is not empty has a least element.
LEMMA LeastNatural ==
    ASSUME NEW T, T \subseteq Nat, T # {}
    PROVE  \E n \in T : \A m \in T : n <= m
<1> DEFINE R == {ss \in Nat \X Nat : ss[1] < ss[2]}
<1>1. IsWellFoundedOn(R, Nat)
  BY NatLessThanWellFounded DEF OpToRel
<1>2. PICK n \in T : \A m \in T : ~(<<m, n>> \in R)
  <2> HIDE DEF R
  <2> QED BY <1>1, WFMin
<1>3. ASSUME NEW m \in T PROVE n <= m
  <2>1. <<m, n>> \notin R /\ m \in Nat /\ n \in Nat
    BY <1>2
  <2> QED BY <2>1
<1> QED BY <1>3

\* A schedule has a tick after every time the clock may show.
LEMMA FirstTicks ==
    ASSUME NEW t \in Triggers, NEW c \in 0..MaxNow
    PROVE  FirstTick(t, c) \in TickTimes \cup {0} /\ (FirstTick(t, c) # 0 => t \in Schedules)
<1>1. CASE t \in Hooks
  BY <1>1 DEF FirstTick
<1>2. CASE t \notin Hooks
  <2> DEFINE T == {k \in TickTimes : k > c}
  <2>1. T \subseteq Nat /\ T # {}
    <3>1. TickTimes \subseteq Nat /\ MaxNow \in Nat
      BY TriggerAssumption
    <3>2. PICK k \in TickTimes : k > MaxNow
      BY TriggerAssumption
    <3>3. k > c
      BY <3>1, <3>2
    <3> QED BY <3>1, <3>2, <3>3
  <2>2. PICK n \in T : \A m \in T : n <= m
    <3> HIDE DEF T
    <3> QED BY <2>1, LeastNatural
  <2>3. \E k \in TickTimes : k > c /\ \A j \in TickTimes : j > c => k <= j
    BY <2>2
  <2>4. FirstTick(t, c) = CHOOSE k \in TickTimes : k > c /\ \A j \in TickTimes : j > c => k <= j
    BY <1>2 DEF FirstTick
  <2>5. FirstTick(t, c) \in TickTimes
    BY <2>3, <2>4, Zenon
  <2> QED BY <1>2, <2>5 DEF Triggers
<1> QED BY <1>1, <1>2

LEMMA InAppend ==
    ASSUME NEW S, NEW s \in Seq(S), NEW e \in S
    PROVE  /\ Append(s, e) \in Seq(S)
           /\ \A i \in DOMAIN s : i \in DOMAIN Append(s, e) /\ Append(s, e)[i] = s[i]
           /\ Len(s) + 1 \in DOMAIN Append(s, e) /\ Append(s, e)[Len(s) + 1] = e
           /\ \A i \in DOMAIN Append(s, e) : i \in DOMAIN s \/ i = Len(s) + 1
OBVIOUS

(***************************************************************************)
(* Logs                                                                    *)
(***************************************************************************)
LEMMA PlainEvents ==
    /\ \A e \in FiredTypes : Plain(e) \in FiredEvent
    /\ \A e \in FiredTypes : Plain(e).type = e
BY DEF Plain, FiredEvent

\* An event appended to a log: the log stays stored, what is past waiting stays
\* so, and a run has been scheduled or completed if it had, or by this event.
LEMMA Appended ==
    ASSUME NEW l \in Seq(FiredEvent), NEW e \in FiredTypes
    PROVE  LET m == AppendEvents(l, <<Plain(e)>>)
           IN  /\ m \in Seq(FiredEvent)
               /\ l # <<>> => m # <<>>
               /\ ~StillWaiting(l) => ~StillWaiting(m)
               /\ Has(m, Ran) => Has(l, Ran) \/ e \in Ran
<1> DEFINE m == AppendEvents(l, <<Plain(e)>>)
<1>1. CASE m = l
  BY <1>1
<1>2. CASE m = Append(l, Plain(e))
  <2> DEFINE x == Plain(e)
  <2>1. x \in FiredEvent /\ x.type = e
    BY PlainEvents
  <2> HIDE DEF x, m
  <2>2. /\ m \in Seq(FiredEvent)
        /\ \A i \in DOMAIN l : i \in DOMAIN m /\ m[i] = l[i]
        /\ Len(l) + 1 \in DOMAIN m /\ m[Len(l) + 1] = x
        /\ \A i \in DOMAIN m : i \in DOMAIN l \/ i = Len(l) + 1
    BY <1>2, <2>1, InAppend DEF x
  <2>3. m # <<>>
    BY <2>2
  <2>4. ~StillWaiting(l) => ~StillWaiting(m)
    BY <2>2 DEF StillWaiting
  <2>5. Has(m, Ran) => Has(l, Ran) \/ e \in Ran
    BY <2>1, <2>2 DEF Has
  <2> QED BY <2>2, <2>3, <2>4, <2>5 DEF m
<1>3. m = l \/ m = Append(l, Plain(e))
  <2>1. Plain(e) \in FiredEvent
    BY PlainEvents
  <2>2. l \o <<Plain(e)>> = Append(l, Plain(e))
    BY <2>1
  <2> QED BY <2>2 DEF AppendEvents, AppendEventsAfter
<1> QED BY <1>1, <1>2, <1>3

\* A run that was just stored waits.
LEMMA JustQueued ==
    LET l == <<Plain("RunQueued")>>
    IN  l \in Seq(FiredEvent) /\ l # <<>> /\ ~Has(l, Ran)
<1> DEFINE x == Plain("RunQueued")
           l == <<x>>
<1>1. x \in FiredEvent /\ x.type = "RunQueued"
  BY PlainEvents DEF FiredTypes
<1> HIDE DEF x
<1>2. l \in Seq(FiredEvent) /\ l # <<>> /\ (\A i \in DOMAIN l : l[i] = x)
  BY <1>1
<1> HIDE DEF l
<1>3. ~Has(l, Ran)
  BY <1>1, <1>2 DEF Has, Ran
<1> QED BY <1>2, <1>3 DEF l, x

\* What is stored and waits for nobody was cancelled before it ran, or ran.
LEMMA NotWaiting ==
    ASSUME NEW l \in Seq(FiredEvent), ~StillWaiting(l), Replay(l) # "Refused"
    PROVE  Replay(l) = "Duplicate" /\ Has(l, Ran)
<1>1. PICK i \in DOMAIN l : l[i].type # "RunQueued"
  BY DEF StillWaiting
<1>2. l[i] \in FiredEvent
  OBVIOUS
<1>3. l[i].type \in {"RunScheduled", "RunCompleted", "RunCancelled"}
  BY <1>1, <1>2 DEF FiredEvent, FiredTypes
<1>4. l[i].type = "RunCancelled" => Has(l, {"RunCancelled"})
  BY DEF Has
<1>5. Has(l, {"RunScheduled"}) => Has(l, Ran)
  BY DEF Has, Ran
<1>6. l[i].type \in Ran => Has(l, Ran)
  BY DEF Has
<1> QED BY <1>3, <1>4, <1>5, <1>6 DEF Replay, Ran

(***************************************************************************)
(* The scripts                                                             *)
(***************************************************************************)
LEMMA QueueFields ==
    ASSUME NEW q \in QueueType
    PROVE  /\ q.runs \in Seq(Runs)
           /\ q.processing \in [Runs -> Nat]
           /\ q.deliveries \in [Runs -> Nat]
           /\ q.pending \in [Runs -> PendingAge]
           /\ q.lease \in [Runs -> Workers \cup {NoLease}]
BY DEF QueueType

\* Held or leased by a worker, or on the list.
Live(q, r) == QueuedOrClaimed(q, r) \/ q.lease[r] # NoLease

\* The scripts that only date a run or take it off pending.
LEMMA PendingScripts ==
    ASSUME NEW q \in QueueType, NEW r \in Runs, NEW p,
           p \in {Pend(q, r), Unpend(q, r), PendingAges(q, r)}
    PROVE  /\ p \in QueueType
           /\ OnceOnly(q) => OnceOnly(p)
           /\ \A s \in Runs : Live(p, s) => Live(q, s)
<1>1. /\ p \in QueueType
      /\ p.runs = q.runs /\ p.processing = q.processing /\ p.lease = q.lease
  <2>1. PICK age \in PendingAge : p = [q EXCEPT !.pending = [q.pending EXCEPT ![r] = age]]
    <3>1. q.pending[r] \in PendingAge
      BY QueueFields
    <3>2. p = Pend(q, r) => p = [q EXCEPT !.pending = [q.pending EXCEPT ![r] =
                                    IF q.pending[r] = "no" THEN "fresh" ELSE q.pending[r]]]
      BY DEF Pend
    <3>3. p = Unpend(q, r) => p = [q EXCEPT !.pending = [q.pending EXCEPT ![r] = "no"]]
      BY DEF Unpend
    <3>4. p = PendingAges(q, r) => p = [q EXCEPT !.pending = [q.pending EXCEPT ![r] =
                                    IF q.pending[r] = "no" THEN q.pending[r] ELSE "old"]]
      BY DEF PendingAges
    <3>5. "no" \in PendingAge /\ "fresh" \in PendingAge /\ "old" \in PendingAge
      BY DEF PendingAge
    <3> QED BY <3>1, <3>2, <3>3, <3>4, <3>5
  <2>2. [q.pending EXCEPT ![r] = age] \in [Runs -> PendingAge]
    BY QueueFields
  <2> QED BY <2>1, <2>2 DEF QueueType
<1>2. \A s : OnRuns(p, s) <=> OnRuns(q, s)
  BY <1>1 DEF OnRuns
<1> QED BY <1>1, <1>2 DEF OnceOnly, Live, QueuedOrClaimed

\* PUSH_ONCE: the run is pushed only if it is nowhere.
LEMMA PushedOnce ==
    ASSUME NEW q \in QueueType, NEW r \in Runs
    PROVE  LET p == PushOnce(q, r)
           IN  /\ p \in QueueType
               /\ OnceOnly(q) => OnceOnly(p)
               /\ \A s \in Runs : Live(p, s) => Live(q, s) \/ (s = r /\ p.runs # q.runs)
               /\ p.runs = q.runs => QueuedOrClaimed(q, r)
<1> DEFINE p == PushOnce(q, r)
<1>1. CASE QueuedOrClaimed(q, r)
  <2>1. p = Unpend(q, r)
    BY <1>1 DEF PushOnce
  <2>2. /\ p \in QueueType
        /\ OnceOnly(q) => OnceOnly(p)
        /\ \A s \in Runs : Live(p, s) => Live(q, s)
    BY <2>1, PendingScripts
  <2> QED BY <1>1, <2>2
<1>2. CASE ~QueuedOrClaimed(q, r)
  <2>1. p = Push(q, r)
    BY <1>2 DEF PushOnce
  <2>2. q.runs \in Seq(Runs)
    BY QueueFields
  <2>3. /\ p.runs = Append(q.runs, r) /\ p.processing = q.processing /\ p.lease = q.lease
        /\ p \in QueueType
    <3>1. Append(q.runs, r) \in Seq(Runs)
      BY <2>2, InAppend
    <3>2. [q.pending EXCEPT ![r] = "no"] \in [Runs -> PendingAge]
      BY QueueFields DEF PendingAge
    <3> QED BY <2>1, <3>1, <3>2 DEF Push, QueueType
  <2>4. /\ \A i \in DOMAIN q.runs : i \in DOMAIN p.runs /\ p.runs[i] = q.runs[i]
        /\ Len(q.runs) + 1 \in DOMAIN p.runs /\ p.runs[Len(q.runs) + 1] = r
        /\ \A i \in DOMAIN p.runs : i \in DOMAIN q.runs \/ i = Len(q.runs) + 1
    BY <2>2, <2>3, InAppend
  <2>5. p.runs # q.runs
    BY <2>2, <2>3
  <2> HIDE DEF p
  <2>6. \A s \in Runs : OnRuns(p, s) => OnRuns(q, s) \/ s = r
    BY <2>4 DEF OnRuns
  <2>7. \A i \in DOMAIN q.runs : q.runs[i] # r
    BY <1>2 DEF QueuedOrClaimed, OnRuns
  <2>8. OnceOnly(q) => OnceOnly(p)
    <3> HAVE OnceOnly(q)
    <3>1. \A i, j \in DOMAIN p.runs : p.runs[i] = p.runs[j] => i = j
      BY <2>4, <2>7 DEF OnceOnly
    <3>2. ASSUME NEW s \in Runs
          PROVE  p.processing[s] <= 1 /\ (p.processing[s] = 1 => ~OnRuns(p, s))
      <4>1. q.processing[s] \in Nat
        BY QueueFields
      <4>2. s = r => ~(q.processing[s] > 0)
        BY <1>2 DEF QueuedOrClaimed
      <4> QED BY <2>3, <2>6, <4>1, <4>2 DEF OnceOnly
    <3> QED BY <3>1, <3>2 DEF OnceOnly
  <2>9. \A s \in Runs : Live(p, s) => Live(q, s) \/ s = r
    BY <2>3, <2>6 DEF Live, QueuedOrClaimed
  <2> QED BY <2>3, <2>5, <2>8, <2>9 DEF p
<1> QED BY <1>1, <1>2

\* CLAIM moves the head of the list to one worker.
LEMMA Claimed ==
    ASSUME NEW q \in QueueType, NEW w \in Workers, q.runs # <<>>
    PROVE  LET p == Claim(q, w)
           IN  /\ p \in QueueType
               /\ OnceOnly(q) => OnceOnly(p)
               /\ \A s \in Runs : Live(p, s) => Live(q, s)
<1> DEFINE p == Claim(q, w)
           r == Head(q.runs)
<1>1. q.runs \in Seq(Runs) /\ r \in Runs /\ Tail(q.runs) \in Seq(Runs) /\ OnRuns(q, r)
  BY QueueFields DEF OnRuns
<1>2. p.runs = Tail(q.runs) /\ p \in QueueType
      /\ \/ /\ q.lease[r] = NoLease
            /\ p.processing = [q.processing EXCEPT ![r] = q.processing[r] + 1]
            /\ p.lease = [q.lease EXCEPT ![r] = w]
         \/ /\ q.lease[r] # NoLease
            /\ p.processing = q.processing /\ p.lease = q.lease
  <2>1. [q.processing EXCEPT ![r] = q.processing[r] + 1] \in [Runs -> Nat]
        /\ [q.lease EXCEPT ![r] = w] \in [Runs -> Workers \cup {NoLease}]
    BY <1>1, QueueFields
  <2>2. CASE q.lease[r] = NoLease
    BY <1>1, <2>1, <2>2 DEF Claim, QueueType
  <2>3. CASE q.lease[r] # NoLease
    BY <1>1, <2>3 DEF Claim, QueueType
  <2> QED BY <2>2, <2>3
<1>3. \A i \in DOMAIN Tail(q.runs) : i + 1 \in DOMAIN q.runs /\ Tail(q.runs)[i] = q.runs[i + 1]
                                      /\ i \in Nat /\ i # 0
  BY <1>1
<1>4. 1 \in DOMAIN q.runs /\ q.runs[1] = r
  BY <1>1
<1> HIDE DEF p, r
<1>5. \A s \in Runs : OnRuns(p, s) => OnRuns(q, s)
  BY <1>2, <1>3 DEF OnRuns
<1>6. OnceOnly(q) => OnceOnly(p)
  <2> HAVE OnceOnly(q)
  <2>1. \A i, j \in DOMAIN p.runs : p.runs[i] = p.runs[j] => i = j
    <3> TAKE i, j \in DOMAIN p.runs
    <3> HAVE p.runs[i] = p.runs[j]
    <3>1. i + 1 = j + 1
      BY <1>2, <1>3 DEF OnceOnly
    <3> QED BY <1>2, <1>3, <3>1
  <2>2. ~OnRuns(p, r)
    <3> SUFFICES ASSUME NEW i \in DOMAIN p.runs, p.runs[i] = r PROVE FALSE
      BY DEF OnRuns
    <3>1. i + 1 \in DOMAIN q.runs /\ q.runs[i + 1] = r /\ i \in Nat /\ i # 0
      BY <1>2, <1>3
    <3>2. i + 1 = 1
      BY <1>4, <3>1 DEF OnceOnly
    <3> QED BY <3>1, <3>2
  <2>3. q.processing[r] = 0
    BY <1>1, QueueFields DEF OnceOnly
  <2>4. ASSUME NEW s \in Runs
        PROVE  p.processing[s] <= 1 /\ (p.processing[s] = 1 => ~OnRuns(p, s))
    <3>1. q.processing[s] \in Nat /\ q.processing \in [Runs -> Nat]
      BY QueueFields
    <3>2. CASE s = r
      BY <1>1, <1>2, <2>2, <2>3, <3>1, <3>2
    <3>3. CASE s # r
      <4>1. p.processing[s] = q.processing[s]
        BY <1>1, <1>2, <3>1, <3>3
      <4> QED BY <1>5, <4>1 DEF OnceOnly
    <3> QED BY <3>2, <3>3
  <2> QED BY <2>1, <2>4 DEF OnceOnly
<1>7. ASSUME NEW s \in Runs, Live(p, s) PROVE Live(q, s)
  <2>1. CASE s = r
    BY <1>1, <2>1 DEF Live, QueuedOrClaimed
  <2>2. CASE s # r
    <3>1. p.processing[s] = q.processing[s] /\ p.lease[s] = q.lease[s]
      BY <1>1, <1>2, <2>2, QueueFields
    <3> QED BY <1>5, <1>7, <3>1 DEF Live, QueuedOrClaimed
  <2> QED BY <2>1, <2>2
<1> QED BY <1>2, <1>6, <1>7 DEF p

\* ACK takes the run off processing.
LEMMA Acked ==
    ASSUME NEW q \in QueueType, NEW r \in Runs, NEW w \in Workers
    PROVE  LET p == Ack(q, r, w)
           IN  /\ p \in QueueType
               /\ OnceOnly(q) => OnceOnly(p)
               /\ \A s \in Runs : Live(p, s) => Live(q, s)
<1> DEFINE p == Ack(q, r, w)
<1>1. /\ p \in QueueType
      /\ p.runs = q.runs
      /\ p.processing = [q.processing EXCEPT ![r] = OneLess(q.processing[r])]
      /\ p.lease = [q.lease EXCEPT ![r] = IF q.lease[r] = w THEN NoLease ELSE q.lease[r]]
  <2>1. OneLess(q.processing[r]) \in Nat
    BY QueueFields DEF OneLess
  <2>2. /\ [q.processing EXCEPT ![r] = OneLess(q.processing[r])] \in [Runs -> Nat]
        /\ [q.deliveries EXCEPT ![r] = 0] \in [Runs -> Nat]
        /\ [q.lease EXCEPT ![r] = IF q.lease[r] = w THEN NoLease ELSE q.lease[r]]
              \in [Runs -> Workers \cup {NoLease}]
    BY <2>1, QueueFields
  <2> QED BY <2>2 DEF Ack, QueueType
<1>2. \A s : OnRuns(p, s) <=> OnRuns(q, s)
  BY <1>1 DEF OnRuns
<1>3. ASSUME NEW s \in Runs
      PROVE  /\ q.processing[s] \in Nat /\ p.processing[s] \in Nat /\ p.processing[s] <= q.processing[s]
             /\ p.lease[s] # NoLease => q.lease[s] # NoLease
  BY <1>1, QueueFields DEF OneLess
<1> HIDE DEF p
<1>4. OnceOnly(q) => OnceOnly(p)
  <2> HAVE OnceOnly(q)
  <2>1. ASSUME NEW s \in Runs
        PROVE  p.processing[s] <= 1 /\ (p.processing[s] = 1 => ~OnRuns(p, s))
    <3>1. q.processing[s] <= 1 /\ (q.processing[s] = 1 => ~OnRuns(q, s))
      BY DEF OnceOnly
    <3> QED BY <1>2, <1>3, <3>1
  <2> QED BY <1>1, <2>1 DEF OnceOnly
<1>5. ASSUME NEW s \in Runs, Live(p, s) PROVE Live(q, s)
  BY <1>2, <1>3, <1>5 DEF Live, QueuedOrClaimed
<1> QED BY <1>1, <1>4, <1>5 DEF p

(***************************************************************************)
(* Threads                                                                 *)
(***************************************************************************)
\* What no step takes from a fire under way, but the stop's record.
KeptRuns ==
    \A r \in Runs : /\ log[r] # <<>> => log'[r] # <<>>
                    /\ ~StillWaiting(log[r]) => ~StillWaiting(log'[r])
                    /\ pushes[r] > 0 => pushes'[r] > 0

Kept == KeptRuns /\ stops \subseteq stops' /\ stopGen' = stopGen

Moves(s) == th' \in [Threads -> ThreadType] /\ \A u \in Threads \ {s} : th'[u] = th[u]

\* Thread s goes on with the fire it has in hand.
SameFire(s) ==
    /\ th'[s].t = th[s].t /\ th'[s].run = th[s].run
    /\ th'[s].gen = th[s].gen /\ th'[s].why = th[s].why
    /\ th'[s].answer = th[s].answer

LEMMA ThreadStands ==
    ASSUME TypeInv, Kept, NEW s \in Threads, th'[s] = th[s], ThreadOk(s)
    PROVE  ThreadOk(s)'
<1> DEFINE x == th[s]
           y == th'[s]
<1>1. x \in ThreadType /\ y = x
  BY DEF TypeInv
<1>2. x.pc \notin {"idle", "done", "first"} => x.run \in Runs
  BY DEF ThreadOk
<1>3. x.pc \in {"settle", "gate", "push", "cancel"} => log'[x.run] # <<>>
  BY <1>2 DEF ThreadOk, Kept, KeptRuns
<1>4. x.pc = "push" /\ x.gen <= stopGen'[x.t] => x.run \in stops'
  BY DEF ThreadOk, Kept, At
<1>5. x.pc = "unpend" /\ s \in Deliveries => ~StillWaiting(log'[x.run])
  BY <1>2 DEF ThreadOk, Kept, KeptRuns, At
<1>6. x.pc = "replay" => pushes'[x.run] > 0 \/ ~StillWaiting(log'[x.run])
  BY <1>2 DEF ThreadOk, Kept, KeptRuns, At
<1>7. x.answer \in {"Started", "Duplicate"} => x.run \in Runs /\ pushes'[x.run] > 0
  BY DEF ThreadOk, Kept, KeptRuns
<1>8. /\ x.pc \notin {"idle", "done"} => x.t \in Triggers
      /\ x.pc = "load" => s \in Sweeps
      /\ x.pc \in {"cancel", "drop"} => x.why \in {"Refused", "Rejected"}
  BY DEF ThreadOk, At
<1> QED BY <1>1, <1>2, <1>3, <1>4, <1>5, <1>6, <1>7, <1>8 DEF ThreadOk, At

\* One thread moves, the others stand.
LEMMA OneMoves ==
    ASSUME TriggerInv, Kept, NEW s \in Threads, Moves(s), ThreadOk(s)'
    PROVE  \A u \in Threads : ThreadOk(u)'
<1> TAKE u \in Threads
<1>1. CASE u = s
  BY <1>1
<1>2. CASE u # s
  <2>1. th'[u] = th[u]
    BY <1>2 DEF Moves
  <2> QED BY <2>1, ThreadStands DEF TriggerInv
<1> QED BY <1>1, <1>2

LEMMA NoneMoves ==
    ASSUME TriggerInv, Kept, th' = th
    PROVE  \A u \in Threads : ThreadOk(u)'
BY ThreadStands DEF TriggerInv

LEMMA IdleIsThread ==
    /\ IdleThread \in ThreadType
    /\ IdleThread.pc = "idle" /\ IdleThread.answer = "none"
<1>1. 0 \in 0..MaxNow /\ 0 \in 0..MaxRotation
  BY TriggerAssumption
<1> QED BY <1>1 DEF IdleThread, ThreadType, Pcs, Answers

LEMMA ThreadBecomes ==
    ASSUME TypeInv, NEW s \in Threads, NEW x \in ThreadType, th' = [th EXCEPT ![s] = x]
    PROVE  Moves(s) /\ th'[s] = x
BY DEF TypeInv, Moves

\* To the next step of the fire.
LEMMA GoesTo ==
    ASSUME TypeInv, NEW s \in Threads, NEW pc \in Pcs, Goto(s, pc)
    PROVE  Moves(s) /\ th'[s].pc = pc /\ SameFire(s)
<1> DEFINE x == [th[s] EXCEPT !.pc = pc]
<1>1. th[s] \in ThreadType
  BY DEF TypeInv
<1>2. x \in ThreadType /\ x.pc = pc /\ x.t = th[s].t /\ x.run = th[s].run
      /\ x.gen = th[s].gen /\ x.why = th[s].why /\ x.answer = th[s].answer
  BY <1>1 DEF ThreadType
<1>3. th' = [th EXCEPT ![s] = x]
  BY DEF Goto
<1> HIDE DEF x
<1> QED BY <1>2, <1>3, ThreadBecomes DEF SameFire

\* The end of what a thread had in hand.
LEMMA Concludes ==
    ASSUME TypeInv, NEW s \in Threads, NEW a \in Answers, Conclude(s, a),
           a \in {"Started", "Duplicate"} => th[s].run \in Runs /\ pushes'[th[s].run] > 0
    PROVE  Moves(s) /\ ThreadOk(s)'
<1> DEFINE y == [IdleThread EXCEPT !.pc = "done", !.run = th[s].run, !.answer = a]
<1>1. th[s] \in ThreadType
  BY DEF TypeInv
<1>2. CASE s \in Deliveries
  <2>1. y \in ThreadType /\ y.pc = "done" /\ y.run = th[s].run /\ y.answer = a
    <3>1. th[s].run \in Runs \cup {<<>>} /\ "done" \in Pcs
      BY <1>1 DEF ThreadType, Pcs
    <3>2. 0 \in 0..MaxNow /\ 0 \in 0..MaxRotation
      BY TriggerAssumption
    <3> QED BY <3>1, <3>2 DEF IdleThread, ThreadType
  <2>2. th' = [th EXCEPT ![s] = y]
    BY <1>2 DEF Conclude
  <2> HIDE DEF y
  <2>3. Moves(s) /\ th'[s] = y
    BY <2>1, <2>2, ThreadBecomes
  <2> QED BY <2>1, <2>3 DEF ThreadOk, At
<1>3. CASE s \notin Deliveries
  <2>1. th' = [th EXCEPT ![s] = IdleThread]
    BY <1>3 DEF Conclude
  <2>2. Moves(s) /\ th'[s] = IdleThread
    BY <2>1, IdleIsThread, ThreadBecomes
  <2> QED BY <2>2, IdleIsThread DEF ThreadOk, At
<1> QED BY <1>2, <1>3

\* On to moving the trigger.
LEMMA MovesOn ==
    ASSUME TypeInv, KeptRuns, NEW s \in Threads, MoveOn(s), ThreadOk(s),
           th[s].pc \notin {"idle", "done", "first"}
    PROVE  Moves(s) /\ ThreadOk(s)'
<1> DEFINE y == [th[s] EXCEPT !.pc = "advance", !.gen = 0, !.why = "none"]
<1>1. th[s] \in ThreadType
  BY DEF TypeInv
<1>2. y \in ThreadType /\ y.pc = "advance" /\ y.t = th[s].t /\ y.run = th[s].run
      /\ y.answer = th[s].answer
  BY <1>1 DEF ThreadType, Pcs
<1>3. th' = [th EXCEPT ![s] = y]
  BY DEF MoveOn
<1> HIDE DEF y
<1>4. Moves(s) /\ th'[s] = y
  BY <1>2, <1>3, ThreadBecomes
<1>5. th[s].t \in Triggers /\ th[s].run \in Runs
      /\ (th[s].answer \in {"Started", "Duplicate"} => pushes'[th[s].run] > 0)
  BY DEF ThreadOk, KeptRuns
<1> QED BY <1>2, <1>4, <1>5 DEF ThreadOk, At

LEMMA NothingIsFired ==
    ASSUME TypeInv, KeptRuns, NEW s \in Threads, NEW a \in Answers, NothingFired(s, a), ThreadOk(s),
           th[s].pc \notin {"idle", "done", "first"},
           a \in {"Started", "Duplicate"} => pushes'[th[s].run] > 0
    PROVE  Moves(s) /\ ThreadOk(s)'
<1>1. th[s].run \in Runs
  BY DEF ThreadOk
<1>2. CASE s \in Schedulers
  BY <1>2, MovesOn DEF NothingFired
<1>3. CASE s \notin Schedulers
  <2>1. Conclude(s, a)
    BY <1>3 DEF NothingFired
  <2> QED BY <1>1, <2>1, Concludes
<1> QED BY <1>2, <1>3

\* A settle that found nothing to do: a delivery tells its sender what it found.
LEMMA NothingToDo ==
    ASSUME TypeInv, KeptRuns, NEW s \in Threads, Found(s), ThreadOk(s),
           th[s].pc \notin {"idle", "done", "first"},
           s \in Deliveries => pushes'[th[s].run] > 0 \/ ~StillWaiting(log'[th[s].run])
    PROVE  Moves(s) /\ ThreadOk(s)'
<1>1. CASE s \in Schedulers
  BY <1>1, MovesOn DEF Found
<1>2. CASE s \notin Schedulers /\ s \in Deliveries
  <2>1. Goto(s, "replay") /\ "replay" \in Pcs
    BY <1>2 DEF Found, Pcs
  <2>2. Moves(s) /\ th'[s].pc = "replay" /\ SameFire(s)
    BY <2>1, GoesTo
  <2>3. th[s].t \in Triggers /\ th[s].run \in Runs
        /\ (th[s].answer \in {"Started", "Duplicate"} => pushes'[th[s].run] > 0)
    BY DEF ThreadOk, KeptRuns
  <2> QED BY <1>2, <2>2, <2>3 DEF ThreadOk, At, SameFire
<1>3. CASE s \notin Schedulers /\ s \notin Deliveries
  <2>1. Conclude(s, "none") /\ "none" \in Answers
    BY <1>3 DEF Found, Answers
  <2> QED BY <2>1, Concludes
<1> QED BY <1>1, <1>2, <1>3

(***************************************************************************)
(* What the parts of the invariant need of a step                          *)
(***************************************************************************)
LEMMA RunsStand == log' = log /\ pushes' = pushes => KeptRuns
BY DEF KeptRuns

LEMMA GensStand ==
    ASSUME StopsBehind, trig' = trig, rq' = rq, stopGen' = stopGen
    PROVE  StopsBehind'
BY DEF StopsBehind, Behind

\* Only the thread moves.
LEMMA ThreadStep ==
    ASSUME TriggerInv, UNCHANGED shared, NEW s \in Threads, Moves(s), ThreadOk(s)'
    PROVE  TriggerInv'
<1>1. Kept
  BY RunsStand DEF shared, Kept
<1>2. \A u \in Threads : ThreadOk(u)'
  BY <1>1, OneMoves
<1>3. TypeInv'
  BY DEF TriggerInv, TypeInv, shared, Moves
<1>4. OnceOnly(queue)'
  BY DEF TriggerInv, OnceOnly, OnRuns, shared
<1>5. PushedBefore'
  BY DEF TriggerInv, PushedBefore, QueuedOrClaimed, OnRuns, shared
<1>6. StopsBehind'
  BY GensStand DEF TriggerInv, shared
<1> QED BY <1>2, <1>3, <1>4, <1>5, <1>6 DEF TriggerInv

\* A script ran that makes no run live.
LEMMA QueueStep ==
    ASSUME TriggerInv, NEW p \in QueueType, queue' = p, log' = log, pushes' = pushes,
           OnceOnly(queue) => OnceOnly(p), \A r \in Runs : Live(p, r) => Live(queue, r)
    PROVE  OnceOnly(queue)' /\ PushedBefore' /\ KeptRuns
<1>1. OnceOnly(queue)'
  BY DEF TriggerInv, OnceOnly, OnRuns
<1>2. \A r \in Runs : Live(queue, r) => pushes[r] > 0
  BY DEF TriggerInv, PushedBefore, Live
<1>3. \A r \in Runs : Has(log[r], Ran) => pushes[r] > 0
  BY DEF TriggerInv, PushedBefore
<1>4. PushedBefore'
  BY <1>2, <1>3 DEF PushedBefore, Live, QueuedOrClaimed, OnRuns
<1> QED BY <1>1, <1>4, RunsStand

\* A log grew.
LEMMA LogStep ==
    ASSUME TriggerInv, NEW r \in Runs, NEW m \in Seq(FiredEvent), log' = [log EXCEPT ![r] = m],
           log[r] # <<>> => m # <<>>, ~StillWaiting(log[r]) => ~StillWaiting(m),
           Has(m, Ran) => pushes[r] > 0, pushes' = pushes
    PROVE  /\ log' \in [Runs -> Seq(FiredEvent)] /\ KeptRuns
           /\ (\A q \in Runs : Live(queue', q) => Live(queue, q)) => PushedBefore'
<1>1. log \in [Runs -> Seq(FiredEvent)] /\ pushes \in [Runs -> Nat]
  BY DEF TriggerInv, TypeInv
<1>2. log' \in [Runs -> Seq(FiredEvent)] /\ log'[r] = m /\ \A q \in Runs \ {r} : log'[q] = log[q]
  BY <1>1
<1>3. KeptRuns
  BY <1>2 DEF KeptRuns
<1>4. \A q \in Runs : Has(log'[q], Ran) => pushes[q] > 0
  <2> TAKE q \in Runs
  <2>1. CASE q = r
    BY <1>2, <2>1
  <2>2. CASE q # r
    BY <1>2, <2>2 DEF TriggerInv, PushedBefore
  <2> QED BY <2>1, <2>2
<1>5. \A q \in Runs : Live(queue, q) => pushes[q] > 0
  BY DEF TriggerInv, PushedBefore, Live
<1>6. ASSUME \A q \in Runs : Live(queue', q) => Live(queue, q) PROVE PushedBefore'
  BY <1>4, <1>5, <1>6 DEF PushedBefore, Live, QueuedOrClaimed, OnRuns
<1> QED BY <1>2, <1>3, <1>6

\* An event of a worker or of a stop.
LEMMA EventStep ==
    ASSUME TriggerInv, NEW r \in Runs, NEW e \in FiredTypes, e \in Ran => pushes[r] > 0,
           log' = [log EXCEPT ![r] = AppendEvents(@, <<Plain(e)>>)], pushes' = pushes
    PROVE  /\ log' \in [Runs -> Seq(FiredEvent)] /\ KeptRuns
           /\ (\A q \in Runs : Live(queue', q) => Live(queue, q)) => PushedBefore'
<1> DEFINE m == AppendEvents(log[r], <<Plain(e)>>)
<1>1. log[r] \in Seq(FiredEvent)
  BY DEF TriggerInv, TypeInv
<1>2. /\ m \in Seq(FiredEvent)
      /\ log[r] # <<>> => m # <<>>
      /\ ~StillWaiting(log[r]) => ~StillWaiting(m)
      /\ Has(m, Ran) => Has(log[r], Ran) \/ e \in Ran
  BY <1>1, Appended
<1>3. Has(log[r], Ran) => pushes[r] > 0
  BY DEF TriggerInv, PushedBefore
<1>4. log' = [log EXCEPT ![r] = m]
  OBVIOUS
<1> HIDE DEF m
<1> QED BY <1>2, <1>3, <1>4, LogStep

\* PUSH_ONCE, counted.
LEMMA PushStep ==
    ASSUME TriggerInv, NEW r \in Runs, PushEffect(r), log' = log
    PROVE  /\ queue' \in QueueType /\ pushes' \in [Runs -> Nat]
           /\ OnceOnly(queue)' /\ PushedBefore' /\ KeptRuns
           /\ pushes'[r] > 0
<1> DEFINE p == PushOnce(queue, r)
<1>1. queue \in QueueType /\ pushes \in [Runs -> Nat] /\ OnceOnly(queue)
  BY DEF TriggerInv, TypeInv
<1>2. /\ p \in QueueType /\ OnceOnly(p)
      /\ \A s \in Runs : Live(p, s) => Live(queue, s) \/ (s = r /\ p.runs # queue.runs)
      /\ p.runs = queue.runs => QueuedOrClaimed(queue, r)
  BY <1>1, PushedOnce
<1>3. queue' = p
  BY DEF PushEffect
<1> HIDE DEF p
<1>4. /\ p.runs = queue.runs => pushes' = pushes
      /\ p.runs # queue.runs => pushes' = [pushes EXCEPT ![r] = pushes[r] + 1]
  <2>1. pushes' = [pushes EXCEPT ![r] = IF p.runs # queue.runs THEN @ + 1 ELSE @]
    BY <1>3 DEF PushEffect
  <2>2. [pushes EXCEPT ![r] = pushes[r]] = pushes
    BY <1>1
  <2> QED BY <2>1, <2>2
<1>5. \A s \in Runs : Live(queue, s) \/ Has(log[s], Ran) => pushes[s] > 0
  BY DEF TriggerInv, PushedBefore, Live
<1>6. pushes' \in [Runs -> Nat] /\ (p.runs # queue.runs => pushes'[r] > 0)
      /\ \A s \in Runs : pushes'[s] >= pushes[s]
  BY <1>1, <1>4
<1>7. pushes'[r] > 0
  <2>1. CASE p.runs = queue.runs
    BY <1>2, <1>4, <1>5, <2>1 DEF Live
  <2>2. CASE p.runs # queue.runs
    BY <1>6, <2>2
  <2> QED BY <2>1, <2>2
<1>8. \A s \in Runs : pushes[s] > 0 => pushes'[s] > 0
  BY <1>1, <1>6
<1>9. PushedBefore'
  <2>1. ASSUME NEW s \in Runs, Live(p, s) \/ Has(log[s], Ran) PROVE pushes'[s] > 0
    BY <1>2, <1>5, <1>7, <1>8, <2>1
  <2> QED BY <1>3, <2>1 DEF PushedBefore, Live, QueuedOrClaimed, OnRuns
<1>10. OnceOnly(queue)'
  BY <1>2, <1>3 DEF OnceOnly, OnRuns
<1>11. KeptRuns
  BY <1>8 DEF KeptRuns
<1> QED BY <1>2, <1>3, <1>6, <1>7, <1>9, <1>10, <1>11

(***************************************************************************)
(* A thread takes up a fire                                                *)
(***************************************************************************)
LEMMA StartsInd ==
    ASSUME TriggerInv, NEW s \in Threads, FireStarts(s)
    PROVE  TriggerInv'
<1>1. /\ now \in 0..MaxNow /\ trig \in [Triggers -> RowType]
      /\ \A t \in Triggers : trig[t].next # 0 => t \in Schedules
  BY DEF TriggerInv, TypeInv
<1>2. 0 \in 0..MaxNow /\ 0 \in 0..MaxRotation
      /\ Runs = (Schedules \X TickTimes) \cup (Hooks \X Events)
  BY TriggerAssumption
<1>3. ASSUME NEW x \in ThreadType, th' = [th EXCEPT ![s] = x], UNCHANGED shared,
             x.pc \in {"first", "read", "advance", "lookup", "load"}, x.t \in Triggers,
             x.pc # "first" => x.run \in Runs, x.pc = "load" => s \in Sweeps, x.answer = "none"
      PROVE  TriggerInv'
  <2>1. Moves(s) /\ th'[s] = x
    BY <1>3, ThreadBecomes DEF TriggerInv
  <2>2. ThreadOk(s)'
    BY <1>3, <2>1 DEF ThreadOk, At
  <2> QED BY <1>3, <2>1, <2>2, ThreadStep
<1>4. ASSUME NEW t \in Triggers, FindUnscheduled(s, t) PROVE TriggerInv'
  <2> DEFINE x == [IdleThread EXCEPT !.pc = "first", !.t = t, !.at = now]
  <2>1. x \in ThreadType /\ x.pc = "first" /\ x.t = t /\ x.answer = "none"
    BY <1>1, <1>2 DEF IdleThread, ThreadType, Pcs, Answers
  <2>2. th' = [th EXCEPT ![s] = x] /\ UNCHANGED shared
    BY <1>4 DEF FindUnscheduled
  <2> HIDE DEF x
  <2> QED BY <1>3, <2>1, <2>2
<1>5. ASSUME NEW t \in Triggers, FindDue(s, t) PROVE TriggerInv'
  <2> DEFINE due == trig[t].next
             pc  == IF Missed(due) /\ t \in SkipsMissed THEN "advance" ELSE "read"
             x   == [IdleThread EXCEPT !.t = t, !.due = due, !.run = <<t, due>>, !.at = now,
                                       !.pc = pc]
  <2>1. due \in TickTimes /\ t \in Schedules
    BY <1>1, <1>5 DEF FindDue, Due, RowType
  <2>2. <<t, due>> \in Runs
    BY <1>2, <2>1
  <2>3. th' = [th EXCEPT ![s] = x] /\ UNCHANGED shared
    BY <1>5 DEF FindDue
  <2>4. pc \in {"read", "advance"}
    OBVIOUS
  <2> HIDE DEF pc, due
  <2>5. x \in ThreadType /\ x.pc = pc /\ x.t = t /\ x.run = <<t, due>> /\ x.answer = "none"
    BY <1>1, <1>2, <2>1, <2>2, <2>4 DEF IdleThread, ThreadType, Pcs, Answers
  <2> HIDE DEF x
  <2> QED BY <1>3, <2>2, <2>3, <2>4, <2>5
<1>6. ASSUME NEW t \in Triggers, NEW e \in Events, Deliver(s, t, e) PROVE TriggerInv'
  <2>1. PICK n \in 0..trig[t].rotation :
           th' = [th EXCEPT ![s] = [IdleThread EXCEPT !.pc = "lookup", !.t = t, !.run = <<t, e>>,
                                                      !.rotation = n]]
    BY <1>6 DEF Deliver
  <2> DEFINE x == [IdleThread EXCEPT !.pc = "lookup", !.t = t, !.run = <<t, e>>, !.rotation = n]
  <2>2. t \in Hooks /\ UNCHANGED shared
    BY <1>6 DEF Deliver
  <2>3. <<t, e>> \in Runs
    BY <1>2, <2>2
  <2>4. n \in 0..MaxRotation
    <3>1. trig[t].rotation \in 0..MaxRotation /\ MaxRotation \in Nat
      BY <1>1, TriggerAssumption DEF RowType
    <3> QED BY <3>1
  <2>5. x \in ThreadType /\ x.pc = "lookup" /\ x.t = t /\ x.run = <<t, e>> /\ x.answer = "none"
    BY <1>2, <2>3, <2>4 DEF IdleThread, ThreadType, Pcs, Answers
  <2>6. th' = [th EXCEPT ![s] = x]
    BY <2>1
  <2> HIDE DEF x
  <2> QED BY <1>3, <2>2, <2>3, <2>5, <2>6
<1>7. ASSUME NEW r \in Runs, SweepLists(s, r) PROVE TriggerInv'
  <2> DEFINE x == [IdleThread EXCEPT !.pc = "load", !.t = r[1], !.run = r]
  <2>1. r[1] \in Triggers
    BY <1>2 DEF Triggers
  <2>2. x \in ThreadType /\ x.pc = "load" /\ x.t = r[1] /\ x.run = r /\ x.answer = "none"
    BY <1>2, <2>1 DEF IdleThread, ThreadType, Pcs, Answers
  <2>3. th' = [th EXCEPT ![s] = x] /\ UNCHANGED shared /\ s \in Sweeps
    BY <1>7 DEF SweepLists
  <2> HIDE DEF x
  <2> QED BY <1>3, <2>1, <2>2, <2>3
<1> QED BY <1>4, <1>5, <1>6, <1>7 DEF FireStarts

(***************************************************************************)
(* A scheduler's statements                                                *)
(***************************************************************************)
\* What a stop knows of the triggers stays behind rows that are paused, moved on,
\* deleted or resumed.
LEMMA RowsGoOn ==
    ASSUME NEW rows \in [Triggers -> RowType], NEW new \in [Triggers -> RowType],
           NEW gens \in [Triggers -> Int], Behind(rows, gens),
           \A t \in Triggers :
               /\ new[t] = Absent => rows[t] = Absent
               /\ new[t].stored => rows[t].stored /\ new[t].gen >= rows[t].gen
               /\ new[t].enabled => new[t].stored /\ (rows[t].enabled \/ new[t].gen > rows[t].gen)
    PROVE  Behind(new, gens)
<1> SUFFICES ASSUME NEW t \in Triggers
             PROVE  /\ new[t] = Absent => gens[t] < 0
                    /\ new[t].stored => gens[t] <= new[t].gen
                    /\ new[t].enabled => new[t].stored /\ gens[t] < new[t].gen
  BY DEF Behind
<1>1. rows[t].gen \in Nat /\ new[t].gen \in Nat /\ gens[t] \in Int
  BY DEF RowType
<1>2. /\ rows[t] = Absent => gens[t] < 0
      /\ rows[t].stored => gens[t] <= rows[t].gen
      /\ rows[t].enabled => gens[t] < rows[t].gen
  BY DEF Behind
<1>3. /\ new[t] = Absent => rows[t] = Absent
      /\ new[t].stored => rows[t].stored /\ new[t].gen >= rows[t].gen
      /\ new[t].enabled => new[t].stored /\ (rows[t].enabled \/ new[t].gen > rows[t].gen)
  OBVIOUS
<1> QED BY <1>1, <1>2, <1>3

\* The stops of a step that changes rows in this way and no request.
LEMMA StopsStand ==
    ASSUME TypeInv, StopsBehind, trig' \in [Triggers -> RowType],
           \A t \in Triggers :
               /\ trig'[t] = Absent => trig[t] = Absent
               /\ trig'[t].stored => trig[t].stored /\ trig'[t].gen >= trig[t].gen
               /\ trig'[t].enabled => trig'[t].stored /\ (trig[t].enabled \/ trig'[t].gen > trig[t].gen),
           stopGen' = stopGen,
           \A q \in Requests : rq'[q].pc = "stop" => rq[q].pc = "stop" /\ rq'[q].gens = rq[q].gens
    PROVE  StopsBehind'
<1>1. trig \in [Triggers -> RowType] /\ stopGen \in [Triggers -> Int]
  BY DEF TypeInv
<1>2. Behind(trig', stopGen')
  BY <1>1, RowsGoOn DEF StopsBehind
<1>3. ASSUME NEW q \in Requests, rq'[q].pc = "stop" PROVE Behind(trig', rq'[q].gens)
  <2>1. rq[q].gens \in [Triggers -> Int] /\ rq[q].pc = "stop" /\ rq'[q].gens = rq[q].gens
    BY <1>3 DEF TypeInv, RequestType
  <2>2. Behind(trig, rq[q].gens)
    BY <2>1 DEF StopsBehind
  <2>3. Behind(trig', rq[q].gens)
    BY <1>1, <2>1, <2>2, RowsGoOn
  <2> QED BY <2>1, <2>3
<1> QED BY <1>2, <1>3 DEF StopsBehind

\* advance_trigger moves one stored row to another tick.
LEMMA RowMoves ==
    ASSUME TypeInv, NEW t \in Triggers, NEW due, NEW next \in TickTimes \cup {0},
           next # 0 => t \in Schedules, trig' = Advanced(t, due, next)
    PROVE  /\ trig' \in [Triggers -> RowType]
           /\ \A u \in Triggers : trig'[u].next # 0 => u \in Schedules
           /\ \A u \in Triggers : /\ trig'[u] = Absent => trig[u] = Absent
                                  /\ trig'[u].stored = trig[u].stored
                                  /\ trig'[u].enabled = trig[u].enabled
                                  /\ trig'[u].gen = trig[u].gen
<1> DEFINE row == [trig[t] EXCEPT !.next = next]
<1>1. trig \in [Triggers -> RowType] /\ trig[t] \in RowType
  BY DEF TypeInv
<1>2. /\ row \in RowType /\ row.stored = trig[t].stored /\ row.enabled = trig[t].enabled
      /\ row.gen = trig[t].gen /\ row.next = next
      /\ row = Absent => trig[t].stored = FALSE
  BY <1>1 DEF RowType, Absent
<1>3. CASE trig[t].stored /\ trig[t].next = due
  <2>1. trig' = [trig EXCEPT ![t] = row]
    BY <1>1, <1>3 DEF Advanced
  <2> HIDE DEF row
  <2> QED BY <1>1, <1>2, <1>3, <2>1 DEF TypeInv
<1>4. CASE ~(trig[t].stored /\ trig[t].next = due)
  <2>1. trig' = trig
    <3>1. [trig[t] EXCEPT !.next = trig[t].next] = trig[t]
      BY <1>1 DEF RowType
    <3>2. trig' = [trig EXCEPT ![t] = [trig[t] EXCEPT !.next = trig[t].next]]
      BY <1>4 DEF Advanced
    <3> QED BY <1>1, <3>1, <3>2
  <2> QED BY <1>1, <2>1 DEF TypeInv
<1> QED BY <1>3, <1>4

\* A pause of one stored row.
LEMMA RowPaused ==
    ASSUME TypeInv, StopsBehind, NEW t \in Triggers,
           trig' = [trig EXCEPT ![t] = IF trig[t].stored THEN Paused(trig[t]) ELSE trig[t]]
    PROVE  /\ trig' \in [Triggers -> RowType]
           /\ \A u \in Triggers : trig'[u].next # 0 => u \in Schedules
           /\ \A u \in Triggers : /\ trig'[u] = Absent => trig[u] = Absent
                                  /\ trig'[u].stored = trig[u].stored
                                  /\ trig'[u].enabled => trig'[u].stored /\ trig[u].enabled
                                  /\ trig'[u].gen = trig[u].gen
<1> DEFINE row == Paused(trig[t])
<1>1. trig \in [Triggers -> RowType] /\ trig[t] \in RowType
  BY DEF TypeInv
<1>2. /\ row \in RowType /\ row.stored = trig[t].stored /\ row.enabled = FALSE
      /\ row.gen = trig[t].gen /\ row.next = trig[t].next
      /\ row = Absent => trig[t].stored = FALSE
  BY <1>1 DEF RowType, Absent, Paused
<1>3. \A u \in Triggers : trig[u].enabled => trig[u].stored
  BY DEF StopsBehind, Behind
<1> HIDE DEF row
<1>4. CASE trig[t].stored
  <2>1. trig' = [trig EXCEPT ![t] = row]
    BY <1>4 DEF row
  <2> QED BY <1>1, <1>2, <1>3, <1>4, <2>1 DEF TypeInv
<1>5. CASE ~trig[t].stored
  <2>1. trig' = trig
    BY <1>1, <1>5
  <2> QED BY <1>1, <1>3, <2>1 DEF TypeInv
<1> QED BY <1>4, <1>5

\* A step of a scheduler or of the owner that changes rows.
LEMMA RowStep ==
    ASSUME TriggerInv, trig' \in [Triggers -> RowType],
           \A t \in Triggers : trig'[t].next # 0 => t \in Schedules,
           rq' \in [Requests -> RequestType],
           \A q \in Requests : rq'[q].next # 0 => rq'[q].t \in Schedules,
           \A q \in Requests : rq'[q].pc = "resume" => rq'[q].t \in Triggers,
           UNCHANGED <<now, queue, log, made, stops, stopGen, pushes>>,
           StopsBehind', th' \in [Threads -> ThreadType], \A s \in Threads : ThreadOk(s)'
    PROVE  TriggerInv'
<1>1. TypeInv'
  BY DEF TriggerInv, TypeInv
<1>2. OnceOnly(queue)'
  BY DEF TriggerInv, OnceOnly, OnRuns
<1>3. PushedBefore'
  BY DEF TriggerInv, PushedBefore, QueuedOrClaimed, OnRuns
<1> QED BY <1>1, <1>2, <1>3 DEF TriggerInv

LEMMA SchedulerInd ==
    ASSUME TriggerInv, NEW s \in Threads, SetFirst(s) \/ AdvanceTrigger(s)
    PROVE  TriggerInv'
<1> DEFINE t == th[s].t
<1>1. t \in Triggers /\ th[s].at \in 0..MaxNow /\ TypeInv /\ StopsBehind
  BY DEF TriggerInv, ThreadOk, SetFirst, AdvanceTrigger, At, TypeInv, ThreadType
<1>2. FirstTick(t, th[s].at) \in TickTimes \cup {0} /\ (FirstTick(t, th[s].at) # 0 => t \in Schedules)
  BY <1>1, FirstTicks
<1>3. /\ trig' \in [Triggers -> RowType]
      /\ \A u \in Triggers : trig'[u].next # 0 => u \in Schedules
      /\ \A u \in Triggers : /\ trig'[u] = Absent => trig[u] = Absent
                             /\ trig'[u].stored = trig[u].stored
                             /\ trig'[u].enabled => trig'[u].stored /\ trig[u].enabled
                             /\ trig'[u].gen = trig[u].gen
  <2>1. \A u \in Triggers : trig[u].enabled => trig[u].stored
    BY <1>1 DEF StopsBehind, Behind
  <2>2. CASE trig' = Advanced(t, 0, FirstTick(t, th[s].at))
    BY <1>1, <1>2, <2>1, <2>2, RowMoves
  <2>3. CASE trig' = Advanced(t, th[s].due, FirstTick(t, th[s].at))
    BY <1>1, <1>2, <2>1, <2>3, RowMoves
  <2>4. CASE trig' = [trig EXCEPT ![t] = IF trig[t].stored THEN Paused(trig[t]) ELSE trig[t]]
    BY <1>1, <2>4, RowPaused
  <2> QED BY <2>2, <2>3, <2>4 DEF SetFirst, AdvanceTrigger
<1>4. /\ th' = [th EXCEPT ![s] = IdleThread]
      /\ UNCHANGED <<now, rq, queue, log, made, stops, stopGen, pushes, faults>>
  BY DEF SetFirst, AdvanceTrigger
<1>5. Moves(s) /\ th'[s] = IdleThread
  BY <1>1, <1>4, IdleIsThread, ThreadBecomes
<1>6. ThreadOk(s)'
  BY <1>5, IdleIsThread DEF ThreadOk, At
<1>7. Kept
  BY <1>4, RunsStand DEF Kept
<1>8. \A u \in Threads : ThreadOk(u)'
  BY <1>5, <1>6, <1>7, OneMoves
<1>9. StopsBehind'
  <2>1. \A u \in Triggers : trig[u].gen \in Nat
    BY <1>1 DEF TypeInv, RowType
  <2> QED BY <1>1, <1>3, <1>4, <2>1, StopsStand
<1> QED BY <1>1, <1>3, <1>4, <1>5, <1>8, <1>9, RowStep DEF TypeInv, Moves

(***************************************************************************)
(* The steps of a fire                                                     *)
(***************************************************************************)
\* A step of a fire, which leaves the triggers, the requests and the stops alone.
LEMMA FireStep ==
    ASSUME TriggerInv, UNCHANGED <<trig, now, rq, stops, stopGen>>,
           queue' \in QueueType, log' \in [Runs -> Seq(FiredEvent)], made' \in [Runs -> Nat],
           pushes' \in [Runs -> Nat], OnceOnly(queue)', PushedBefore', KeptRuns,
           NEW s \in Threads, Moves(s), ThreadOk(s)'
    PROVE  TriggerInv'
<1>1. Kept
  BY DEF Kept
<1>2. \A u \in Threads : ThreadOk(u)'
  BY <1>1, OneMoves
<1>3. TypeInv'
  BY DEF TriggerInv, TypeInv, Moves
<1>4. StopsBehind'
  BY GensStand DEF TriggerInv
<1> QED BY <1>2, <1>3, <1>4 DEF TriggerInv

\* A thread between its first and its last step is of a trigger and of a run.
LEMMA AtWork ==
    ASSUME TriggerInv, NEW s \in Threads
    PROVE  /\ TypeInv /\ ThreadOk(s)
           /\ th[s] \in ThreadType
           /\ th[s].pc \notin {"idle", "done"} => th[s].t \in Triggers
           /\ th[s].pc \notin {"idle", "done", "first"} =>
                  /\ th[s].run \in Runs
                  /\ log[th[s].run] \in Seq(FiredEvent) /\ made[th[s].run] \in Nat
           /\ th[s].answer \in {"Started", "Duplicate"} =>
                  th[s].run \in Runs /\ pushes[th[s].run] > 0
BY DEF TriggerInv, TypeInv, ThreadOk

\* The thread only goes to another step.
LEMMA GoesOn ==
    ASSUME TriggerInv, UNCHANGED shared, NEW s \in Threads, NEW pc \in Pcs, Goto(s, pc),
           th[s].pc \notin {"idle", "done", "first"},
           pc \in {"event", "read", "gate", "unpend"},
           pc = "gate" => log[th[s].run] # <<>>,
           pc = "unpend" /\ s \in Deliveries => ~StillWaiting(log[th[s].run])
    PROVE  TriggerInv'
<1>1. Moves(s) /\ th'[s].pc = pc /\ SameFire(s)
  BY GoesTo DEF TriggerInv
<1>2. /\ th[s].t \in Triggers /\ th[s].run \in Runs
      /\ th[s].answer \in {"Started", "Duplicate"} => pushes[th[s].run] > 0
  BY AtWork
<1>3. ThreadOk(s)'
  BY <1>1, <1>2 DEF ThreadOk, At, SameFire, shared
<1> QED BY <1>1, <1>3, ThreadStep

\* The thread concludes, and nothing else happens.
LEMMA OnlyConcludes ==
    ASSUME TriggerInv, UNCHANGED shared, NEW s \in Threads, NEW a \in Answers, Conclude(s, a),
           a \in {"Started", "Duplicate"} => th[s].run \in Runs /\ pushes[th[s].run] > 0
    PROVE  TriggerInv'
<1>1. Moves(s) /\ ThreadOk(s)'
  BY Concludes DEF TriggerInv, shared
<1> QED BY <1>1, ThreadStep

LEMMA DeliveryInd ==
    ASSUME TriggerInv, NEW s \in Deliveries, DeliverySteps(s)
    PROVE  TriggerInv'
<1>0. s \in Threads
  BY DEF Threads
<1> DEFINE x == th[s]
           r == th[s].run
<1>1. CASE Lookup(s)
  <2>1. UNCHANGED shared /\ x.pc = "lookup"
    BY <1>1 DEF Lookup, At
  <2>2. CASE Goto(s, "event")
    BY <1>0, <2>1, <2>2, GoesOn DEF Pcs
  <2>3. CASE Conclude(s, "Rejected")
    BY <1>0, <2>1, <2>3, OnlyConcludes DEF Answers
  <2> QED BY <1>1, <2>2, <2>3 DEF Lookup
<1>2. CASE ReadEvent(s)
  <2>1. UNCHANGED shared /\ x.pc = "event"
    BY <1>2 DEF ReadEvent, At
  <2>2. /\ r \in Runs /\ x \in ThreadType /\ x.t \in Triggers
        /\ log[r] \in Seq(FiredEvent) /\ made[r] \in Nat
        /\ x.answer \in {"Started", "Duplicate"} => pushes[r] > 0
    BY <1>0, <2>1, AtWork
  <2>3. CASE log[r] = <<>>
    <3>1. Goto(s, "read")
      BY <1>2, <2>3 DEF ReadEvent
    <3> QED BY <1>0, <2>1, <3>1, GoesOn DEF Pcs
  <2>4. CASE log[r] # <<>> /\ Replay(log[r]) = "Waiting"
    <3> DEFINE y == [x EXCEPT !.pc = "settle", !.gen = made[r], !.known = TRUE]
    <3>1. th' = [th EXCEPT ![s] = y]
      BY <1>2, <2>4 DEF ReadEvent
    <3>2. y \in ThreadType /\ y.pc = "settle" /\ y.t = x.t /\ y.run = r /\ y.answer = x.answer
      BY <2>2 DEF ThreadType, Pcs
    <3> HIDE DEF y
    <3>3. Moves(s) /\ th'[s] = y
      BY <1>0, <3>1, <3>2, ThreadBecomes DEF TriggerInv
    <3>4. ThreadOk(s)'
      BY <2>1, <2>2, <2>4, <3>2, <3>3 DEF ThreadOk, At, shared
    <3> QED BY <1>0, <2>1, <3>3, <3>4, ThreadStep
  <2>5. CASE log[r] # <<>> /\ Replay(log[r]) # "Waiting"
    <3>1. Conclude(s, Replay(log[r]))
      BY <1>2, <2>5 DEF ReadEvent
    <3>2. ~StillWaiting(log[r])
      BY <2>5 DEF Replay
    <3>3. CASE Replay(log[r]) = "Refused"
      BY <1>0, <2>1, <3>1, <3>3, OnlyConcludes DEF Answers
    <3>4. CASE Replay(log[r]) # "Refused"
      <4>1. Replay(log[r]) = "Duplicate" /\ Has(log[r], Ran)
        BY <2>2, <3>2, <3>4, NotWaiting
      <4>2. pushes[r] > 0
        BY <2>2, <4>1 DEF TriggerInv, PushedBefore
      <4> QED BY <1>0, <2>1, <2>2, <3>1, <4>1, <4>2, OnlyConcludes DEF Answers
    <3> QED BY <3>3, <3>4
  <2> QED BY <2>3, <2>4, <2>5
<1>3. CASE ReplayNow(s)
  <2>1. UNCHANGED shared /\ x.pc = "replay"
    BY <1>3 DEF ReplayNow, At
  <2>2. /\ r \in Runs /\ log[r] \in Seq(FiredEvent) /\ ThreadOk(s)
    BY <1>0, <2>1, AtWork
  <2>3. pushes[r] > 0 \/ ~StillWaiting(log[r])
    BY <2>1, <2>2 DEF ThreadOk, At
  <2>4. Has(log[r], Ran) => pushes[r] > 0
    BY <2>2 DEF TriggerInv, PushedBefore
  <2>5. CASE Replay(log[r]) = "Waiting"
    <3>1. PICK a \in {"Started", "Duplicate"} : Conclude(s, a)
      BY <1>3, <2>5 DEF ReplayNow
    <3>2. StillWaiting(log[r])
      BY <2>5 DEF Replay
    <3> QED BY <1>0, <2>1, <2>2, <2>3, <3>1, <3>2, OnlyConcludes DEF Answers
  <2>6. CASE Replay(log[r]) # "Waiting"
    <3>1. Conclude(s, Replay(log[r]))
      BY <1>3, <2>6 DEF ReplayNow
    <3>2. ~StillWaiting(log[r])
      BY <2>6 DEF Replay
    <3>3. Replay(log[r]) # "Refused" => Replay(log[r]) = "Duplicate" /\ pushes[r] > 0
      BY <2>2, <2>4, <3>2, NotWaiting
    <3> QED BY <1>0, <2>1, <2>2, <3>1, <3>3, OnlyConcludes DEF Answers
  <2> QED BY <2>5, <2>6
<1> QED BY <1>1, <1>2, <1>3 DEF DeliverySteps

LEMMA SweepInd ==
    ASSUME TriggerInv, NEW s \in Threads, SweepLoads(s)
    PROVE  TriggerInv'
<1> DEFINE x == th[s]
           r == th[s].run
<1>1. UNCHANGED shared /\ x.pc = "load"
  BY DEF SweepLoads, At
<1>2. /\ r \in Runs /\ x \in ThreadType /\ x.t \in Triggers /\ made[r] \in Nat
      /\ x.answer \in {"Started", "Duplicate"} => pushes[r] > 0
  BY <1>1, AtWork
<1>3. s \notin Deliveries
  BY <1>1, AtWork, FiringAssumption DEF ThreadOk, At
<1>4. CASE Conclude(s, "none")
  BY <1>1, <1>4, OnlyConcludes DEF Answers
<1>5. CASE Goto(s, "unpend")
  BY <1>1, <1>3, <1>5, GoesOn DEF Pcs
<1>6. CASE log[r] # <<>> /\ th' = [th EXCEPT ![s].pc = "settle", ![s].gen = made[r]]
  <2> DEFINE y == [x EXCEPT !.pc = "settle", !.gen = made[r]]
  <2>1. th' = [th EXCEPT ![s] = y]
    BY <1>6
  <2>2. y \in ThreadType /\ y.pc = "settle" /\ y.t = x.t /\ y.run = r /\ y.answer = x.answer
    BY <1>2 DEF ThreadType, Pcs
  <2> HIDE DEF y
  <2>3. Moves(s) /\ th'[s] = y
    BY <2>1, <2>2, ThreadBecomes DEF TriggerInv
  <2>4. ThreadOk(s)'
    BY <1>1, <1>2, <1>6, <2>2, <2>3 DEF ThreadOk, At, shared
  <2> QED BY <1>1, <2>3, <2>4, ThreadStep
<1> QED BY <1>4, <1>5, <1>6 DEF SweepLoads

LEMMA ReadTriggerInd ==
    ASSUME TriggerInv, NEW s \in Threads, ReadTrigger(s)
    PROVE  TriggerInv'
<1> DEFINE x == th[s]
           row == trig[x.t]
<1>1. UNCHANGED shared /\ x.pc = "read"
  BY DEF ReadTrigger, At
<1>2. /\ x.run \in Runs /\ x \in ThreadType /\ x.t \in Triggers
      /\ x.answer \in {"Started", "Duplicate"} => pushes[x.run] > 0
      /\ TypeInv /\ ThreadOk(s)
  BY <1>1, AtWork
<1>3. KeptRuns
  BY <1>1, RunsStand DEF shared
<1>4. ASSUME NEW a \in {"Rejected", "Refused"}, NothingFired(s, a)
      PROVE  TriggerInv'
  <2>1. Moves(s) /\ ThreadOk(s)'
    BY <1>1, <1>2, <1>3, <1>4, NothingIsFired DEF Answers
  <2> QED BY <1>1, <2>1, ThreadStep
<1>5. CASE th' = [th EXCEPT ![s].pc = "pend", ![s].gen = row.gen]
  <2> DEFINE y == [x EXCEPT !.pc = "pend", !.gen = row.gen]
  <2>1. row.gen \in Nat
    BY <1>2 DEF TypeInv, RowType
  <2>2. y \in ThreadType /\ y.pc = "pend" /\ y.t = x.t /\ y.run = x.run /\ y.answer = x.answer
    BY <1>2, <2>1 DEF ThreadType, Pcs
  <2>3. th' = [th EXCEPT ![s] = y]
    BY <1>5
  <2> HIDE DEF y
  <2>4. Moves(s) /\ th'[s] = y
    BY <1>2, <2>2, <2>3, ThreadBecomes
  <2>5. ThreadOk(s)'
    BY <1>1, <1>2, <2>2, <2>4 DEF ThreadOk, At, shared
  <2> QED BY <1>1, <2>4, <2>5, ThreadStep
<1> QED BY <1>4, <1>5 DEF ReadTrigger

LEMMA PendInd ==
    ASSUME TriggerInv, NEW s \in Threads, PendFire(s)
    PROVE  TriggerInv'
<1> DEFINE x == th[s]
           p == Pend(queue, x.run)
<1>1. /\ x.pc = "pend" /\ Goto(s, "put") /\ queue' = p
      /\ UNCHANGED <<trig, now, rq, log, made, stops, stopGen, pushes, faults>>
  BY DEF PendFire, At
<1>2. /\ x.run \in Runs /\ x.t \in Triggers /\ TypeInv
      /\ x.answer \in {"Started", "Duplicate"} => pushes[x.run] > 0
  BY <1>1, AtWork
<1>3. /\ p \in QueueType /\ (OnceOnly(queue) => OnceOnly(p))
      /\ \A r \in Runs : Live(p, r) => Live(queue, r)
  BY <1>2, PendingScripts DEF TypeInv
<1> HIDE DEF p
<1>4. OnceOnly(queue)' /\ PushedBefore' /\ KeptRuns
  BY <1>1, <1>3, QueueStep
<1>5. Moves(s) /\ th'[s].pc = "put" /\ SameFire(s)
  BY <1>1, <1>2, GoesTo DEF Pcs
<1>6. ThreadOk(s)'
  BY <1>1, <1>2, <1>5 DEF ThreadOk, At, SameFire
<1> QED BY <1>1, <1>2, <1>3, <1>4, <1>5, <1>6, FireStep DEF TypeInv

\* put_run: what it does to the logs.
LEMMA PutStep ==
    ASSUME TriggerInv, NEW s \in Threads, th[s].run \in Runs,
           log' = [log EXCEPT ![th[s].run] = IF @ = <<>> THEN <<Plain("RunQueued")>> ELSE @],
           made' = [made EXCEPT ![th[s].run] = IF log[th[s].run] = <<>> THEN th[s].gen ELSE @],
           pushes' = pushes
    PROVE  /\ log' \in [Runs -> Seq(FiredEvent)] /\ made' \in [Runs -> Nat] /\ KeptRuns
           /\ log'[th[s].run] # <<>>
           /\ queue' = queue => PushedBefore'
<1> DEFINE r == th[s].run
           m == IF log[r] = <<>> THEN <<Plain("RunQueued")>> ELSE log[r]
<1>1. log \in [Runs -> Seq(FiredEvent)] /\ made \in [Runs -> Nat] /\ th[s].gen \in Nat
  BY DEF TriggerInv, TypeInv, ThreadType
<1>2. Has(log[r], Ran) => pushes[r] > 0
  BY DEF TriggerInv, PushedBefore
<1>3. m \in Seq(FiredEvent) /\ m # <<>> /\ (Has(m, Ran) => pushes[r] > 0)
      /\ (~StillWaiting(log[r]) => ~StillWaiting(m))
  <2>1. CASE log[r] = <<>>
    <3>1. StillWaiting(log[r])
      BY <2>1 DEF StillWaiting
    <3> QED BY <2>1, <3>1, JustQueued
  <2>2. CASE log[r] # <<>>
    BY <1>1, <1>2, <2>2
  <2> QED BY <2>1, <2>2
<1>4. log' = [log EXCEPT ![r] = m]
  OBVIOUS
<1> HIDE DEF m
<1>5. log' \in [Runs -> Seq(FiredEvent)] /\ KeptRuns /\ (queue' = queue => PushedBefore')
  <2>1. queue' = queue => \A q \in Runs : Live(queue', q) => Live(queue, q)
    BY DEF Live, QueuedOrClaimed, OnRuns
  <2> QED BY <1>3, <1>4, <2>1, LogStep
<1>6. made' \in [Runs -> Nat]
  BY <1>1
<1>7. log'[r] # <<>>
  BY <1>1, <1>3, <1>4
<1> QED BY <1>5, <1>6, <1>7

LEMMA QueueStands ==
    ASSUME TriggerInv, queue' = queue
    PROVE  OnceOnly(queue)' /\ queue' \in QueueType
BY DEF TriggerInv, TypeInv, OnceOnly, OnRuns

LEMMA PutInd ==
    ASSUME TriggerInv, NEW s \in Threads, PutFire(s)
    PROVE  TriggerInv'
<1> DEFINE x == th[s]
           r == th[s].run
<1>1. /\ x.pc = "put" /\ Goto(s, "settle")
      /\ log' = [log EXCEPT ![r] = IF @ = <<>> THEN <<Plain("RunQueued")>> ELSE @]
      /\ made' = [made EXCEPT ![r] = IF log[r] = <<>> THEN x.gen ELSE @]
      /\ UNCHANGED <<trig, now, rq, queue, stops, stopGen, pushes, faults>>
  BY DEF PutFire, At
<1>2. /\ r \in Runs /\ x.t \in Triggers /\ TypeInv
      /\ x.answer \in {"Started", "Duplicate"} => pushes[r] > 0
  BY <1>1, AtWork
<1>3. /\ log' \in [Runs -> Seq(FiredEvent)] /\ made' \in [Runs -> Nat] /\ KeptRuns
      /\ log'[r] # <<>> /\ PushedBefore'
  BY <1>1, <1>2, PutStep
<1>4. Moves(s) /\ th'[s].pc = "settle" /\ SameFire(s)
  BY <1>1, <1>2, GoesTo DEF Pcs
<1>5. ThreadOk(s)'
  BY <1>1, <1>2, <1>3, <1>4 DEF ThreadOk, At, SameFire
<1> QED BY <1>1, <1>2, <1>3, <1>4, <1>5, QueueStands, FireStep DEF TypeInv

LEMMA SettleInd ==
    ASSUME TriggerInv, NEW s \in Threads, ReadWaiting(s)
    PROVE  TriggerInv'
<1>1. UNCHANGED shared /\ th[s].pc = "settle" /\ log[th[s].run] # <<>>
  BY AtWork DEF ReadWaiting, At, ThreadOk
<1>2. CASE StillWaiting(log[th[s].run])
  <2>1. Goto(s, "gate")
    BY <1>2 DEF ReadWaiting
  <2> QED BY <1>1, <2>1, GoesOn DEF Pcs
<1>3. CASE ~StillWaiting(log[th[s].run])
  <2>1. Goto(s, "unpend")
    BY <1>3 DEF ReadWaiting
  <2> QED BY <1>1, <1>3, <2>1, GoesOn DEF Pcs
<1> QED BY <1>2, <1>3

LEMMA UnpendInd ==
    ASSUME TriggerInv, NEW s \in Threads, UnpendFound(s)
    PROVE  TriggerInv'
<1> DEFINE x == th[s]
           p == Unpend(queue, x.run)
<1>1. /\ x.pc = "unpend" /\ Found(s) /\ queue' = p
      /\ UNCHANGED <<trig, now, rq, log, made, stops, stopGen, pushes, faults>>
  BY DEF UnpendFound, At
<1>2. x.run \in Runs /\ x.t \in Triggers /\ TypeInv /\ ThreadOk(s)
  BY <1>1, AtWork
<1>3. /\ p \in QueueType /\ (OnceOnly(queue) => OnceOnly(p))
      /\ \A r \in Runs : Live(p, r) => Live(queue, r)
  BY <1>2, PendingScripts DEF TypeInv
<1> HIDE DEF p
<1>4. OnceOnly(queue)' /\ PushedBefore' /\ KeptRuns
  BY <1>1, <1>3, QueueStep
<1>5. s \in Deliveries => ~StillWaiting(log'[x.run])
  BY <1>1, <1>2 DEF ThreadOk, At
<1>6. Moves(s) /\ ThreadOk(s)'
  BY <1>1, <1>2, <1>4, <1>5, NothingToDo
<1> QED BY <1>1, <1>2, <1>3, <1>4, <1>6, FireStep DEF TypeInv

\* The gate: open only at the generation the trigger has, which is above that of
\* every stop recorded.
LEMMA GateInd ==
    ASSUME TriggerInv, NEW s \in Threads, ReadGate(s)
    PROVE  TriggerInv'
<1> DEFINE x == th[s]
           gate == GateOf(trig[x.t], x.gen)
           pc == IF gate = "Open" THEN "push" ELSE "cancel"
           why == IF gate = "Open" THEN "none" ELSE gate
           y == [x EXCEPT !.pc = pc, !.why = why]
<1>1. /\ x.pc = "gate" /\ UNCHANGED shared
      /\ th' = [th EXCEPT ![s] = y]
  BY DEF ReadGate, At
<1>2. /\ x.run \in Runs /\ x \in ThreadType /\ x.t \in Triggers /\ TypeInv
      /\ x.answer \in {"Started", "Duplicate"} => pushes[x.run] > 0
      /\ log[x.run] # <<>>
  BY <1>1, AtWork DEF ThreadOk
<1>3. gate \in {"Open", "Refused", "Rejected"}
  BY DEF GateOf
<1>4. gate = "Open" => trig[x.t].enabled /\ trig[x.t].gen = x.gen
  BY DEF GateOf
<1>5. gate = "Open" => ~(x.gen <= stopGen[x.t])
  <2>1. trig[x.t].enabled => stopGen[x.t] < trig[x.t].gen
    BY <1>2 DEF TriggerInv, StopsBehind, Behind
  <2>2. trig[x.t].gen \in Nat /\ stopGen[x.t] \in Int
    BY <1>2 DEF TypeInv, RowType
  <2> QED BY <1>4, <2>1, <2>2
<1>6. /\ pc \in {"push", "cancel"} /\ (pc = "push" <=> gate = "Open")
      /\ why \in {"none", "Refused", "Rejected"} /\ (pc = "cancel" => why \in {"Refused", "Rejected"})
  BY <1>3
<1> HIDE DEF gate, pc, why
<1>7. y \in ThreadType /\ y.pc = pc /\ y.t = x.t /\ y.run = x.run /\ y.gen = x.gen
      /\ y.why = why /\ y.answer = x.answer
  BY <1>2, <1>6 DEF ThreadType, Pcs
<1> HIDE DEF y
<1>8. Moves(s) /\ th'[s] = y
  BY <1>1, <1>2, <1>7, ThreadBecomes
<1>9. ThreadOk(s)'
  BY <1>1, <1>2, <1>5, <1>6, <1>7, <1>8 DEF ThreadOk, At, shared
<1> QED BY <1>1, <1>8, <1>9, ThreadStep

LEMMA PushInd ==
    ASSUME TriggerInv, NEW s \in Threads, PushFire(s)
    PROVE  TriggerInv'
<1> DEFINE x == th[s]
           r == th[s].run
<1>1. /\ x.pc = "push" /\ PushEffect(r)
      /\ UNCHANGED <<trig, now, rq, log, made, stops, stopGen, faults>>
  BY DEF PushFire, At
<1>2. r \in Runs /\ TypeInv /\ ThreadOk(s)
  BY <1>1, AtWork
<1>3. /\ queue' \in QueueType /\ pushes' \in [Runs -> Nat]
      /\ OnceOnly(queue)' /\ PushedBefore' /\ KeptRuns
      /\ pushes'[r] > 0
  BY <1>1, <1>2, PushStep
<1>4. Moves(s) /\ ThreadOk(s)'
  <2>1. CASE Found(s)
    BY <1>1, <1>2, <1>3, <2>1, NothingToDo
  <2>2. CASE NothingFired(s, "Started")
    BY <1>1, <1>2, <1>3, <2>2, NothingIsFired DEF Answers
  <2> QED BY <2>1, <2>2 DEF PushFire
<1> QED BY <1>1, <1>2, <1>3, <1>4, FireStep DEF TypeInv

LEMMA SameLive == queue' = queue => \A r \in Runs : Live(queue', r) => Live(queue, r)
BY DEF Live, QueuedOrClaimed, OnRuns

LEMMA CancelInd ==
    ASSUME TriggerInv, NEW s \in Threads, CancelHeld(s)
    PROVE  TriggerInv'
<1> DEFINE x == th[s]
           r == th[s].run
<1>1. /\ x.pc = "cancel" /\ Goto(s, "drop")
      /\ log' = [log EXCEPT ![r] = AppendEvents(@, <<Plain("RunCancelled")>>)]
      /\ UNCHANGED <<trig, now, rq, queue, made, stops, stopGen, pushes, faults>>
  BY DEF CancelHeld, At
<1>2. /\ r \in Runs /\ x.t \in Triggers /\ TypeInv /\ x.why \in {"Refused", "Rejected"}
      /\ x.answer \in {"Started", "Duplicate"} => pushes[r] > 0
  BY <1>1, AtWork DEF ThreadOk
<1>3. "RunCancelled" \in FiredTypes /\ "RunCancelled" \notin Ran
  BY DEF FiredTypes, Ran
<1>4. log' \in [Runs -> Seq(FiredEvent)] /\ KeptRuns /\ PushedBefore'
  BY <1>1, <1>2, <1>3, SameLive, EventStep
<1>5. Moves(s) /\ th'[s].pc = "drop" /\ SameFire(s)
  BY <1>1, <1>2, GoesTo DEF Pcs
<1>6. ThreadOk(s)'
  BY <1>1, <1>2, <1>5 DEF ThreadOk, At, SameFire
<1> QED BY <1>1, <1>2, <1>4, <1>5, <1>6, QueueStands, FireStep DEF TypeInv

LEMMA DropInd ==
    ASSUME TriggerInv, NEW s \in Threads, DropHeld(s)
    PROVE  TriggerInv'
<1> DEFINE x == th[s]
           r == th[s].run
           a == IF x.known THEN "Refused" ELSE x.why
<1>1. /\ x.pc = "drop" /\ NothingFired(s, a)
      /\ queue' = Unpend(queue, r) \/ queue' = queue
      /\ UNCHANGED <<trig, now, rq, log, made, stops, stopGen, pushes>>
  BY DEF DropHeld, At
<1>2. r \in Runs /\ TypeInv /\ ThreadOk(s) /\ x.why \in {"Refused", "Rejected"}
  BY <1>1, AtWork DEF ThreadOk
<1>3. queue' \in QueueType /\ OnceOnly(queue)' /\ PushedBefore' /\ KeptRuns
  <2>1. CASE queue' = Unpend(queue, r)
    <3> DEFINE p == Unpend(queue, r)
    <3>1. /\ p \in QueueType /\ (OnceOnly(queue) => OnceOnly(p))
          /\ \A q \in Runs : Live(p, q) => Live(queue, q)
      BY <1>2, PendingScripts DEF TypeInv
    <3> HIDE DEF p
    <3> QED BY <1>1, <2>1, <3>1, QueueStep DEF p
  <2>2. CASE queue' = queue
    <3>1. PushedBefore'
      BY <1>1, <2>2 DEF TriggerInv, PushedBefore, QueuedOrClaimed, OnRuns
    <3> QED BY <1>1, <2>2, <3>1, QueueStands, RunsStand
  <2> QED BY <1>1, <2>1, <2>2
<1>4. a \in {"Refused", "Rejected"}
  BY <1>2
<1>5. Moves(s) /\ ThreadOk(s)'
  BY <1>1, <1>2, <1>3, <1>4, NothingIsFired DEF Answers
<1> QED BY <1>1, <1>2, <1>3, <1>5, FireStep DEF TypeInv

LEMMA FailsInd ==
    ASSUME TriggerInv, NEW s \in Threads, FireFails(s)
    PROVE  TriggerInv'
<1> DEFINE x == th[s]
           r == th[s].run
<1>1. x.pc \notin {"idle", "done"} /\ Conclude(s, "Error") /\ UNCHANGED <<trig, now, rq, stops, stopGen>>
  BY DEF FireFails, At
<1>2. TypeInv /\ OnceOnly(queue) /\ (x.pc \notin {"idle", "done", "first"} => r \in Runs)
  BY AtWork DEF TriggerInv
<1>3. Moves(s) /\ ThreadOk(s)'
  BY <1>1, <1>2, Concludes DEF Answers
<1>4. CASE UNCHANGED <<queue, log, made, pushes>>
  <2>1. PushedBefore'
    BY <1>4 DEF TriggerInv, PushedBefore, QueuedOrClaimed, OnRuns
  <2> QED BY <1>1, <1>2, <1>3, <1>4, <2>1, QueueStands, RunsStand, FireStep DEF TypeInv
<1>5. CASE At(s, "push") /\ PushEffect(r) /\ UNCHANGED <<log, made>>
  <2>1. r \in Runs
    BY <1>2, <1>5 DEF At
  <2> QED BY <1>1, <1>2, <1>3, <1>5, <2>1, PushStep, FireStep DEF TypeInv
<1>6. CASE At(s, "pend") /\ queue' = Pend(queue, r) /\ UNCHANGED <<log, made, pushes>>
  <2> DEFINE p == Pend(queue, r)
  <2>1. r \in Runs
    BY <1>2, <1>6 DEF At
  <2>2. /\ p \in QueueType /\ (OnceOnly(queue) => OnceOnly(p))
        /\ \A q \in Runs : Live(p, q) => Live(queue, q)
    BY <1>2, <2>1, PendingScripts DEF TypeInv
  <2>3. queue' = p
    BY <1>6
  <2> HIDE DEF p
  <2>4. OnceOnly(queue)' /\ PushedBefore' /\ KeptRuns
    BY <1>6, <2>2, <2>3, QueueStep
  <2> QED BY <1>1, <1>2, <1>3, <1>6, <2>2, <2>3, <2>4, FireStep DEF TypeInv
<1>7. CASE /\ At(s, "put") /\ log[r] = <<>>
           /\ log' = [log EXCEPT ![r] = <<Plain("RunQueued")>>]
           /\ made' = [made EXCEPT ![r] = x.gen]
           /\ UNCHANGED <<queue, pushes>>
  <2>1. r \in Runs
    BY <1>2, <1>7 DEF At
  <2>2. /\ log' = [log EXCEPT ![r] = IF @ = <<>> THEN <<Plain("RunQueued")>> ELSE @]
        /\ made' = [made EXCEPT ![r] = IF log[r] = <<>> THEN x.gen ELSE @]
    BY <1>7
  <2>3. log' \in [Runs -> Seq(FiredEvent)] /\ made' \in [Runs -> Nat] /\ KeptRuns /\ PushedBefore'
    BY <1>7, <2>1, <2>2, PutStep
  <2> QED BY <1>1, <1>2, <1>3, <1>7, <2>3, QueueStands, FireStep DEF TypeInv
<1>8. CASE /\ At(s, "cancel")
           /\ log' = [log EXCEPT ![r] = AppendEvents(@, <<Plain("RunCancelled")>>)]
           /\ UNCHANGED <<queue, made, pushes>>
  <2>1. r \in Runs
    BY <1>2, <1>8 DEF At
  <2>2. "RunCancelled" \in FiredTypes /\ "RunCancelled" \notin Ran
    BY DEF FiredTypes, Ran
  <2>3. log' \in [Runs -> Seq(FiredEvent)] /\ KeptRuns /\ PushedBefore'
    BY <1>8, <2>1, <2>2, SameLive, EventStep
  <2> QED BY <1>1, <1>2, <1>3, <1>8, <2>3, QueueStands, FireStep DEF TypeInv
<1> QED BY <1>4, <1>5, <1>6, <1>7, <1>8 DEF FireFails

(***************************************************************************)
(* Steps of no thread that fires                                           *)
(***************************************************************************)
\* The queue ages, or a worker moves.
LEMMA QuietStep ==
    ASSUME TriggerInv, UNCHANGED <<trig, now, rq, made, stops, stopGen, pushes, th>>,
           queue' \in QueueType, log' \in [Runs -> Seq(FiredEvent)],
           OnceOnly(queue)', PushedBefore', KeptRuns
    PROVE  TriggerInv'
<1>1. Kept
  BY DEF Kept
<1>2. \A s \in Threads : ThreadOk(s)'
  BY <1>1, NoneMoves
<1>3. TypeInv'
  BY DEF TriggerInv, TypeInv
<1>4. StopsBehind'
  BY GensStand DEF TriggerInv
<1> QED BY <1>2, <1>3, <1>4 DEF TriggerInv

LEMMA ForgottenInd ==
    ASSUME TriggerInv, NEW r \in Runs, PendingForgotten(r)
    PROVE  TriggerInv'
<1> DEFINE p == PendingAges(queue, r)
<1>1. queue' = p /\ UNCHANGED <<trig, now, rq, log, made, stops, stopGen, pushes, faults, th>>
  BY DEF PendingForgotten
<1>2. queue \in QueueType /\ log \in [Runs -> Seq(FiredEvent)]
  BY DEF TriggerInv, TypeInv
<1>3. /\ p \in QueueType /\ (OnceOnly(queue) => OnceOnly(p))
      /\ \A q \in Runs : Live(p, q) => Live(queue, q)
  BY <1>2, PendingScripts
<1> HIDE DEF p
<1>4. OnceOnly(queue)' /\ PushedBefore' /\ KeptRuns
  BY <1>1, <1>3, QueueStep
<1> QED BY <1>1, <1>2, <1>3, <1>4, QuietStep

LEMMA WorkerInd ==
    ASSUME TriggerInv, NEW w \in Workers, WorkerNext(w)
    PROVE  TriggerInv'
<1>1. queue \in QueueType /\ log \in [Runs -> Seq(FiredEvent)] /\ OnceOnly(queue)
  BY DEF TriggerInv, TypeInv
<1>2. CASE Take(w)
  <2> DEFINE p == Claim(queue, w)
  <2>1. queue' = p /\ queue.runs # <<>> /\ UNCHANGED <<log, workerOnly>>
    BY <1>2 DEF Take
  <2>2. /\ p \in QueueType /\ OnceOnly(p)
        /\ \A q \in Runs : Live(p, q) => Live(queue, q)
    BY <1>1, <2>1, Claimed
  <2> HIDE DEF p
  <2>3. OnceOnly(queue)' /\ PushedBefore' /\ KeptRuns
    BY <2>1, <2>2, QueueStep DEF workerOnly
  <2> QED BY <1>1, <2>1, <2>2, <2>3, QuietStep DEF workerOnly
<1>3. ASSUME NEW r \in Runs, queue.lease[r] = w PROVE pushes[r] > 0
  BY <1>3, QueueAssumption DEF TriggerInv, PushedBefore
<1>4. ASSUME NEW r \in Runs, Schedule(w, r) PROVE TriggerInv'
  <2>1. /\ queue.lease[r] = w /\ UNCHANGED <<queue, workerOnly>>
        /\ log' = [log EXCEPT ![r] = AppendEvents(@, <<Plain("RunScheduled")>>)]
    BY <1>4 DEF Schedule
  <2>2. pushes[r] > 0 /\ "RunScheduled" \in FiredTypes
    BY <1>3, <2>1 DEF FiredTypes
  <2>3. log' \in [Runs -> Seq(FiredEvent)] /\ KeptRuns /\ PushedBefore'
    BY <2>1, <2>2, SameLive, EventStep DEF workerOnly
  <2> QED BY <2>1, <2>3, QueueStands, QuietStep DEF workerOnly
<1>5. ASSUME NEW r \in Runs, Finish(w, r) PROVE TriggerInv'
  <2> DEFINE p == Ack(queue, r, w)
             e == IF r \in stops THEN "RunCancelled" ELSE "RunCompleted"
  <2>1. /\ queue.lease[r] = w /\ UNCHANGED workerOnly /\ queue' = p
        /\ log' = [log EXCEPT ![r] = AppendEvents(@, <<Plain(e)>>)]
    BY <1>5 DEF Finish
  <2>2. /\ p \in QueueType /\ OnceOnly(p)
        /\ \A q \in Runs : Live(p, q) => Live(queue, q)
    BY <1>1, Acked
  <2>3. pushes[r] > 0 /\ e \in FiredTypes
    BY <1>3, <2>1 DEF FiredTypes
  <2> HIDE DEF p, e
  <2>4. log' \in [Runs -> Seq(FiredEvent)] /\ KeptRuns /\ PushedBefore'
    BY <2>1, <2>2, <2>3, EventStep DEF workerOnly
  <2>5. OnceOnly(queue)'
    BY <2>1, <2>2 DEF OnceOnly, OnRuns
  <2> QED BY <2>1, <2>2, <2>4, <2>5, QuietStep DEF workerOnly
<1> QED BY <1>2, <1>4, <1>5 DEF WorkerNext

(***************************************************************************)
(* The owner's requests                                                    *)
(***************************************************************************)
\* A request that leaves the runs, the stops and the threads alone.
LEMMA RequestStep ==
    ASSUME TriggerInv, UNCHANGED th, UNCHANGED <<now, queue, log, made, stops, stopGen, pushes>>,
           trig' \in [Triggers -> RowType],
           \A t \in Triggers : trig'[t].next # 0 => t \in Schedules,
           rq' \in [Requests -> RequestType],
           \A q \in Requests : rq'[q].next # 0 => rq'[q].t \in Schedules,
           \A q \in Requests : rq'[q].pc = "resume" => rq'[q].t \in Triggers,
           StopsBehind'
    PROVE  TriggerInv'
<1>1. Kept
  BY RunsStand DEF Kept
<1>2. \A s \in Threads : ThreadOk(s)'
  BY <1>1, NoneMoves
<1> QED BY <1>2, RowStep DEF TriggerInv, TypeInv

LEMMA IdleIsRequest ==
    IdleRequest \in RequestType /\ IdleRequest.pc = "idle" /\ IdleRequest.next = 0
BY DEF IdleRequest, RequestType

\* One request's step, as to the requests.
LEMMA RequestBecomes ==
    ASSUME TypeInv, NEW q \in Requests, NEW x \in RequestType, rq' = [rq EXCEPT ![q] = x],
           x.next # 0 => x.t \in Schedules, x.pc = "resume" => x.t \in Triggers
    PROVE  /\ rq' \in [Requests -> RequestType]
           /\ \A p \in Requests : rq'[p].next # 0 => rq'[p].t \in Schedules
           /\ \A p \in Requests : rq'[p].pc = "resume" => rq'[p].t \in Triggers
           /\ rq'[q] = x /\ \A p \in Requests \ {q} : rq'[p] = rq[p]
BY DEF TypeInv

LEMMA CreateInd ==
    ASSUME TriggerInv, NEW q \in Requests, NEW t \in Triggers, CreateTrigger(q, t), UNCHANGED th
    PROVE  TriggerInv'
<1>1. PICK c \in ServerClock :
         trig' = [trig EXCEPT ![t] = [OldRow EXCEPT !.next = FirstTick(t, c)]]
  BY DEF CreateTrigger
<1> DEFINE row == [OldRow EXCEPT !.next = FirstTick(t, c)]
<1>2. trig[t] = Absent /\ UNCHANGED <<rq, now, queue, log, made, stops, stopGen, pushes>>
  BY DEF CreateTrigger, requestOnly
<1>3. FirstTick(t, c) \in TickTimes \cup {0} /\ (FirstTick(t, c) # 0 => t \in Schedules)
  BY FirstTicks DEF ServerClock
<1>4. row \in RowType /\ row.next = FirstTick(t, c) /\ row.enabled /\ row.stored /\ row.gen = 0
  <2>1. 0 \in 0..MaxRotation
    BY TriggerAssumption
  <2> QED BY <1>3, <2>1 DEF OldRow, Absent, RowType
<1>5. TypeInv /\ StopsBehind /\ trig \in [Triggers -> RowType] /\ trig' = [trig EXCEPT ![t] = row]
  BY <1>1 DEF TriggerInv, TypeInv
<1> HIDE DEF row
<1>6. trig' \in [Triggers -> RowType] /\ trig'[t] = row /\ \A u \in Triggers \ {t} : trig'[u] = trig[u]
  BY <1>4, <1>5
<1>7. \A u \in Triggers : trig'[u].next # 0 => u \in Schedules
  BY <1>3, <1>4, <1>5, <1>6 DEF TypeInv
<1>8. ASSUME NEW gens \in [Triggers -> Int], Behind(trig, gens) PROVE Behind(trig', gens)
  <2>1. gens[t] < 0
    BY <1>2, <1>8 DEF Behind
  <2>2. trig'[t].gen = 0 /\ trig'[t].stored /\ trig'[t] # Absent /\ gens[t] \in Int
    BY <1>4, <1>6 DEF Absent
  <2>3. /\ trig'[t] = Absent => gens[t] < 0
        /\ trig'[t].stored => gens[t] <= trig'[t].gen
        /\ trig'[t].enabled => trig'[t].stored /\ gens[t] < trig'[t].gen
    BY <2>1, <2>2
  <2> QED BY <1>6, <1>8, <2>3 DEF Behind
<1>9. StopsBehind'
  <2>1. Behind(trig', stopGen')
    BY <1>2, <1>5, <1>8 DEF TypeInv, StopsBehind
  <2>2. ASSUME NEW p \in Requests, rq'[p].pc = "stop" PROVE Behind(trig', rq'[p].gens)
    <3>1. rq[p].gens \in [Triggers -> Int] /\ Behind(trig, rq[p].gens)
      BY <1>2, <1>5, <2>2 DEF TypeInv, RequestType, StopsBehind
    <3> QED BY <1>2, <1>8, <3>1
  <2> QED BY <2>1, <2>2 DEF StopsBehind
<1> QED BY <1>2, <1>5, <1>6, <1>7, <1>9, RequestStep DEF TypeInv

\* A pause, a deletion, a rotation: no trigger comes to run by it.
LEMMA RowEdited ==
    ASSUME TriggerInv, NEW t \in Triggers, trig[t].stored, NEW row \in RowType,
           trig' = [trig EXCEPT ![t] = row], UNCHANGED th,
           UNCHANGED <<rq, now, queue, log, made, stops, stopGen, pushes>>,
           row.next # 0 => t \in Schedules, row # Absent,
           row.stored => row.gen >= trig[t].gen,
           row.enabled => row.stored /\ trig[t].enabled
    PROVE  TriggerInv'
<1>1. TypeInv /\ StopsBehind /\ trig \in [Triggers -> RowType]
  BY DEF TriggerInv, TypeInv
<1>2. trig' \in [Triggers -> RowType] /\ trig'[t] = row /\ \A u \in Triggers \ {t} : trig'[u] = trig[u]
  BY <1>1
<1>3. \A u \in Triggers : trig'[u].next # 0 => u \in Schedules
  BY <1>1, <1>2 DEF TypeInv
<1>4. \A u \in Triggers :
          /\ trig'[u] = Absent => trig[u] = Absent
          /\ trig'[u].stored => trig[u].stored /\ trig'[u].gen >= trig[u].gen
          /\ trig'[u].enabled => trig'[u].stored /\ (trig[u].enabled \/ trig'[u].gen > trig[u].gen)
  <2> TAKE u \in Triggers
  <2>1. CASE u = t
    BY <1>2, <2>1
  <2>2. CASE u # t
    <3>1. trig[u].gen \in Nat /\ trig'[u] = trig[u]
      BY <1>1, <1>2, <2>2 DEF RowType
    <3>2. trig[u].enabled => trig[u].stored
      BY <1>1 DEF StopsBehind, Behind
    <3> QED BY <3>1, <3>2
  <2> QED BY <2>1, <2>2
<1>5. StopsBehind'
  BY <1>1, <1>2, <1>4, StopsStand
<1> QED BY <1>1, <1>2, <1>3, <1>5, RequestStep DEF TypeInv

LEMMA EditInd ==
    ASSUME TriggerInv, NEW q \in Requests, NEW t \in Triggers, UNCHANGED th,
           PauseTrigger(q, t) \/ DeleteTrigger(q, t) \/ RotateWebhook(q, t)
    PROVE  TriggerInv'
<1>1. /\ trig[t].stored
      /\ UNCHANGED <<rq, now, queue, log, made, stops, stopGen, pushes>>
  BY DEF PauseTrigger, DeleteTrigger, RotateWebhook, requestOnly
<1>2. /\ trig \in [Triggers -> RowType] /\ trig[t] \in RowType /\ (trig[t].enabled => trig[t].stored)
      /\ (trig[t].next # 0 => t \in Schedules)
  BY DEF TriggerInv, TypeInv, StopsBehind, Behind
<1>3. CASE PauseTrigger(q, t)
  <2> DEFINE row == Paused(trig[t])
  <2>1. trig' = [trig EXCEPT ![t] = row]
    BY <1>3 DEF PauseTrigger
  <2>2. /\ row \in RowType /\ row.stored /\ ~row.enabled
        /\ row.gen = trig[t].gen /\ row.next = trig[t].next /\ row # Absent
    BY <1>1, <1>2 DEF RowType, Absent, Paused
  <2>3. row.gen >= trig[t].gen
    BY <1>2, <2>2 DEF RowType
  <2> HIDE DEF row
  <2> QED BY <1>1, <1>2, <2>1, <2>2, <2>3, RowEdited
<1>4. CASE DeleteTrigger(q, t)
  <2> DEFINE row == [Absent EXCEPT !.gen = MaxGen + 1]
  <2>1. trig' = [trig EXCEPT ![t] = row]
    BY <1>4 DEF DeleteTrigger
  <2>2. MaxGen + 1 \in Nat /\ MaxGen + 1 # 0 /\ 0 \in 0..MaxRotation
    <3>1. MaxGen \in Nat /\ MaxRotation \in Nat
      BY TriggerAssumption
    <3> QED BY <3>1
  <2>3. row.gen = MaxGen + 1 /\ ~row.stored /\ ~row.enabled /\ row.next = 0 /\ row.rotation = 0
    BY DEF Absent
  <2>4. row \in RowType
    BY <2>2 DEF RowType, Absent
  <2>5. row # Absent
    <3>1. Absent.gen = 0
      BY DEF Absent
    <3> QED BY <2>2, <2>3, <3>1
  <2> HIDE DEF row
  <2> QED BY <1>1, <1>2, <2>1, <2>3, <2>4, <2>5, RowEdited
<1>5. CASE RotateWebhook(q, t)
  <2> DEFINE row == [trig[t] EXCEPT !.rotation = trig[t].rotation + 1]
  <2>1. trig' = [trig EXCEPT ![t] = row] /\ trig[t].rotation < MaxRotation
    BY <1>5 DEF RotateWebhook
  <2>2. trig[t].rotation + 1 \in 0..MaxRotation
    <3>1. MaxRotation \in Nat /\ trig[t].rotation \in 0..MaxRotation
      BY <1>2, TriggerAssumption DEF RowType
    <3> QED BY <2>1, <3>1
  <2>3. /\ row \in RowType /\ row.stored /\ (row.enabled => trig[t].enabled)
        /\ row.gen = trig[t].gen /\ row.next = trig[t].next /\ row # Absent
    BY <1>1, <1>2, <2>2 DEF RowType, Absent
  <2>4. row.gen >= trig[t].gen
    BY <1>2, <2>3 DEF RowType
  <2> HIDE DEF row
  <2> QED BY <1>1, <1>2, <2>1, <2>3, <2>4, RowEdited
<1> QED BY <1>3, <1>4, <1>5

LEMMA ResumeInd ==
    ASSUME TriggerInv, NEW q \in Requests, UNCHANGED th,
           (\E t \in Triggers : ResumeReads(q, t)) \/ ResumeTrigger(q)
    PROVE  TriggerInv'
<1>1. /\ TypeInv /\ StopsBehind /\ trig \in [Triggers -> RowType] /\ rq[q] \in RequestType
      /\ \A t \in Triggers : trig[t].gen \in Nat /\ (trig[t].enabled => trig[t].stored)
  BY DEF TriggerInv, TypeInv, RowType, StopsBehind, Behind
<1>2. ASSUME NEW t \in Triggers, ResumeReads(q, t) PROVE TriggerInv'
  <2>1. PICK c \in ServerClock :
           rq' = [rq EXCEPT ![q] = [IdleRequest EXCEPT !.pc = "resume", !.t = t,
                                                       !.next = FirstTick(t, c)]]
    BY <1>2 DEF ResumeReads
  <2> DEFINE x == [IdleRequest EXCEPT !.pc = "resume", !.t = t, !.next = FirstTick(t, c)]
  <2>2. FirstTick(t, c) \in TickTimes \cup {0} /\ (FirstTick(t, c) # 0 => t \in Schedules)
    BY FirstTicks DEF ServerClock
  <2>3. x \in RequestType /\ x.pc = "resume" /\ x.t = t /\ x.next = FirstTick(t, c)
    BY <2>2, IdleIsRequest DEF RequestType
  <2>4. UNCHANGED <<trig, now, queue, log, made, stops, stopGen, pushes>> /\ rq' = [rq EXCEPT ![q] = x]
    BY <1>2, <2>1 DEF ResumeReads, requestOnly
  <2> HIDE DEF x
  <2>5. /\ rq' \in [Requests -> RequestType]
        /\ \A p \in Requests : rq'[p].next # 0 => rq'[p].t \in Schedules
        /\ \A p \in Requests : rq'[p].pc = "resume" => rq'[p].t \in Triggers
        /\ rq'[q] = x /\ \A p \in Requests \ {q} : rq'[p] = rq[p]
    BY <1>1, <2>2, <2>3, <2>4, RequestBecomes
  <2>6. \A p \in Requests : rq'[p].pc = "stop" => rq[p].pc = "stop" /\ rq'[p].gens = rq[p].gens
    BY <2>3, <2>5
  <2>7. StopsBehind'
    BY <1>1, <2>4, <2>6, StopsStand
  <2> QED BY <1>1, <2>4, <2>5, <2>7, RequestStep DEF TypeInv
<1>3. CASE ResumeTrigger(q)
  <2> DEFINE t == rq[q].t
             row == IF trig[t].stored THEN Resumed(trig[t], rq[q].next) ELSE trig[t]
  <2>1. /\ rq[q].pc = "resume" /\ trig' = [trig EXCEPT ![t] = row]
        /\ rq' = [rq EXCEPT ![q] = IdleRequest]
        /\ UNCHANGED <<now, queue, log, made, stops, stopGen, pushes>>
    BY <1>3 DEF ResumeTrigger, requestOnly
  <2>2. /\ t \in Triggers /\ trig[t] \in RowType /\ rq[q].next \in TickTimes \cup {0}
        /\ rq[q].next # 0 => t \in Schedules
        /\ trig[t].next # 0 => t \in Schedules
    BY <1>1, <2>1 DEF TypeInv, RequestType
  <2>3. /\ row \in RowType /\ row.stored = trig[t].stored
        /\ row.next # 0 => t \in Schedules
        /\ row = Absent => trig[t] = Absent
        /\ row.gen >= trig[t].gen
        /\ row.enabled => row.stored /\ (trig[t].enabled \/ row.gen > trig[t].gen)
    <3>1. CASE ~trig[t].stored \/ trig[t].enabled
      <4>1. row = trig[t]
        BY <3>1 DEF Resumed
      <4>2. trig[t].gen \in Nat /\ (trig[t].enabled => trig[t].stored)
        BY <1>1, <2>2
      <4> HIDE DEF row
      <4> QED BY <2>2, <4>1, <4>2
    <3>2. CASE trig[t].stored /\ ~trig[t].enabled
      <4>1. row = [trig[t] EXCEPT !.enabled = TRUE, !.next = rq[q].next, !.gen = trig[t].gen + 1]
        BY <3>2 DEF Resumed
      <4>2. trig[t].gen \in Nat /\ trig[t].gen + 1 \in Nat
        BY <1>1, <2>2
      <4> HIDE DEF row
      <4>3. /\ row \in RowType /\ row.stored /\ row.next = rq[q].next /\ row.gen = trig[t].gen + 1
        BY <2>2, <3>2, <4>1, <4>2 DEF RowType
      <4>4. row # Absent
        BY <4>3 DEF Absent
      <4> QED BY <2>2, <3>2, <4>2, <4>3, <4>4
    <3> QED BY <3>1, <3>2
  <2> HIDE DEF row
  <2>4. trig' \in [Triggers -> RowType] /\ trig'[t] = row /\ \A u \in Triggers \ {t} : trig'[u] = trig[u]
    BY <1>1, <2>1, <2>2, <2>3
  <2>5. \A u \in Triggers : trig'[u].next # 0 => u \in Schedules
    BY <1>1, <2>3, <2>4 DEF TypeInv
  <2>6. \A u \in Triggers :
            /\ trig'[u] = Absent => trig[u] = Absent
            /\ trig'[u].stored => trig[u].stored /\ trig'[u].gen >= trig[u].gen
            /\ trig'[u].enabled => trig'[u].stored /\ (trig[u].enabled \/ trig'[u].gen > trig[u].gen)
    <3> TAKE u \in Triggers
    <3>1. CASE u = t
      BY <2>3, <2>4, <3>1
    <3>2. CASE u # t
      <4>1. trig[u].gen \in Nat /\ trig'[u] = trig[u] /\ (trig[u].enabled => trig[u].stored)
        BY <1>1, <2>4, <3>2
      <4> QED BY <4>1
    <3> QED BY <3>1, <3>2
  <2>7. /\ rq' \in [Requests -> RequestType]
        /\ \A p \in Requests : rq'[p].next # 0 => rq'[p].t \in Schedules
        /\ \A p \in Requests : rq'[p].pc = "resume" => rq'[p].t \in Triggers
        /\ rq'[q] = IdleRequest /\ \A p \in Requests \ {q} : rq'[p] = rq[p]
    BY <1>1, <2>1, IdleIsRequest, RequestBecomes
  <2>8. \A p \in Requests : rq'[p].pc = "stop" => rq[p].pc = "stop" /\ rq'[p].gens = rq[p].gens
    BY <2>7, IdleIsRequest
  <2>9. StopsBehind'
    BY <1>1, <2>1, <2>4, <2>6, <2>8, StopsStand
  <2> QED BY <2>1, <2>4, <2>5, <2>7, <2>9, RequestStep
<1> QED BY <1>2, <1>3

\* The owner's stop pauses the triggers, and then records itself.
LEMMA StopInd ==
    ASSUME TriggerInv, NEW q \in Requests, UNCHANGED th,
           StopPauses(q) \/ StopPauseFails(q) \/ StopRecords(q)
    PROVE  TriggerInv'
<1>1. /\ TypeInv /\ StopsBehind /\ trig \in [Triggers -> RowType] /\ stopGen \in [Triggers -> Int]
      /\ \A t \in Triggers : trig[t].gen \in Nat /\ (trig[t].enabled => trig[t].stored)
  BY DEF TriggerInv, TypeInv, RowType, StopsBehind, Behind
<1>2. CASE StopPauses(q)
  <2> DEFINE gens == [t \in Triggers |-> IF trig[t].stored THEN trig[t].gen ELSE -1]
             x == [IdleRequest EXCEPT !.pc = "stop", !.gens = gens]
  <2>1. /\ rq' = [rq EXCEPT ![q] = x] /\ trig' = [t \in Triggers |-> Paused(trig[t])]
        /\ UNCHANGED <<now, queue, log, made, stops, stopGen, pushes>>
    BY <1>2 DEF StopPauses, requestOnly
  <2>2. gens \in [Triggers -> Int]
    BY <1>1
  <2>3. \A t \in Triggers : gens[t] = IF trig[t].stored THEN trig[t].gen ELSE -1
    OBVIOUS
  <2> HIDE DEF gens
  <2>4. x \in RequestType /\ x.pc = "stop" /\ x.gens = gens /\ x.next = 0
    BY <2>2, IdleIsRequest DEF RequestType
  <2> HIDE DEF x
  <2>5. \A t \in Triggers :
            /\ trig'[t] \in RowType /\ trig'[t].next = trig[t].next
            /\ trig'[t].stored = trig[t].stored /\ trig'[t].gen = trig[t].gen
            /\ ~trig'[t].enabled
            /\ trig'[t] = Absent => ~trig[t].stored
    <3> TAKE t \in Triggers
    <3> DEFINE row == Paused(trig[t])
    <3>1. trig[t] \in RowType /\ trig'[t] = row
      BY <1>1, <2>1
    <3>2. /\ row \in RowType /\ row.stored = trig[t].stored /\ row.enabled = FALSE
          /\ row.gen = trig[t].gen /\ row.next = trig[t].next
          /\ row = Absent => trig[t].stored = FALSE
      BY <3>1 DEF RowType, Absent, Paused
    <3> HIDE DEF row
    <3> QED BY <3>1, <3>2
  <2>6. trig' \in [Triggers -> RowType]
    <3>1. trig' = [t \in Triggers |-> trig'[t]]
      BY <2>1
    <3> QED BY <2>5, <3>1
  <2>7. /\ rq' \in [Requests -> RequestType]
        /\ \A p \in Requests : rq'[p].next # 0 => rq'[p].t \in Schedules
        /\ \A p \in Requests : rq'[p].pc = "resume" => rq'[p].t \in Triggers
        /\ rq'[q] = x /\ \A p \in Requests \ {q} : rq'[p] = rq[p]
    BY <1>1, <2>1, <2>4, RequestBecomes
  <2>8. ASSUME NEW old \in [Triggers -> Int], Behind(trig, old) PROVE Behind(trig', old)
    <3>1. \A t \in Triggers :
             /\ trig'[t] = Absent => old[t] < 0
             /\ trig'[t].stored => old[t] <= trig'[t].gen
      <4> TAKE t \in Triggers
      <4>1. trig[t].stored => old[t] <= trig[t].gen
        BY <2>8 DEF Behind
      <4>2. trig'[t] = Absent => trig[t] = Absent
        <5> HAVE trig'[t] = Absent
        <5>1. trig[t] \in RowType /\ trig'[t] = Paused(trig[t]) /\ ~trig[t].stored
          BY <1>1, <2>1, <2>5
        <5>2. ~trig[t].enabled
          BY <1>1, <5>1
        <5>3. trig[t].enabled = FALSE
          BY <5>1, <5>2 DEF RowType
        <5>4. Paused(trig[t]) = trig[t]
          BY <5>1, <5>3 DEF Paused, RowType
        <5> QED BY <5>1, <5>4
      <4>3. trig[t] = Absent => old[t] < 0
        BY <2>8 DEF Behind
      <4> QED BY <2>5, <4>1, <4>2, <4>3
    <3> QED BY <2>5, <3>1 DEF Behind
  <2>9. Behind(trig', gens)
    <3>1. \A t \in Triggers :
             /\ trig'[t] = Absent => gens[t] < 0
             /\ trig'[t].stored => gens[t] <= trig'[t].gen
      BY <1>1, <2>3, <2>5
    <3> QED BY <2>5, <3>1 DEF Behind
  <2>10. StopsBehind'
    <3>1. Behind(trig', stopGen')
      BY <1>1, <2>1, <2>8 DEF StopsBehind
    <3>2. ASSUME NEW p \in Requests, rq'[p].pc = "stop" PROVE Behind(trig', rq'[p].gens)
      <4>1. CASE p = q
        BY <2>4, <2>7, <2>9, <4>1
      <4>2. CASE p # q
        <5>1. rq'[p] = rq[p] /\ rq[p].gens \in [Triggers -> Int] /\ Behind(trig, rq[p].gens)
          BY <1>1, <2>7, <3>2, <4>2 DEF TypeInv, RequestType, StopsBehind
        <5> QED BY <2>8, <5>1
      <4> QED BY <4>1, <4>2
    <3> QED BY <3>1, <3>2 DEF StopsBehind
  <2>11. \A t \in Triggers : trig'[t].next # 0 => t \in Schedules
    BY <1>1, <2>5 DEF TypeInv
  <2> QED BY <2>1, <2>6, <2>7, <2>10, <2>11, RequestStep
<1>3. CASE StopPauseFails(q)
  <2> DEFINE x == [IdleRequest EXCEPT !.pc = "stop", !.gens = stopGen]
  <2>1. /\ rq' = [rq EXCEPT ![q] = x]
        /\ UNCHANGED <<trig, now, queue, log, made, stops, stopGen, pushes>>
    BY <1>3 DEF StopPauseFails
  <2>2. x \in RequestType /\ x.pc = "stop" /\ x.gens = stopGen /\ x.next = 0
    BY <1>1, IdleIsRequest DEF RequestType
  <2> HIDE DEF x
  <2>3. /\ rq' \in [Requests -> RequestType]
        /\ \A p \in Requests : rq'[p].next # 0 => rq'[p].t \in Schedules
        /\ \A p \in Requests : rq'[p].pc = "resume" => rq'[p].t \in Triggers
        /\ rq'[q] = x /\ \A p \in Requests \ {q} : rq'[p] = rq[p]
    BY <1>1, <2>1, <2>2, RequestBecomes
  <2>4. StopsBehind'
    <3>1. Behind(trig', stopGen')
      BY <1>1, <2>1 DEF StopsBehind
    <3>2. ASSUME NEW p \in Requests, rq'[p].pc = "stop" PROVE Behind(trig', rq'[p].gens)
      <4>1. CASE p = q
        BY <2>1, <2>2, <2>3, <3>1, <4>1
      <4>2. CASE p # q
        BY <1>1, <2>1, <2>3, <3>2, <4>2 DEF StopsBehind
      <4> QED BY <4>1, <4>2
    <3> QED BY <3>1, <3>2 DEF StopsBehind
  <2> QED BY <1>1, <2>1, <2>3, <2>4, RequestStep DEF TypeInv
<1>4. CASE StopRecords(q)
  <2>1. /\ rq[q].pc = "stop" /\ stopGen' = rq[q].gens /\ rq' = [rq EXCEPT ![q] = IdleRequest]
        /\ stops' = stops \cup {r \in Runs : log[r] # <<>>}
        /\ UNCHANGED <<trig, now, queue, log, made, pushes>>
    BY <1>4 DEF StopRecords
  <2>2. /\ rq' \in [Requests -> RequestType]
        /\ \A p \in Requests : rq'[p].next # 0 => rq'[p].t \in Schedules
        /\ \A p \in Requests : rq'[p].pc = "resume" => rq'[p].t \in Triggers
        /\ rq'[q] = IdleRequest /\ \A p \in Requests \ {q} : rq'[p] = rq[p]
    BY <1>1, <2>1, IdleIsRequest, RequestBecomes
  <2>3. rq[q].gens \in [Triggers -> Int] /\ Behind(trig, rq[q].gens)
    BY <1>1, <2>1 DEF TypeInv, RequestType, StopsBehind
  <2>4. StopsBehind'
    <3>1. ASSUME NEW p \in Requests, rq'[p].pc = "stop" PROVE Behind(trig', rq'[p].gens)
      <4>1. p # q
        BY <2>2, <3>1, IdleIsRequest
      <4> QED BY <1>1, <2>1, <2>2, <3>1, <4>1 DEF StopsBehind
    <3> QED BY <2>1, <2>3, <3>1 DEF StopsBehind
  <2>5. ASSUME NEW s \in Threads PROVE ThreadOk(s)'
    <3>1. ThreadOk(s) /\ th' = th /\ log' = log /\ pushes' = pushes
      BY <2>1 DEF TriggerInv
    <3>2. At(s, "push") => th[s].run \in stops'
      <4> HAVE At(s, "push")
      <4>1. th[s].run \in Runs /\ log[th[s].run] # <<>>
        BY <3>1 DEF ThreadOk, At
      <4> QED BY <2>1, <4>1
    <3> QED BY <3>1, <3>2 DEF ThreadOk, At
  <2>6. TypeInv'
    BY <1>1, <2>1, <2>2, <2>3 DEF TypeInv
  <2>7. OnceOnly(queue)'
    BY <2>1, QueueStands
  <2>8. PushedBefore'
    BY <2>1 DEF TriggerInv, PushedBefore, QueuedOrClaimed, OnRuns
  <2> QED BY <2>4, <2>5, <2>6, <2>7, <2>8 DEF TriggerInv
<1> QED BY <1>2, <1>3, <1>4

LEMMA StopCancelsInd ==
    ASSUME TriggerInv, NEW r \in Runs, StopCancels(r), UNCHANGED th
    PROVE  TriggerInv'
<1>1. /\ log' = [log EXCEPT ![r] = AppendEvents(@, <<Plain("RunCancelled")>>)]
      /\ UNCHANGED <<trig, now, rq, queue, made, stops, stopGen, pushes, faults>>
  BY DEF StopCancels
<1>2. "RunCancelled" \in FiredTypes /\ "RunCancelled" \notin Ran
  BY DEF FiredTypes, Ran
<1>3. log' \in [Runs -> Seq(FiredEvent)] /\ KeptRuns /\ PushedBefore'
  BY <1>1, <1>2, SameLive, EventStep
<1> QED BY <1>1, <1>3, QueueStands, QuietStep

LEMMA OwnerInd == TriggerInv /\ OwnerNext /\ UNCHANGED th => TriggerInv'
<1> SUFFICES ASSUME TriggerInv, OwnerNext, UNCHANGED th PROVE TriggerInv'
  OBVIOUS
<1>1. ASSUME NEW q \in Requests, NEW t \in Triggers, CreateTrigger(q, t) PROVE TriggerInv'
  BY <1>1, CreateInd
<1>2. ASSUME NEW q \in Requests, NEW t \in Triggers,
             PauseTrigger(q, t) \/ DeleteTrigger(q, t) \/ RotateWebhook(q, t)
      PROVE  TriggerInv'
  BY <1>2, EditInd
<1>3. ASSUME NEW q \in Requests, (\E t \in Triggers : ResumeReads(q, t)) \/ ResumeTrigger(q)
      PROVE  TriggerInv'
  BY <1>3, ResumeInd
<1>4. ASSUME NEW q \in Requests, StopPauses(q) \/ StopPauseFails(q) \/ StopRecords(q)
      PROVE  TriggerInv'
  BY <1>4, StopInd
<1>5. ASSUME NEW r \in Runs, StopCancels(r) PROVE TriggerInv'
  BY <1>5, StopCancelsInd
<1> QED BY <1>1, <1>2, <1>3, <1>4, <1>5 DEF OwnerNext

(***************************************************************************)
(* The theorems                                                            *)
(***************************************************************************)
LEMMA InitHolds == Init => TriggerInv
<1> SUFFICES ASSUME Init PROVE TriggerInv
  OBVIOUS
<1>1. /\ trig \in [Triggers -> {Absent, OldRow, [OldRow EXCEPT !.parses = FALSE]}]
      /\ now = 0 /\ rq = [q \in Requests |-> IdleRequest] /\ queue = EmptyQueue
      /\ log = [r \in Runs |-> <<>>] /\ made = [r \in Runs |-> 0] /\ stops = {}
      /\ stopGen = [t \in Triggers |-> -1] /\ pushes = [r \in Runs |-> 0]
      /\ th = [s \in Threads |-> IdleThread]
  BY DEF Init, StoreInit, FiringInit
<1>2. 0 \in 0..MaxRotation /\ 0 \in 0..MaxNow
  BY TriggerAssumption
<1>3. /\ Absent \in RowType /\ OldRow \in RowType /\ [OldRow EXCEPT !.parses = FALSE] \in RowType
      /\ Absent.next = 0 /\ OldRow.next = 0 /\ [OldRow EXCEPT !.parses = FALSE].next = 0
      /\ Absent.gen = 0 /\ OldRow.gen = 0 /\ [OldRow EXCEPT !.parses = FALSE].gen = 0
      /\ ~Absent.enabled /\ OldRow.stored /\ [OldRow EXCEPT !.parses = FALSE].stored
  BY <1>2 DEF Absent, OldRow, RowType
<1>4. trig \in [Triggers -> RowType]
      /\ \A t \in Triggers : trig[t].next = 0 /\ trig[t].gen = 0 /\ (trig[t].enabled => trig[t].stored)
  BY <1>1, <1>3
<1>5. queue \in QueueType
  BY <1>1 DEF EmptyQueue, QueueType, PendingAge
<1>6. OnceOnly(queue)
  BY <1>1 DEF EmptyQueue, OnceOnly, OnRuns
<1>7. PushedBefore
  <2>1. \A r \in Runs : ~OnRuns(queue, r) /\ ~(queue.processing[r] > 0) /\ queue.lease[r] = NoLease
    BY <1>1 DEF EmptyQueue, OnRuns
  <2>2. \A r \in Runs : ~Has(log[r], Ran)
    BY <1>1 DEF Has
  <2> QED BY <2>1, <2>2 DEF PushedBefore, QueuedOrClaimed
<1>8. StopsBehind
  <2>1. \A t \in Triggers : stopGen[t] = -1
    BY <1>1
  <2>2. Behind(trig, stopGen)
    BY <1>4, <2>1 DEF Behind
  <2> QED BY <1>1, <2>2, IdleIsRequest DEF StopsBehind
<1>9. TypeInv
  <2>1. log \in [Runs -> Seq(FiredEvent)]
    BY <1>1
  <2>2. rq \in [Requests -> RequestType] /\ (\A q \in Requests : rq[q] = IdleRequest)
    BY <1>1, IdleIsRequest
  <2>3. th \in [Threads -> ThreadType]
    BY <1>1, IdleIsThread
  <2>4. stopGen \in [Triggers -> Int] /\ made \in [Runs -> Nat] /\ pushes \in [Runs -> Nat]
    BY <1>1
  <2> QED BY <1>1, <1>2, <1>4, <1>5, <2>1, <2>2, <2>3, <2>4, IdleIsRequest DEF TypeInv
<1>10. \A s \in Threads : ThreadOk(s)
  BY <1>1, IdleIsThread DEF ThreadOk, At
<1> QED BY <1>6, <1>7, <1>8, <1>9, <1>10 DEF TriggerInv

LEMMA NextHolds == TriggerInv /\ [Next]_vars => TriggerInv'
<1> SUFFICES ASSUME TriggerInv, [Next]_vars PROVE TriggerInv'
  OBVIOUS
<1>1. ASSUME NEW s \in Threads, FireSteps(s) PROVE TriggerInv'
  BY <1>1, SchedulerInd, SweepInd, ReadTriggerInd, PendInd, PutInd, SettleInd, UnpendInd, GateInd,
     PushInd, CancelInd, DropInd DEF FireSteps
<1>2. ASSUME FireNext PROVE TriggerInv'
  <2>1. ASSUME NEW s \in Threads, FireStarts(s) \/ FireSteps(s) \/ FireFails(s) PROVE TriggerInv'
    BY <1>1, <2>1, StartsInd, FailsInd
  <2>2. ASSUME NEW s \in Deliveries, DeliverySteps(s) PROVE TriggerInv'
    BY <2>2, DeliveryInd
  <2>3. ASSUME NEW r \in Runs, PendingForgotten(r) PROVE TriggerInv'
    BY <2>3, ForgottenInd
  <2> QED BY <1>2, <2>1, <2>2, <2>3 DEF FireNext
<1>3. ASSUME NEW w \in Workers, WorkerNext(w) PROVE TriggerInv'
  BY <1>3, WorkerInd
<1>4. CASE OwnerNext /\ UNCHANGED th
  BY <1>4, OwnerInd
<1>5. CASE Minute /\ UNCHANGED th
  <2>1. /\ now < MaxNow /\ now' = now + 1
        /\ UNCHANGED <<trig, rq, queue, log, made, stops, stopGen, pushes, th>>
    BY <1>5 DEF Minute
  <2>2. now' \in 0..MaxNow
    <3>1. MaxNow \in Nat /\ now \in 0..MaxNow
      BY TriggerAssumption DEF TriggerInv, TypeInv
    <3> QED BY <2>1, <3>1
  <2>3. TypeInv'
    BY <2>1, <2>2 DEF TriggerInv, TypeInv
  <2>4. Kept
    BY <2>1, RunsStand DEF Kept
  <2>5. \A s \in Threads : ThreadOk(s)'
    BY <2>1, <2>4, NoneMoves
  <2>6. PushedBefore' /\ StopsBehind'
    BY <2>1, GensStand DEF TriggerInv, PushedBefore, QueuedOrClaimed, OnRuns
  <2> QED BY <2>1, <2>3, <2>5, <2>6, QueueStands DEF TriggerInv
<1>6. CASE UNCHANGED vars
  <2>1. /\ UNCHANGED <<trig, now, rq, made, stops, stopGen, pushes, th>>
        /\ queue' = queue /\ log' = log
    BY <1>6 DEF vars, shared
  <2>2. PushedBefore' /\ KeptRuns
    BY <2>1, RunsStand DEF TriggerInv, PushedBefore, QueuedOrClaimed, OnRuns
  <2> QED BY <2>1, <2>2, QueueStands, QuietStep DEF TriggerInv, TypeInv
<1> QED BY <1>2, <1>3, <1>4, <1>5, <1>6 DEF Next

LEMMA AlwaysTriggerInv == Spec => []TriggerInv
BY InitHolds, NextHolds, PTL DEF Spec

\* Every row, request, run and thread holds a value of its kind, however many
\* requests, faults and minutes there are.
THEOREM TriggersTyped == Spec => []TriggersTypeOK
<1>1. TriggerInv => TriggersTypeOK
  BY DEF TriggerInv, TypeInv, TriggersTypeOK, RequestType, ThreadType
<1> QED BY <1>1, AlwaysTriggerInv, PTL

\* However many threads settle a fired run, PUSH_ONCE (queue.rs) queues it once:
\* it is never twice on the list, nor on the list and with a worker.
THEOREM FiredOnce == Spec => []QueuedOnce
<1>1. TriggerInv => QueuedOnce
  <2> SUFFICES ASSUME TriggerInv, NEW r \in Runs
               PROVE  Cardinality({i \in DOMAIN queue.runs : queue.runs[i] = r})
                        + queue.processing[r] <= 1
    BY DEF QueuedOnce
  <2> DEFINE T == {i \in DOMAIN queue.runs : queue.runs[i] = r}
  <2>1. /\ queue.processing[r] \in Nat /\ queue.processing[r] <= 1
        /\ queue.processing[r] = 1 => T = {}
        /\ \A i, j \in T : i = j
    BY QueueFields DEF TriggerInv, TypeInv, OnceOnly, OnRuns
  <2> HIDE DEF T
  <2>2. CASE T = {}
    <3>1. Cardinality(T) = 0
      BY <2>2, FS_EmptySet
    <3> QED BY <2>1, <3>1 DEF T
  <2>3. CASE T # {}
    <3>1. PICK i \in T : TRUE
      BY <2>3
    <3>2. T = {i}
      BY <2>1, <3>1
    <3>3. Cardinality(T) = 1
      BY <3>2, FS_Singleton
    <3>4. queue.processing[r] = 0
      BY <2>1, <2>3
    <3> QED BY <3>3, <3>4 DEF T
  <2> QED BY <2>2, <2>3
<1> QED BY <1>1, AlwaysTriggerInv, PTL

\* Whoever pushes the run of a fire that read its trigger before the pause of an
\* owner's stop, the stop covers the run: whatever is resumed meanwhile, and
\* whichever of the two steps of the stop fails (http.rs stop_owner, spawner.rs
\* settle_fire).
THEOREM StopsHold == Spec => []StopHolds
<1>1. TriggerInv => StopHolds
  BY DEF TriggerInv, ThreadOk, StopHolds
<1> QED BY <1>1, AlwaysTriggerInv, PTL

\* A sender who is told that its event started a run, or is a duplicate, is told
\* so of a run that was pushed (triggers.rs fire_webhook, replay_of).
THEOREM SendersAreTold == Spec => []AcceptedMeansPushed
<1>1. TriggerInv => AcceptedMeansPushed
  BY DEF TriggerInv, ThreadOk, AcceptedMeansPushed, Threads
<1> QED BY <1>1, AlwaysTriggerInv, PTL
=============================================================================
