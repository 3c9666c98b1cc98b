----------------------------- MODULE TurnsProofs -----------------------------
(***************************************************************************)
(* Of all that race to end a turn one is told that it did; a turn ends      *)
(* without a sandbox; and the holder of a turn's lease keeps the sandbox it  *)
(* works in: for any turns, workers, requests, faults and lost leases.      *)
(*                                                                         *)
(* TurnInv says, for each thread, what holds of the turn's log and of its   *)
(* sandboxes between the calls the thread makes; and of two workers on one  *)
(* turn, what the one that does not hold the lease can still do.            *)
(***************************************************************************)
EXTENDS Turns, NaturalsInduction, WellFoundedInduction, SequenceTheorems,
        FiniteSetTheorems, TLAPS

TurnConstants == TurnAssumption /\ MaxDeliveries \in Nat \ {0}

QueueType == [runs : Seq(Runs), processing : [Runs -> Nat], deliveries : [Runs -> Nat],
              pending : [Runs -> PendingAge], parked : [Runs -> {0}],
              lease : [Runs -> Workers \cup {NoLease}]]

LoggedTypes == {"RunQueued", "RunScheduled", "RunStarted", "Step"} \cup Ends
LoggedEvent == [type : LoggedTypes, ask : {0}]

EndBatches == {Completion, Failure, Cancellation}

OpenerPcs == {"queue", "put", "provision", "absent", "call", "destroy", "destroy_failed",
              "complete", "fail", "returned"}

RequestType == [pc : {"idle", "absent", "destroy", "append", "done"}, run : Runs \cup {NoRun},
                wants : {"none", "RunCompleted", "RunFailed"}]

ToldType == [by : Requests \cup {NoRun}, end : {"RunCompleted", "RunFailed"}]

\* Where a worker of a turn stands.
ToStart   == {"load", "start"}
BeforeBox == {"stop", "ladder", "begin", "stop_begun", "fence", "reread", "reload"}
InBox     == {"enter", "provision", "made", "stop_made", "call", "called", "drop"}
Ending    == {"clean", "destroy", "confirm", "gone", "end"}
Unboxed   == {"cancel", "tail", "failed"}
Leaving   == {"ack", "release"}
Laddered  == {"begin", "stop_begun", "fence", "reread"} \cup InBox
WorkerPcs == {"idle"} \cup ToStart \cup BeforeBox \cup InBox \cup Ending \cup Unboxed \cup Leaving

WorkerType == [pc : WorkerPcs, run : Runs \cup {NoRun}, attempt : 0..MaxDeliveries,
               seen : Nat, reloads : Nat, held : BOOLEAN, end : EndBatches \cup {<<>>},
               todo : SUBSET (Runs \X (1..MaxDeliveries))]

Sandboxes == Runs \X (0..MaxDeliveries)

SweepType == [pc : {"idle", "boxes", "volumes"}, todo : SUBSET (Sandboxes \cup Runs),
              left : SUBSET Runs]

\* The queue, the store and the host; and the threads.
SharedType ==
    /\ queue \in QueueType
    /\ log \in [Runs -> Seq(LoggedEvent)]
    /\ stops \subseteq Runs /\ astray \subseteq Runs
    /\ host \in [up : SUBSET Sandboxes, volumes : SUBSET Boxes]
    /\ late \subseteq Runs \X (1..MaxDeliveries)

ThreadsType ==
    /\ opener \in [Runs -> OpenerPcs]
    /\ req \in [Requests -> RequestType]
    /\ told \in [Runs -> SUBSET ToldType]
    /\ wk \in [Workers -> WorkerType]
    /\ sweep \in SweepType
    /\ sweep.pc = "boxes" => sweep.todo \subseteq Sandboxes
    /\ sweep.pc = "volumes" => sweep.todo \subseteq Runs

TypeInv == TurnConstants /\ SharedType /\ ThreadsType

\* A turn that is on a list is in the background and stored.
Queueable(r) == r \in Background /\ log[r] # <<>>
QueuedOnly == \A r \in Runs : QueuedOrClaimed(queue, r) => Queueable(r)

\* A turn's own request, and what was stored of the turn.
OpenerOk(r) ==
    /\ opener[r] \in {"queue", "put"} => log[r] = <<>>
    /\ opener[r] \notin {"queue", "put"} /\ r \notin Background => ~StillWaiting(log[r])
    /\ r \in Background => opener[r] \in {"queue", "returned"}
    /\ opener[r] = "queue" => r \in Background
    /\ opener[r] \in {"provision", "absent", "destroy", "destroy_failed"} => r \in Boxes

\* Whose sandboxes there are: an attempt's, once a worker stored the ladder, or
\* the one of a request between its provision and its end.
SandboxOk(n) ==
    /\ n[1] \in Boxes /\ ~StillWaiting(log[n[1]])
    /\ IF n[1] \in Background THEN n[2] >= 1
       ELSE n[2] = 0 /\ opener[n[1]] \in {"absent", "call", "destroy", "destroy_failed", "returned"}

\* A desktop's request ends a turn whose own request has returned.
RequestOk(q) ==
    req[q].pc \in {"absent", "destroy", "append"} =>
        /\ req[q].run \in Runs \ Background
        /\ req[q].wants # "none"
        /\ req[q].pc # "append" => req[q].run \in Boxes
        /\ ~EarlyRequests => opener[req[q].run] = "returned"
        /\ req[q].pc = "append" /\ ~EarlyRequests => Name(req[q].run, 0) \notin host.up

\* Who was told is the one whose end the log has.
ToldOk(r) ==
    \A t \in told[r] :
        told[r] = {t} /\ Ended(log[r]) /\ log[r] # <<>> /\ Last(log[r]).type = t.end

\* What a worker's record says of its turn.
WorkerOk(w) ==
    /\ ~At(w, "idle") => wk[w].run \in Background /\ log[wk[w].run] # <<>>
    /\ wk[w].pc \in {"idle"} \cup ToStart \cup Leaving =>
         wk[w].attempt = 0 /\ ~wk[w].held /\ wk[w].todo = {}
    /\ wk[w].pc \in BeforeBox \cup InBox \cup Unboxed =>
         wk[w].attempt >= 1 /\ wk[w].seen <= Len(log[wk[w].run])
    /\ At(w, "start") => wk[w].seen <= Len(log[wk[w].run])
    /\ wk[w].pc \in InBox \/ wk[w].pc \in Ending \ {"end"} => wk[w].run \in Boxes
    /\ wk[w].pc \in Unboxed => wk[w].run \notin Boxes
    /\ wk[w].pc \in Ending /\ wk[w].run \in Boxes => wk[w].attempt >= 1
    /\ wk[w].pc \in Laddered => ~StillWaiting(log[wk[w].run])
    /\ At(w, "ack") => Ended(log[wk[w].run])
    /\ wk[w].pc \in Ending \cup {"called"} => wk[w].end \in EndBatches
    /\ wk[w].pc \in {"destroy", "confirm"} => wk[w].todo # {}
    /\ wk[w].pc \in {"gone", "end"} => wk[w].todo = {}
    /\ wk[w].pc \in Ending => \A n \in wk[w].todo : n[1] = wk[w].run /\ n[2] <= wk[w].attempt

\* A worker that is ending the turn finds gone what it has no more to remove.
Cleaned(w) ==
    wk[w].pc \in Ending => \A n \in host.up :
        n[1] = wk[w].run /\ n[2] <= wk[w].attempt /\ n \notin wk[w].todo => n \in late

\* Attempts are counted as long as a turn is open.
Counted(w) == ~At(w, "idle") /\ ~Ended(log[wk[w].run]) => wk[w].attempt <= queue.deliveries[wk[w].run]

Exempt(r) == r \in stops \cup astray \/ queue.deliveries[r] > MaxDeliveries

\* A worker that has begun and has not yet been able to tell that it lost its lease.
Timid(w) == wk[w].pc \in {"stop", "ladder", "begin", "stop_begun", "fence", "cancel"} /\ ~wk[w].held

\* Two workers with an attempt of one open turn: the attempts differ, and if one
\* of them holds the lease, the other started before it or is about to find out.
OnOneTurn(w, v) ==
    /\ wk[w].run = wk[v].run /\ wk[w].attempt >= 1 /\ wk[v].attempt >= 1
    /\ ~Ended(log[wk[w].run])

Apart(w, v) ==
    OnOneTurn(w, v) =>
        /\ wk[w].attempt # wk[v].attempt \/ queue.deliveries[wk[w].run] > MaxDeliveries
        /\ queue.lease[wk[w].run] = w /\ wk[v].attempt > wk[w].attempt => Timid(v) \/ Exempt(wk[w].run)

\* The holder of the lease, while it works in its sandbox, has it.
Holder(w) ==
    /\ wk[w].pc \in {"made", "stop_made", "call", "called"}
    /\ queue.lease[wk[w].run] = w /\ ~Ended(log[wk[w].run])

HasBox(w) == Holder(w) => Name(wk[w].run, wk[w].attempt) \in host.up
                          \/ Overtaken(wk[w].run, wk[w].attempt)

WorkersOk ==
    /\ \A w \in Workers : WorkerOk(w) /\ Cleaned(w) /\ Counted(w) /\ HasBox(w)
    /\ \A w, v \in Workers : w # v => Apart(w, v)

QuickOk == (\A r \in Runs : OpenerOk(r) /\ ToldOk(r)) /\ (\A q \in Requests : RequestOk(q))

TurnInv ==
    /\ TypeInv
    /\ QueuedOnly
    /\ \A n \in host.up : SandboxOk(n)
    /\ QuickOk
    /\ WorkersOk
(***************************************************************************)
(* Logs                                                                    *)
(***************************************************************************)
LEMMA InAppend ==
    ASSUME NEW S, NEW s \in Seq(S), NEW e \in S
    PROVE  /\ Append(s, e) \in Seq(S)
           /\ \A i \in DOMAIN Append(s, e) : \/ i \in DOMAIN s /\ Append(s, e)[i] = s[i]
                                           \/ Append(s, e)[i] = e
OBVIOUS

LEMMA InConcat ==
    ASSUME NEW S, NEW s \in Seq(S), NEW t \in Seq(S)
    PROVE  /\ s \o t \in Seq(S) /\ Len(s \o t) = Len(s) + Len(t)
           /\ \A i \in DOMAIN s : i \in DOMAIN (s \o t) /\ (s \o t)[i] = s[i]
           /\ \A i \in DOMAIN t : Len(s) + i \in DOMAIN (s \o t) /\ (s \o t)[Len(s) + i] = t[i]
           /\ \A i \in DOMAIN (s \o t) : \/ i \in DOMAIN s /\ (s \o t)[i] = s[i]
                                         \/ \E j \in DOMAIN t : (s \o t)[i] = t[j]
<1>1. Len(s \o t) = Len(s) + Len(t) /\ Len(s) \in Nat /\ Len(t) \in Nat
  OBVIOUS
<1>2. DOMAIN s = 1..Len(s) /\ DOMAIN t = 1..Len(t) /\ DOMAIN (s \o t) = 1..(Len(s) + Len(t))
  BY <1>1
<1>3. \A i \in DOMAIN (s \o t) : \/ i \in DOMAIN s /\ (s \o t)[i] = s[i]
                                 \/ \E j \in DOMAIN t : (s \o t)[i] = t[j]
  <2> TAKE i \in DOMAIN (s \o t)
  <2>1. CASE i \in DOMAIN s
    BY <2>1
  <2>2. CASE i \notin DOMAIN s
    <3>1. i - Len(s) \in DOMAIN t /\ (s \o t)[i] = t[i - Len(s)]
      BY <1>1, <1>2, <2>2
    <3> QED BY <3>1
  <2> QED BY <2>1, <2>2
<1> QED
  BY <1>1, <1>2, <1>3

\* What the writers of a turn append to it, and what its openers store.
Batches == EndBatches \cup {<<Plain("RunScheduled")>>, <<Plain("RunStarted")>>}

LEMMA PlainEvents == \A e \in LoggedTypes : Plain(e) \in LoggedEvent /\ Plain(e).type = e
BY DEF Plain, LoggedEvent

\* Every batch is past waiting, and only the ends end.
LEMMA BatchFacts ==
    ASSUME NEW b \in Batches
    PROVE  /\ b \in Seq(LoggedEvent) /\ b # <<>> /\ Len(b) \in Nat \ {0}
           /\ ~StillWaiting(b)
           /\ b \in EndBatches <=> Ended(b)
           /\ b \in EndBatches => b[Len(b)].type \in Ends
           /\ b = Completion => b[Len(b)].type = "RunCompleted"
           /\ b = Failure => b[Len(b)].type = "RunFailed"
<1> DEFINE c == Plain("RunCompleted")
           f == Plain("RunFailed")
           d == Plain("RunCancelled")
           p == Plain("Step")
           l == Plain("RunScheduled")
           s == Plain("RunStarted")
<1>1. /\ c \in LoggedEvent /\ c.type = "RunCompleted"
      /\ f \in LoggedEvent /\ f.type = "RunFailed"
      /\ d \in LoggedEvent /\ d.type = "RunCancelled"
      /\ p \in LoggedEvent /\ p.type = "Step"
      /\ l \in LoggedEvent /\ l.type = "RunScheduled"
      /\ s \in LoggedEvent /\ s.type = "RunStarted"
  BY PlainEvents DEF LoggedTypes, Ends
<1>2. Completion = <<p, c>> /\ Failure = <<f>> /\ Cancellation = <<d>>
      /\ EndBatches = {<<p, c>>, <<f>>, <<d>>}
      /\ Batches = EndBatches \cup {<<l>>, <<s>>}
  BY DEF Completion, Failure, Cancellation, EndBatches, Batches
<1> HIDE DEF c, f, d, p, l, s
<1>3. CASE b = <<p, c>>
  <2>1. b \in Seq(LoggedEvent) /\ Len(b) = 2 /\ DOMAIN b = 1..2 /\ b[1] = p /\ b[2] = c
    BY <1>1, <1>3
  <2>2. Ended(b) /\ ~StillWaiting(b)
    BY <1>1, <2>1 DEF Ended, Has, StillWaiting, Ends
  <2>3. b # <<f>>
    BY <2>1
  <2> QED BY <1>1, <1>2, <1>3, <2>1, <2>2, <2>3 DEF Ends
<1>4. ASSUME NEW e \in LoggedEvent, b = <<e>>, e \in {f, d, l, s}
      PROVE  /\ b \in Seq(LoggedEvent) /\ b # <<>> /\ Len(b) = 1 /\ b[1] = e /\ b # <<p, c>>
             /\ ~StillWaiting(b)
             /\ Ended(b) <=> e.type \in Ends
  <2>1. b \in Seq(LoggedEvent) /\ Len(b) = 1 /\ DOMAIN b = 1..1 /\ b[1] = e
    BY <1>4
  <2>2. Ended(b) <=> e.type \in Ends
    BY <2>1 DEF Ended, Has
  <2>3. ~StillWaiting(b)
    BY <1>1, <1>4, <2>1 DEF StillWaiting
  <2>4. b # <<p, c>> /\ b # <<>>
    BY <2>1
  <2> QED BY <2>1, <2>2, <2>3, <2>4
<1>5. CASE b \in {<<f>>, <<d>>}
  BY <1>1, <1>2, <1>4, <1>5 DEF Ends
<1>6. CASE b \in {<<l>>, <<s>>}
  <2>1. PICK e \in {l, s} : b = <<e>>
    BY <1>6
  <2>2. ~Ended(b) /\ b[1] = e /\ b # <<p, c>>
    BY <1>1, <1>4, <2>1 DEF Ends
  <2>3. b \notin EndBatches
    BY <1>1, <1>2, <2>1, <2>2
  <2>4. b # Completion /\ b # Failure
    BY <2>3 DEF EndBatches
  <2> QED BY <1>1, <1>4, <2>1, <2>2, <2>3, <2>4
<1> QED BY <1>2, <1>3, <1>5, <1>6

\* What an append to a log keeps, and what it shows of the log.
LEMMA Appended ==
    ASSUME NEW l \in Seq(LoggedEvent), NEW seen, NEW b \in Batches,
           NEW m, m = AppendEventsAfter(l, seen, b)
    PROVE  /\ m \in Seq(LoggedEvent)
           /\ l = <<>> <=> m = <<>>
           /\ Ended(l) => m = l
           /\ ~StillWaiting(l) => ~StillWaiting(m)
           /\ Len(l) <= Len(m)
           /\ m # l => ~Ended(l)
           /\ Ended(m) => Ended(l) \/ b \in EndBatches
           /\ m # l /\ b \in EndBatches => Ended(m) /\ m[Len(m)] = b[Len(b)] /\ m # <<>>
           /\ AppendResult(l, seen) = "Appended" =>
                seen = Len(l) /\ Len(m) = seen + Len(b) /\ ~StillWaiting(m)
           /\ AppendResult(l, seen) = "Terminal" => Ended(m)
           /\ AppendResult(l, seen) = "Appended" /\ b \in EndBatches => Ended(m)
           /\ seen = Len(l) /\ b \in EndBatches /\ l # <<>> => Ended(m)
<1>1. /\ b \in Seq(LoggedEvent) /\ b # <<>> /\ Len(b) \in Nat \ {0}
      /\ ~StillWaiting(b)
      /\ b \in EndBatches <=> Ended(b)
  BY BatchFacts
<1>2. CASE AppendResult(l, seen) # "Appended"
  <2>1. m = l
    BY <1>2 DEF AppendEventsAfter
  <2>2. Len(l) \in Nat
    OBVIOUS
  <2> QED BY <1>2, <2>1, <2>2 DEF AppendResult
<1>3. CASE AppendResult(l, seen) = "Appended"
  <2>1. m = l \o b /\ ~Ended(l) /\ l # <<>> /\ seen = Len(l)
    BY <1>3 DEF AppendEventsAfter, AppendResult
  <2>2. /\ m \in Seq(LoggedEvent) /\ Len(m) = Len(l) + Len(b)
        /\ \A i \in DOMAIN l : i \in DOMAIN m /\ m[i] = l[i]
        /\ \A i \in DOMAIN b : Len(l) + i \in DOMAIN m /\ m[Len(l) + i] = b[i]
        /\ \A i \in DOMAIN m : \/ i \in DOMAIN l /\ m[i] = l[i]
                               \/ \E j \in DOMAIN b : m[i] = b[j]
    BY <1>1, <2>1, InConcat
  <2>3. ~StillWaiting(m)
    BY <1>1, <2>2 DEF StillWaiting
  <2>4. Ended(m) <=> Ended(b)
    BY <2>1, <2>2 DEF Ended, Has
  <2>5. Len(l) \in Nat /\ m # <<>> /\ Len(b) \in DOMAIN b
    BY <1>1, <2>2
  <2>6. m[Len(m)] = b[Len(b)]
    BY <2>2, <2>5
  <2> QED BY <1>1, <1>3, <2>1, <2>2, <2>3, <2>4, <2>5, <2>6 DEF AppendResult
<1> QED BY <1>2, <1>3

(***************************************************************************)
(* The scripts                                                             *)
(***************************************************************************)
LEMMA QueueFields ==
    ASSUME NEW q \in QueueType
    PROVE  /\ q.runs \in Seq(Runs)
           /\ q.processing \in [Runs -> Nat]
           /\ q.deliveries \in [Runs -> Nat]
           /\ q.pending \in [Runs -> PendingAge]
           /\ q.lease \in [Runs -> Workers \cup {NoLease}]
BY DEF QueueType

\* What a script on a queue does to the lists, the counts and the leases.
Follows(q, p, pushed, acked, claimer) ==
    /\ p \in QueueType
    /\ \A s \in Runs : QueuedOrClaimed(p, s) => QueuedOrClaimed(q, s) \/ s = pushed
    /\ \A s \in Runs : s # acked => p.deliveries[s] >= q.deliveries[s]
    /\ \A s \in Runs : p.lease[s] \in {q.lease[s], NoLease, claimer}

LEMMA Pushed ==
    ASSUME NEW q \in QueueType, NEW r \in Runs
    PROVE  Follows(q, Push(q, r), r, NoRun, NoLease)
<1> DEFINE p == Push(q, r)
<1>1. Append(q.runs, r) \in Seq(Runs) /\ [q.pending EXCEPT ![r] = "no"] \in [Runs -> PendingAge]
  BY QueueFields DEF PendingAge
<1>2. /\ p.runs = Append(q.runs, r) /\ p.processing = q.processing
      /\ p.deliveries = q.deliveries /\ p.lease = q.lease /\ p \in QueueType
  BY <1>1 DEF Push, QueueType
<1> HIDE DEF p
<1>3. \A i \in DOMAIN p.runs : p.runs[i] = r \/ \E j \in DOMAIN q.runs : p.runs[i] = q.runs[j]
  <2>1. \A i \in DOMAIN Append(q.runs, r) : \/ Append(q.runs, r)[i] = r
                                             \/ \E j \in DOMAIN q.runs : Append(q.runs, r)[i] = q.runs[j]
    BY QueueFields, InAppend
  <2> QED BY <1>2, <2>1
<1>4. \A s \in Runs : QueuedOrClaimed(p, s) => QueuedOrClaimed(q, s) \/ s = r
  BY <1>2, <1>3 DEF QueuedOrClaimed, OnRuns
<1>5. \A s \in Runs : p.deliveries[s] >= q.deliveries[s]
  BY <1>2, QueueFields
<1> QED BY <1>2, <1>4, <1>5 DEF Follows, p

\* CLAIM moves the head of the list to one worker.
LEMMA Claimed ==
    ASSUME NEW q \in QueueType, NEW w \in Workers, q.runs # <<>>
    PROVE  /\ Follows(q, Claim(q, w), NoRun, NoRun, w)
           /\ \A s \in Runs : Claim(q, w).lease[s] = w => q.lease[s] = w \/ q.lease[Head(q.runs)] = NoLease
           /\ Head(q.runs) \in Runs /\ QueuedOrClaimed(q, Head(q.runs))
<1> DEFINE p == Claim(q, w)
           r == Head(q.runs)
<1>1. q.runs \in Seq(Runs) /\ r \in Runs /\ Tail(q.runs) \in Seq(Runs) /\ OnRuns(q, r)
  BY QueueFields DEF OnRuns
<1>2. /\ p.runs = Tail(q.runs) /\ p \in QueueType /\ p.deliveries = q.deliveries
      /\ \/ /\ q.lease[r] = NoLease
            /\ p.processing = [q.processing EXCEPT ![r] = q.processing[r] + 1]
            /\ p.lease = [q.lease EXCEPT ![r] = w]
         \/ /\ q.lease[r] # NoLease
            /\ p.processing = q.processing /\ p.lease = q.lease
  <2>1. [q.processing EXCEPT ![r] = q.processing[r] + 1] \in [Runs -> Nat]
        /\ [q.lease EXCEPT ![r] = w] \in [Runs -> Workers \cup {NoLease}]
    BY <1>1, QueueFields
  <2>2. CASE q.lease[r] = NoLease
    BY <1>1, <2>1, <2>2 DEF Claim, QueueType
  <2>3. CASE q.lease[r] # NoLease
    BY <1>1, <2>3 DEF Claim, QueueType
  <2> QED BY <2>2, <2>3
<1>3. \A i \in DOMAIN Tail(q.runs) : i + 1 \in DOMAIN q.runs /\ Tail(q.runs)[i] = q.runs[i + 1]
  BY <1>1
<1> HIDE DEF p, r
<1>4. \A s \in Runs : OnRuns(p, s) => OnRuns(q, s)
  BY <1>2, <1>3 DEF OnRuns
<1>5. ASSUME NEW s \in Runs, QueuedOrClaimed(p, s) PROVE QueuedOrClaimed(q, s)
  <2>1. CASE s = r
    BY <1>1, <2>1 DEF QueuedOrClaimed
  <2>2. CASE s # r
    <3>1. p.processing[s] = q.processing[s]
      BY <1>1, <1>2, <2>2, QueueFields
    <3> QED BY <1>4, <1>5, <3>1 DEF QueuedOrClaimed
  <2> QED BY <2>1, <2>2
<1>6. \A s \in Runs : p.deliveries[s] >= q.deliveries[s]
  BY <1>2, QueueFields
<1>7. \A s \in Runs : /\ p.lease[s] \in {q.lease[s], w}
                      /\ p.lease[s] = w => q.lease[s] = w \/ q.lease[r] = NoLease
  BY <1>1, <1>2, QueueFields
<1> QED BY <1>1, <1>2, <1>5, <1>6, <1>7 DEF Follows, QueuedOrClaimed, p, r

LEMMA Started ==
    ASSUME NEW q \in QueueType, NEW r \in Runs
    PROVE  /\ Follows(q, Start(q, r), NoRun, NoRun, NoLease)
           /\ Start(q, r).deliveries[r] = q.deliveries[r] + 1
           /\ Start(q, r).lease = q.lease
<1> DEFINE p == Start(q, r)
<1>1. [q.deliveries EXCEPT ![r] = q.deliveries[r] + 1] \in [Runs -> Nat]
  BY QueueFields
<1>2. /\ p.runs = q.runs /\ p.processing = q.processing /\ p.lease = q.lease
      /\ p.deliveries = [q.deliveries EXCEPT ![r] = q.deliveries[r] + 1] /\ p \in QueueType
  BY <1>1 DEF Start, QueueType
<1> HIDE DEF p
<1>3. \A s \in Runs : p.deliveries[s] >= q.deliveries[s]
  BY <1>2, QueueFields
<1>4. p.deliveries[r] = q.deliveries[r] + 1
  BY <1>2, QueueFields
<1> QED BY <1>2, <1>3, <1>4 DEF Follows, QueuedOrClaimed, OnRuns, p

\* The scripts that end a claim, and the end of a lease.
LEMMA Released ==
    ASSUME NEW q \in QueueType, NEW r \in Runs, NEW w \in Workers
    PROVE  Follows(q, Release(q, r, w), r, NoRun, NoLease)
<1> DEFINE p == Release(q, r, w)
<1>1. CASE q.lease[r] # w
  <2>1. p = q
    BY <1>1 DEF Release
  <2>2. \A s \in Runs : p.deliveries[s] >= q.deliveries[s]
    BY <2>1, QueueFields
  <2> QED BY <2>1, <2>2 DEF Follows
<1>2. CASE q.lease[r] = w
  <2>1. OneLess(q.processing[r]) \in Nat /\ OneLess(q.processing[r]) <= q.processing[r]
    BY QueueFields DEF OneLess
  <2>2. /\ Append(q.runs, r) \in Seq(Runs)
        /\ [q.processing EXCEPT ![r] = OneLess(q.processing[r])] \in [Runs -> Nat]
        /\ [q.lease EXCEPT ![r] = NoLease] \in [Runs -> Workers \cup {NoLease}]
    BY <2>1, QueueFields
  <2>3. /\ p.runs = Append(q.runs, r) /\ p \in QueueType
        /\ p.processing = [q.processing EXCEPT ![r] = OneLess(q.processing[r])]
        /\ p.deliveries = q.deliveries /\ p.lease = [q.lease EXCEPT ![r] = NoLease]
    BY <1>2, <2>2 DEF Release, QueueType
  <2> HIDE DEF p
  <2>4. \A i \in DOMAIN p.runs : p.runs[i] = r \/ \E j \in DOMAIN q.runs : p.runs[i] = q.runs[j]
    <3>1. \A i \in DOMAIN Append(q.runs, r) : \/ Append(q.runs, r)[i] = r
                                               \/ \E j \in DOMAIN q.runs : Append(q.runs, r)[i] = q.runs[j]
      BY QueueFields, InAppend
    <3> QED BY <2>3, <3>1
  <2>5. \A s \in Runs : p.processing[s] <= q.processing[s] /\ p.processing[s] \in Nat /\ q.processing[s] \in Nat
    BY <2>1, <2>3, QueueFields
  <2>6. \A s \in Runs : QueuedOrClaimed(p, s) => QueuedOrClaimed(q, s) \/ s = r
    BY <2>4, <2>5 DEF QueuedOrClaimed, OnRuns
  <2>7. \A s \in Runs : p.deliveries[s] >= q.deliveries[s]
    BY <2>3, QueueFields
  <2>8. \A s \in Runs : p.lease[s] \in {q.lease[s], NoLease}
    BY <2>3, QueueFields
  <2> QED BY <2>3, <2>6, <2>7, <2>8 DEF Follows, p
<1> QED BY <1>1, <1>2 DEF p

LEMMA Acked ==
    ASSUME NEW q \in QueueType, NEW r \in Runs, NEW w \in Workers
    PROVE  Follows(q, Ack(q, r, w), NoRun, r, NoLease)
<1> DEFINE p == Ack(q, r, w)
<1>1. OneLess(q.processing[r]) \in Nat /\ OneLess(q.processing[r]) <= q.processing[r]
  BY QueueFields DEF OneLess
<1>2. /\ p \in QueueType /\ p.runs = q.runs
      /\ p.processing = [q.processing EXCEPT ![r] = OneLess(q.processing[r])]
      /\ p.deliveries = [q.deliveries EXCEPT ![r] = 0]
      /\ p.lease = [q.lease EXCEPT ![r] = IF q.lease[r] = w THEN NoLease ELSE q.lease[r]]
  <2>1. /\ [q.processing EXCEPT ![r] = OneLess(q.processing[r])] \in [Runs -> Nat]
        /\ [q.deliveries EXCEPT ![r] = 0] \in [Runs -> Nat]
        /\ [q.lease EXCEPT ![r] = IF q.lease[r] = w THEN NoLease ELSE q.lease[r]]
              \in [Runs -> Workers \cup {NoLease}]
    BY <1>1, QueueFields
  <2> QED BY <2>1 DEF Ack, QueueType
<1> HIDE DEF p
<1>3. \A s \in Runs : /\ p.processing[s] \in Nat /\ q.processing[s] \in Nat
                      /\ p.processing[s] <= q.processing[s]
                      /\ s # r => p.deliveries[s] >= q.deliveries[s]
                      /\ p.lease[s] \in {q.lease[s], NoLease}
  BY <1>1, <1>2, QueueFields
<1>4. \A s \in Runs : QueuedOrClaimed(p, s) => QueuedOrClaimed(q, s)
  BY <1>2, <1>3 DEF QueuedOrClaimed, OnRuns
<1> QED BY <1>2, <1>3, <1>4 DEF Follows, p

LEMMA Expired ==
    ASSUME NEW q \in QueueType, NEW r \in Runs
    PROVE  Follows(q, LeaseExpires(q, r), NoRun, NoRun, NoLease)
<1> DEFINE p == LeaseExpires(q, r)
<1>1. [q.lease EXCEPT ![r] = NoLease] \in [Runs -> Workers \cup {NoLease}]
  BY QueueFields
<1>2. /\ p.runs = q.runs /\ p.processing = q.processing /\ p.deliveries = q.deliveries
      /\ p.lease = [q.lease EXCEPT ![r] = NoLease] /\ p \in QueueType
  BY <1>1 DEF LeaseExpires, QueueType
<1> HIDE DEF p
<1>3. \A s \in Runs : p.deliveries[s] >= q.deliveries[s] /\ p.lease[s] \in {q.lease[s], NoLease}
  BY <1>2, QueueFields
<1> QED BY <1>2, <1>3 DEF Follows, QueuedOrClaimed, OnRuns, p

LEMMA OrphansFinite ==
    ASSUME NEW q \in QueueType
    PROVE  Cardinality(Orphans(q)) \in Nat
<1> DEFINE E(r) == {r} \X (1..q.processing[r])
           T == {E(r) : r \in Runs}
           F == [r \in Runs |-> E(r)]
<1>1. \A r \in Runs : IsFiniteSet(E(r))
  <2> TAKE r \in Runs
  <2>1. q.processing[r] \in Nat
    BY DEF QueueType
  <2>2. IsFiniteSet({r})
    BY FS_Singleton
  <2>3. IsFiniteSet(1..q.processing[r])
    BY <2>1, FS_Interval
  <2> QED BY <2>2, <2>3, FS_Product
<1>2. F \in Surjection(Runs, T)
  BY DEF Surjection
<1>3. IsFiniteSet(T)
  <2> HIDE DEF T, F
  <2> QED BY <1>2, QueueAssumption, FS_Surjection
<1>4. IsFiniteSet(UNION T)
  BY <1>1, <1>3, FS_UNION
<1>5. Orphans(q) \subseteq UNION T
  BY DEF Orphans
<1>6. IsFiniteSet(Orphans(q))
  BY <1>4, <1>5, FS_Subset
<1> QED BY <1>6, FS_CardinalityType

LEMMA Reaped ==
    ASSUME NEW q \in QueueType, NEW order \in ReapOrders(q)
    PROVE  Follows(q, Reap(q, order), NoRun, NoRun, NoLease)
<1> DEFINE n == Cardinality(Orphans(q))
           p == Reap(q, order)
           moved == [i \in DOMAIN order |-> order[i][1]]
           left == [r \in Runs |-> IF q.lease[r] = NoLease THEN 0 ELSE q.processing[r]]
<1>1. n \in Nat /\ order \in [1..n -> Orphans(q)]
  BY OrphansFinite DEF ReapOrders
<1>2. \A e \in Orphans(q) : e[1] \in Runs /\ q.processing[e[1]] > 0
  <2> TAKE e \in Orphans(q)
  <2>1. PICK r \in Runs : e \in {r} \X (1..q.processing[r])
    BY DEF Orphans
  <2>2. e[1] = r /\ e[2] \in 1..q.processing[r] /\ q.processing[r] \in Nat
    BY <2>1, QueueFields
  <2> QED BY <2>2
<1> HIDE DEF n
<1>3. moved \in [1..n -> Runs] /\ \A i \in DOMAIN moved : q.processing[moved[i]] > 0
  BY <1>1, <1>2
<1>4. moved \in Seq(Runs)
  BY <1>1, <1>3
<1>5. left \in [Runs -> Nat] /\ \A s \in Runs : left[s] > 0 => q.processing[s] > 0
  BY QueueFields
<1> HIDE DEF moved, left
<1>6. /\ p.runs = moved \o q.runs /\ p.processing = left /\ p.deliveries = q.deliveries
      /\ p.lease = q.lease /\ p \in QueueType
  <2>1. p = [q EXCEPT !.runs = moved \o q.runs, !.processing = left]
    BY DEF Reap, QueueType, moved, left
  <2>2. moved \o q.runs \in Seq(Runs)
    BY <1>4, QueueFields
  <2> HIDE DEF p
  <2> QED BY <1>5, <2>1, <2>2 DEF QueueType
<1> HIDE DEF p
<1>7. \A i \in DOMAIN p.runs : \/ \E j \in DOMAIN moved : p.runs[i] = moved[j]
                               \/ \E j \in DOMAIN q.runs : p.runs[i] = q.runs[j]
  <2>1. \A i \in DOMAIN (moved \o q.runs) :
           \/ i \in DOMAIN moved /\ (moved \o q.runs)[i] = moved[i]
           \/ \E j \in DOMAIN q.runs : (moved \o q.runs)[i] = q.runs[j]
    BY <1>4, QueueFields, InConcat
  <2> QED BY <1>6, <2>1
<1>8. \A s \in Runs : QueuedOrClaimed(p, s) => QueuedOrClaimed(q, s)
  BY <1>3, <1>5, <1>6, <1>7 DEF QueuedOrClaimed, OnRuns
<1>9. \A s \in Runs : p.deliveries[s] >= q.deliveries[s]
  BY <1>6, QueueFields
<1> QED BY <1>6, <1>8, <1>9 DEF Follows, p
(***************************************************************************)
(* What no step does to the threads that stand still                       *)
(***************************************************************************)
LogsKept ==
    \A r \in Runs : /\ log[r] # <<>> => log'[r] # <<>>
                    /\ log[r] = <<>> /\ opener'[r] = opener[r] => log'[r] = <<>>
                    /\ Ended(log[r]) => log'[r] = log[r]
                    /\ ~StillWaiting(log[r]) => ~StillWaiting(log'[r])
                    /\ Len(log[r]) <= Len(log'[r])

\* A new sandbox is of a turn nobody is ending, or counts as late; one removed
\* was not the lease holder's, or the turn is overtaken.
BoxesKept ==
    /\ late \subseteq late'
    /\ \A n \in host'.up : n \in host.up \/ /\ FoundGone(n) => n \in late'
                                            /\ SandboxOk(n)'
                                            /\ n[2] >= 1 \/ opener[n[1]] = "provision"
    /\ \A w \in Workers : Holder(w) /\ wk'[w] = wk[w] /\ Name(wk[w].run, wk[w].attempt) \in host.up
         => Name(wk[w].run, wk[w].attempt) \in host'.up \/ Overtaken(wk[w].run, wk[w].attempt)

QueueKept ==
    /\ \A r \in Runs : QueuedOrClaimed(queue', r) => QueuedOrClaimed(queue, r) \/ (r \in Background /\ log'[r] # <<>>)
    /\ \A r \in Runs : ~Ended(log[r]) => queue'.deliveries[r] >= queue.deliveries[r]
    /\ \A r \in Runs, w \in Workers : queue'.lease[r] = w => queue.lease[r] = w \/ wk'[w].attempt = 0
    /\ stops \subseteq stops' /\ astray \subseteq astray'

World == SharedType' /\ LogsKept /\ BoxesKept /\ QueueKept

LEMMA SharedFields ==
    ASSUME SharedType
    PROVE  /\ queue.deliveries \in [Runs -> Nat]
           /\ queue.lease \in [Runs -> Workers \cup {NoLease}]
           /\ \A r \in Runs : log[r] \in Seq(LoggedEvent) /\ Len(log[r]) \in Nat
           /\ host.up \subseteq Sandboxes /\ host.volumes \subseteq Boxes
BY QueueFields DEF SharedType

LEMMA WorkerFields ==
    ASSUME TypeInv, NEW w \in Workers
    PROVE  /\ wk[w] \in WorkerType
           /\ wk[w].pc \in WorkerPcs
           /\ wk[w].run \in Runs \cup {NoRun}
           /\ wk[w].attempt \in 0..MaxDeliveries /\ wk[w].attempt \in Nat
           /\ wk[w].seen \in Nat /\ wk[w].reloads \in Nat
           /\ wk[w].todo \subseteq Runs \X (1..MaxDeliveries)
<1>1. wk[w] \in WorkerType /\ MaxDeliveries \in Nat
  BY DEF TypeInv, ThreadsType, TurnConstants
<1>2. wk[w].attempt \in 0..MaxDeliveries
  BY <1>1 DEF WorkerType
<1> QED BY <1>1, <1>2 DEF WorkerType

\* A worker with a turn has one of the turns.
LEMMA WorkerHasRun ==
    ASSUME TurnInv, NEW w \in Workers, ~At(w, "idle")
    PROVE  wk[w].run \in Runs /\ wk[w].run \in Background /\ log[wk[w].run] # <<>>
BY DEF TurnInv, WorkersOk, WorkerOk, Background

LEMMA DeliveriesGrow ==
    ASSUME TurnInv, World, NEW r \in Runs, ~Ended(log[r])
    PROVE  /\ queue.deliveries[r] \in Nat /\ queue'.deliveries[r] \in Nat
           /\ queue.deliveries[r] <= queue'.deliveries[r]
           /\ Exempt(r) => Exempt(r)'
           /\ \A k \in Nat : Overtaken(r, k) => Overtaken(r, k)'
<1>1. queue.deliveries[r] \in Nat /\ queue'.deliveries[r] \in Nat /\ MaxDeliveries \in Nat
  BY SharedFields DEF TurnInv, TypeInv, TurnConstants, World, SharedType, QueueType
<1>2. queue.deliveries[r] <= queue'.deliveries[r]
  BY <1>1 DEF World, QueueKept
<1> QED BY <1>1, <1>2 DEF World, QueueKept, Exempt, Overtaken

LEMMA WorkerStands ==
    ASSUME TurnInv, World, NEW w \in Workers, wk'[w] = wk[w]
    PROVE  WorkerOk(w)' /\ Cleaned(w)' /\ Counted(w)' /\ HasBox(w)'
<1> DEFINE x == wk[w]
<1>1. x \in WorkerType /\ x.attempt \in Nat /\ x.seen \in Nat
  BY WorkerFields DEF TurnInv
<1>2. WorkerOk(w) /\ Cleaned(w) /\ Counted(w) /\ HasBox(w)
  BY DEF TurnInv, WorkersOk
<1>3. CASE x.pc = "idle"
  BY <1>2, <1>3 DEF WorkerOk, Cleaned, Counted, HasBox, Holder, At, ToStart, Leaving, BeforeBox,
                    InBox, Unboxed, Ending, Laddered
<1>4. CASE x.pc # "idle"
  <2>1. x.run \in Runs /\ x.run \in Background
    BY <1>4, WorkerHasRun DEF At
  <2>2. /\ log[x.run] # <<>> => log'[x.run] # <<>>
        /\ Ended(log[x.run]) => log'[x.run] = log[x.run]
        /\ ~StillWaiting(log[x.run]) => ~StillWaiting(log'[x.run])
        /\ Len(log[x.run]) <= Len(log'[x.run])
        /\ Len(log[x.run]) \in Nat /\ Len(log'[x.run]) \in Nat
    <3>1. log[x.run] \in Seq(LoggedEvent) /\ log'[x.run] \in Seq(LoggedEvent)
      BY <2>1 DEF TurnInv, TypeInv, SharedType, World
    <3>2. Len(log[x.run]) \in Nat /\ Len(log'[x.run]) \in Nat
      BY <3>1
    <3> QED BY <2>1, <3>2 DEF World, LogsKept
  <2>3. WorkerOk(w)'
    <3>1. x.seen <= Len(log[x.run]) => x.seen <= Len(log'[x.run])
      BY <1>1, <2>2
    <3> QED BY <1>2, <2>1, <2>2, <3>1 DEF WorkerOk, At
  <2>4. Cleaned(w)'
    <3> SUFFICES ASSUME x.pc \in Ending, NEW n \in host'.up, n[1] = x.run, n[2] <= x.attempt,
                        n \notin x.todo
                 PROVE  n \in late'
      BY DEF Cleaned
    <3>1. CASE n \in host.up
      BY <1>2, <3>1 DEF Cleaned, World, BoxesKept
    <3>2. CASE n \notin host.up
      <4>1. FoundGone(n)
        BY DEF FoundGone, RunOf, Ending
      <4> QED BY <3>2, <4>1 DEF World, BoxesKept
    <3> QED BY <3>1, <3>2
  <2>5. Counted(w)'
    <3> SUFFICES ASSUME ~Ended(log'[x.run]) PROVE x.attempt <= queue'.deliveries[x.run]
      BY DEF Counted
    <3>1. ~Ended(log[x.run])
      BY <2>2
    <3>2. x.attempt <= queue.deliveries[x.run]
      BY <1>2, <1>4, <3>1 DEF Counted, At
    <3> QED BY <1>1, <2>1, <3>1, <3>2, DeliveriesGrow
  <2>6. HasBox(w)'
    <3> SUFFICES ASSUME Holder(w)'
                 PROVE  Name(x.run, x.attempt) \in host'.up \/ Overtaken(x.run, x.attempt)'
      BY DEF HasBox
    <3>1. ~Ended(log[x.run]) /\ x.pc \in InBox
      BY <2>2 DEF Holder, InBox
    <3>2. x.attempt # 0
      BY <1>1, <1>2, <3>1 DEF WorkerOk
    <3>3. queue.lease[x.run] = w
      BY <2>1, <3>2 DEF Holder, World, QueueKept
    <3>4. Holder(w)
      BY <3>1, <3>3 DEF Holder
    <3>5. Name(x.run, x.attempt) \in host.up \/ Overtaken(x.run, x.attempt)
      BY <1>2, <3>4 DEF HasBox
    <3>6. Overtaken(x.run, x.attempt) => Overtaken(x.run, x.attempt)'
      <4>1. Overtaken(x.run, x.attempt) =>
              /\ queue'.deliveries[x.run] > x.attempt
              /\ x.run \in stops' \cup astray' \/ queue'.deliveries[x.run] > MaxDeliveries
        <5>1. MaxDeliveries \in Nat
          BY DEF TurnInv, TypeInv, TurnConstants
        <5> QED BY <1>1, <2>1, <3>1, <5>1, DeliveriesGrow DEF Overtaken, World, QueueKept
      <4> QED BY <4>1 DEF Overtaken
    <3>7. Name(x.run, x.attempt) \in host.up =>
            Name(x.run, x.attempt) \in host'.up \/ Overtaken(x.run, x.attempt)
      BY <3>4 DEF World, BoxesKept
    <3> QED BY <3>5, <3>6, <3>7
  <2> QED BY <2>3, <2>4, <2>5, <2>6
<1> QED BY <1>3, <1>4

LEMMA ApartStands ==
    ASSUME TurnInv, World, NEW w \in Workers, NEW v \in Workers, w # v,
           wk'[w] = wk[w], wk'[v] = wk[v]
    PROVE  Apart(w, v)'
<1> DEFINE r == wk[w].run
<1> SUFFICES ASSUME OnOneTurn(w, v)'
             PROVE  /\ wk[w].attempt # wk[v].attempt \/ queue'.deliveries[r] > MaxDeliveries
                    /\ queue'.lease[r] = w /\ wk[v].attempt > wk[w].attempt => Timid(v)' \/ Exempt(r)'
  BY DEF Apart, Exempt
<1>1. wk[w].attempt \in Nat /\ wk[v].attempt \in Nat /\ MaxDeliveries \in Nat
      /\ wk[w].attempt >= 1 /\ wk[v].attempt >= 1
  BY WorkerFields DEF TurnInv, TypeInv, TurnConstants, OnOneTurn
<1>2. ~At(w, "idle")
  BY <1>1 DEF TurnInv, WorkersOk, WorkerOk, At
<1>3. r \in Runs
  BY <1>2, WorkerHasRun
<1>4. ~Ended(log[r]) /\ OnOneTurn(w, v)
  <2>1. ~Ended(log'[r])
    BY DEF OnOneTurn
  <2>2. ~Ended(log[r])
    BY <1>3, <2>1 DEF World, LogsKept
  <2> QED BY <2>2 DEF OnOneTurn
<1>5. /\ wk[w].attempt # wk[v].attempt \/ queue.deliveries[r] > MaxDeliveries
      /\ queue.lease[r] = w /\ wk[v].attempt > wk[w].attempt => Timid(v) \/ Exempt(r)
  BY <1>4 DEF TurnInv, WorkersOk, Apart
<1>6. queue'.lease[r] = w => queue.lease[r] = w
  BY <1>1, <1>3 DEF World, QueueKept
<1>7. Timid(v) => Timid(v)'
  BY DEF Timid
<1>8. queue.deliveries[r] > MaxDeliveries => queue'.deliveries[r] > MaxDeliveries
  BY <1>1, <1>3, <1>4, DeliveriesGrow
<1>9. Exempt(r) => r \in stops' \cup astray' \/ queue'.deliveries[r] > MaxDeliveries
  BY <1>8 DEF Exempt, World, QueueKept
<1>10. r \in stops' \cup astray' \/ queue'.deliveries[r] > MaxDeliveries => Exempt(r)'
  BY DEF Exempt
<1> QED BY <1>5, <1>6, <1>7, <1>8, <1>9, <1>10
LEMMA WorkersStand == ASSUME TurnInv, World, UNCHANGED wk PROVE WorkersOk'
BY WorkerStands, ApartStands DEF WorkersOk

LEMMA OpenerStands ==
    ASSUME TurnInv, World, NEW r \in Runs, opener'[r] = opener[r]
    PROVE  OpenerOk(r)'
BY DEF TurnInv, QuickOk, OpenerOk, World, LogsKept

LEMMA ToldStands ==
    ASSUME TurnInv, World, NEW r \in Runs, told'[r] = told[r]
    PROVE  ToldOk(r)'
<1> SUFFICES ASSUME NEW t \in told[r]
             PROVE  told[r] = {t} /\ Ended(log'[r]) /\ log'[r] # <<>> /\ Last(log'[r]).type = t.end
  BY DEF ToldOk
<1>1. told[r] = {t} /\ Ended(log[r]) /\ log[r] # <<>> /\ Last(log[r]).type = t.end
  BY DEF TurnInv, QuickOk, ToldOk
<1>2. log'[r] = log[r]
  BY <1>1 DEF World, LogsKept
<1> QED BY <1>1, <1>2

LEMMA RequestStands ==
    ASSUME TurnInv, World, NEW q \in Requests, req'[q] = req[q],
           \A r \in Runs : opener[r] = "returned" => opener'[r] = "returned"
    PROVE  RequestOk(q)'
<1> SUFFICES ASSUME req[q].pc \in {"absent", "destroy", "append"}
             PROVE  /\ req[q].run \in Runs \ Background
                    /\ req[q].wants # "none"
                    /\ req[q].pc # "append" => req[q].run \in Boxes
                    /\ ~EarlyRequests => opener'[req[q].run] = "returned"
                    /\ req[q].pc = "append" /\ ~EarlyRequests => Name(req[q].run, 0) \notin host'.up
  BY DEF RequestOk
<1>1. RequestOk(q)
  BY DEF TurnInv, QuickOk
<1>2. ASSUME req[q].pc = "append", ~EarlyRequests, Name(req[q].run, 0) \in host'.up PROVE FALSE
  <2>1. Name(req[q].run, 0) \notin host.up /\ opener[req[q].run] = "returned"
    BY <1>1, <1>2 DEF RequestOk
  <2>2. Name(req[q].run, 0)[1] = req[q].run /\ Name(req[q].run, 0)[2] = 0
    BY DEF Name
  <2> QED BY <1>2, <2>1, <2>2 DEF World, BoxesKept
<1> QED BY <1>1, <1>2 DEF RequestOk, Background

LEMMA QuickStands ==
    ASSUME TurnInv, World, UNCHANGED quickVars
    PROVE  QuickOk'
<1>1. opener' = opener /\ req' = req /\ told' = told
  BY DEF quickVars
<1> QED BY <1>1, OpenerStands, ToldStands, RequestStands DEF QuickOk

LEMMA QueuedStands == ASSUME TurnInv, World PROVE QueuedOnly'
<1> SUFFICES ASSUME NEW r \in Runs, QueuedOrClaimed(queue', r) PROVE r \in Background /\ log'[r] # <<>>
  BY DEF QueuedOnly, Queueable, QueuedOrClaimed, OnRuns
<1>1. CASE QueuedOrClaimed(queue, r)
  BY <1>1 DEF TurnInv, QueuedOnly, Queueable, World, LogsKept
<1>2. CASE ~QueuedOrClaimed(queue, r)
  BY <1>2 DEF World, QueueKept
<1> QED BY <1>1, <1>2

LEMMA SandboxStands ==
    ASSUME TurnInv, World, NEW n \in host'.up,
           opener'[n[1]] = opener[n[1]] \/ n[1] \in Background
    PROVE  SandboxOk(n)'
<1>1. CASE n \in host.up
  <2>1. SandboxOk(n) /\ n[1] \in Runs
    BY <1>1, SharedFields DEF TurnInv, TypeInv, Sandboxes
  <2> QED BY <2>1 DEF World, LogsKept, SandboxOk
<1>2. CASE n \notin host.up
  BY <1>2 DEF World, BoxesKept
<1> QED BY <1>1, <1>2

LEMMA SandboxesStand ==
    ASSUME TurnInv, World, opener' = opener
    PROVE  \A n \in host'.up : SandboxOk(n)'
BY SandboxStands

(***************************************************************************)
(* The steps' effects on the shared state                                  *)
(***************************************************************************)
LEMMA LogsStand == ASSUME SharedType, log' = log PROVE LogsKept
BY SharedFields DEF LogsKept

LEMMA BoxesStand == ASSUME host' = host, late' = late PROVE BoxesKept
BY DEF BoxesKept

LEMMA QueueStands ==
    ASSUME SharedType, queue' = queue, stops \subseteq stops', astray \subseteq astray'
    PROVE  QueueKept
BY SharedFields DEF QueueKept

\* A step of which the shared state shows nothing, but a stop or a worker astray.
LEMMA QuietWorld ==
    ASSUME TurnInv, UNCHANGED <<queue, log, host, late>>,
           stops \subseteq stops', stops' \subseteq Runs, astray \subseteq astray', astray' \subseteq Runs
    PROVE  World
<1>1. SharedType'
  BY DEF TurnInv, TypeInv, SharedType
<1> QED BY <1>1, LogsStand, BoxesStand, QueueStands DEF World, TurnInv, TypeInv

\* A batch is appended to one turn's log, or not.
LEMMA LogWorld ==
    ASSUME TurnInv, UNCHANGED <<queue, host, late, stops>>,
           astray \subseteq astray', astray' \subseteq Runs,
           NEW r \in Runs, NEW seen, NEW b \in Batches,
           log' \in {log, [log EXCEPT ![r] = AppendEventsAfter(log[r], seen, b)]}
    PROVE  /\ World
           /\ \A s \in Runs : s # r => log'[s] = log[s]
           /\ log'[r] \in {log[r], AppendEventsAfter(log[r], seen, b)}
           /\ log' = [log EXCEPT ![r] = AppendEventsAfter(log[r], seen, b)]
                => log'[r] = AppendEventsAfter(log[r], seen, b)
<1> DEFINE m == AppendEventsAfter(log[r], seen, b)
<1>1. log \in [Runs -> Seq(LoggedEvent)] /\ stops \subseteq Runs
  BY DEF TurnInv, TypeInv, SharedType
<1>2. /\ m \in Seq(LoggedEvent)
      /\ log[r] = <<>> <=> m = <<>>
      /\ Ended(log[r]) => m = log[r]
      /\ ~StillWaiting(log[r]) => ~StillWaiting(m)
      /\ Len(log[r]) <= Len(m)
  BY <1>1, Appended
<1> HIDE DEF m
<1>3. log' \in [Runs -> Seq(LoggedEvent)]
  BY <1>1, <1>2 DEF m
<1>4. /\ \A s \in Runs : s # r => log'[s] = log[s]
      /\ log'[r] \in {log[r], m}
      /\ log' = [log EXCEPT ![r] = m] => log'[r] = m
  BY <1>1 DEF m
<1>5. LogsKept
  <2> SUFFICES ASSUME NEW s \in Runs
               PROVE  /\ log[s] # <<>> => log'[s] # <<>>
                      /\ log[s] = <<>> => log'[s] = <<>>
                      /\ Ended(log[s]) => log'[s] = log[s]
                      /\ ~StillWaiting(log[s]) => ~StillWaiting(log'[s])
                      /\ Len(log[s]) <= Len(log'[s])
    BY DEF LogsKept
  <2>1. Len(log[s]) \in Nat
    BY <1>1
  <2>2. CASE log'[s] = log[s]
    BY <2>1, <2>2
  <2>3. CASE log'[s] # log[s]
    <3>1. s = r /\ log'[s] = m
      BY <1>4, <2>3
    <3> QED BY <1>2, <3>1
  <2> QED BY <2>2, <2>3
<1>6. SharedType'
  BY <1>3 DEF TurnInv, TypeInv, SharedType
<1> QED BY <1>4, <1>5, <1>6, BoxesStand, QueueStands DEF World, TurnInv, TypeInv, m

\* A script on the queue: one that pushes a turn of the background, acknowledges
\* one that has ended, or leases to a worker with no attempt.
LEMMA QueueWorld ==
    ASSUME TurnInv, UNCHANGED <<log, host, late, stops, astray>>,
           NEW pushed, NEW acked, NEW claimer,
           Follows(queue, queue', pushed, acked, claimer),
           pushed \in Runs => pushed \in Background /\ log[pushed] # <<>>,
           acked \in Runs => Ended(log[acked]),
           claimer \in Workers =>
               wk'[claimer].attempt = 0 \/ \A r \in Runs : queue'.lease[r] = claimer => queue.lease[r] = claimer
    PROVE  World
<1>1. SharedType'
  BY DEF TurnInv, TypeInv, SharedType, Follows
<1>2. QueueKept
  <2>1. NoLease \notin Workers
    BY QueueAssumption
  <2>2. \A r \in Runs, w \in Workers : queue'.lease[r] = w => queue.lease[r] = w \/ w = claimer
    BY <2>1 DEF Follows
  <2>3. \A r \in Runs : QueuedOrClaimed(queue', r) => QueuedOrClaimed(queue, r) \/ (r \in Background /\ log'[r] # <<>>)
    BY DEF Follows
  <2>4. \A r \in Runs : ~Ended(log[r]) => queue'.deliveries[r] >= queue.deliveries[r]
    BY DEF Follows
  <2>5. \A r \in Runs, w \in Workers : queue'.lease[r] = w => queue.lease[r] = w \/ wk'[w].attempt = 0
    BY <2>2
  <2> QED BY <2>3, <2>4, <2>5 DEF QueueKept
<1> QED BY <1>1, <1>2, LogsStand, BoxesStand DEF World, TurnInv, TypeInv

(***************************************************************************)
(* One worker moves                                                        *)
(***************************************************************************)
LEMMA WorkerStep ==
    ASSUME TurnInv, World, UNCHANGED <<quickVars, sweep>>,
           NEW w \in Workers, NEW x \in WorkerType, wk' = [wk EXCEPT ![w] = x],
           WorkerOk(w)', Cleaned(w)', Counted(w)', HasBox(w)',
           \A v \in Workers : v # w => Apart(w, v)' /\ Apart(v, w)'
    PROVE  TurnInv'
<1>1. opener' = opener /\ req' = req /\ told' = told /\ sweep' = sweep
  BY DEF quickVars
<1>2. wk' \in [Workers -> WorkerType] /\ \A v \in Workers : v # w => wk'[v] = wk[v]
  BY DEF TurnInv, TypeInv, ThreadsType
<1>3. TypeInv'
  BY <1>1, <1>2 DEF TurnInv, TypeInv, ThreadsType, World
<1>4. \A v \in Workers : WorkerOk(v)' /\ Cleaned(v)' /\ Counted(v)' /\ HasBox(v)'
  BY <1>2, WorkerStands
<1>5. \A v, u \in Workers : v # u => Apart(v, u)'
  <2> TAKE v, u \in Workers
  <2>1. CASE v = w \/ u = w
    BY <2>1
  <2>2. CASE v # w /\ u # w
    BY <1>2, <2>2, ApartStands
  <2> QED BY <2>1, <2>2
<1>6. WorkersOk'
  BY <1>4, <1>5 DEF WorkersOk
<1> QED BY <1>1, <1>3, <1>6, QuickStands, QueuedStands, SandboxesStand DEF TurnInv

\* A worker with no attempt.
LEMMA WithoutAttempt ==
    ASSUME TurnInv, World, UNCHANGED <<quickVars, sweep>>,
           NEW w \in Workers, NEW x \in WorkerType, wk' = [wk EXCEPT ![w] = x],
           x.attempt = 0, x.pc \notin BeforeBox \cup InBox \cup Unboxed \cup (Ending \ {"end"}),
           x.pc \in {"ack", "release", "load", "start", "end"} => x.run \in Background /\ log'[x.run] # <<>>,
           x.pc = "start" => x.seen <= Len(log'[x.run]),
           x.pc = "ack" => Ended(log'[x.run]),
           x.pc = "end" => x.run \notin Boxes /\ x.end \in EndBatches,
           ~x.held, x.todo = {}
    PROVE  TurnInv'
<1>1. wk'[w] = x /\ x.pc \in WorkerPcs
  BY DEF TurnInv, TypeInv, ThreadsType, WorkerType
<1>2. WorkerOk(w)'
  BY <1>1 DEF WorkerOk, At, WorkerPcs, ToStart, Leaving, Ending, InBox, BeforeBox, Unboxed, Laddered
<1>3. Cleaned(w)'
  <2> SUFFICES ASSUME x.pc \in Ending, NEW n \in host'.up, n[1] = x.run
               PROVE  FALSE
    BY <1>1 DEF Cleaned
  <2>1. x.run \notin Boxes
    BY DEF Ending
  <2>2. SandboxOk(n)'
    BY SandboxesStand DEF quickVars
  <2> QED BY <2>1, <2>2 DEF SandboxOk
<1>4. Counted(w)'
  <2> SUFFICES ASSUME x.pc # "idle" PROVE 0 <= queue'.deliveries[x.run]
    BY <1>1 DEF Counted, At
  <2>1. x.run \in Runs
    BY DEF Background, WorkerPcs, WorkerType, Leaving, ToStart, Ending, InBox, BeforeBox, Unboxed
  <2> QED BY <2>1 DEF World, SharedType, QueueType
<1>5. HasBox(w)'
  BY <1>1 DEF HasBox, Holder, InBox
<1>6. \A v \in Workers : v # w => Apart(w, v)' /\ Apart(v, w)'
  BY <1>1 DEF Apart, OnOneTurn
<1> QED BY <1>2, <1>3, <1>4, <1>5, <1>6, WorkerStep

LEMMA IdleIsWorker ==
    ASSUME TurnInv
    PROVE  Idle \in WorkerType /\ Idle.pc = "idle" /\ Idle.attempt = 0 /\ ~Idle.held /\ Idle.todo = {}
<1>1. 0 \in 0..MaxDeliveries
  BY DEF TurnInv, TypeInv, TurnConstants
<1> QED BY <1>1 DEF WorkerType, WorkerPcs, Idle

\* The record of a worker that has a turn and no attempt of it.
Rest(pc, r) == [Idle EXCEPT !.pc = pc, !.run = r]

LEMMA RestIsWorker ==
    ASSUME TurnInv, NEW pc \in {"load", "ack", "release"}, NEW r \in Runs
    PROVE  /\ Rest(pc, r) \in WorkerType /\ Rest(pc, r).pc = pc /\ Rest(pc, r).run = r
           /\ Rest(pc, r).attempt = 0 /\ ~Rest(pc, r).held /\ Rest(pc, r).todo = {}
<1>1. 0 \in 0..MaxDeliveries
  BY DEF TurnInv, TypeInv, TurnConstants
<1>2. pc \in WorkerPcs
  BY DEF WorkerPcs, ToStart, Leaving
<1> QED BY <1>1, <1>2 DEF WorkerType, Rest, Idle

\* A worker drops its claim.
LEMMA AbandonsInd ==
    ASSUME TurnInv, World, UNCHANGED <<quickVars, sweep>>, NEW w \in Workers, Abandons(w)
    PROVE  TurnInv'
<1>1. wk' = [wk EXCEPT ![w] = Idle]
  BY DEF Abandons, Becomes
<1>2. Idle.pc \notin BeforeBox \cup InBox \cup Unboxed \cup Ending
  BY IdleIsWorker DEF BeforeBox, InBox, Unboxed, Ending
<1> QED BY <1>1, <1>2, IdleIsWorker, WithoutAttempt DEF Ending

\* A worker is done with a turn, which it will release, or acknowledge if ended.
LEMMA FinishesInd ==
    ASSUME TurnInv, World, UNCHANGED <<quickVars, sweep>>, NEW w \in Workers, ~At(w, "idle"),
           NEW pc \in {"ack", "release"}, Finishes(w, pc), pc = "ack" => Ended(log'[wk[w].run])
    PROVE  TurnInv'
<1> DEFINE r == wk[w].run
           x == Rest(pc, r)
<1>1. r \in Runs /\ r \in Background /\ log'[r] # <<>>
  BY WorkerHasRun DEF World, LogsKept
<1>2. wk' = [wk EXCEPT ![w] = x]
  BY DEF Finishes, Becomes, Rest
<1>3. x \in WorkerType /\ x.pc = pc /\ x.run = r /\ x.attempt = 0 /\ ~x.held /\ x.todo = {}
  BY <1>1, RestIsWorker
<1> HIDE DEF x
<1>4. x.pc \notin BeforeBox \cup InBox \cup Unboxed \cup Ending
  BY <1>3 DEF BeforeBox, InBox, Unboxed, Ending
<1> QED BY <1>1, <1>2, <1>3, <1>4, WithoutAttempt DEF Ending

\* A worker goes on with its attempt.
LEMMA GoesOn ==
    ASSUME TurnInv, World, UNCHANGED <<quickVars, sweep>>, NEW w \in Workers, ~At(w, "idle"),
           NEW x \in WorkerType, wk' = [wk EXCEPT ![w] = x],
           x.run = wk[w].run, x.attempt = wk[w].attempt, x.pc # "idle",
           WorkerOk(w)', Cleaned(w)', HasBox(w)',
           Timid(w) => Timid(w)' \/ queue.lease[x.run] = w \/ x.run \in stops' \cup astray'
    PROVE  TurnInv'
<1> DEFINE r == wk[w].run
<1>1. wk'[w] = x /\ \A v \in Workers : v # w => wk'[v] = wk[v]
  BY DEF TurnInv, TypeInv, ThreadsType
<1>2. r \in Runs /\ MaxDeliveries \in Nat
  BY WorkerHasRun DEF TurnInv, TypeInv, TurnConstants
<1>3. Ended(log[r]) => Ended(log'[r])
  BY <1>2 DEF World, LogsKept
<1>4. Counted(w)'
  <2> SUFFICES ASSUME ~Ended(log'[r]) PROVE x.attempt <= queue'.deliveries[r]
    BY <1>1 DEF Counted
  <2>1. wk[w].attempt <= queue.deliveries[r]
    BY <1>3 DEF TurnInv, WorkersOk, Counted
  <2> QED BY <1>2, <1>3, <2>1, DeliveriesGrow, WorkerFields DEF TurnInv
<1>5. ASSUME NEW v \in Workers, v # w, OnOneTurn(w, v)' \/ OnOneTurn(v, w)'
      PROVE  /\ wk[v].run = r /\ ~Ended(log[r])
             /\ wk[w].attempt # wk[v].attempt \/ queue'.deliveries[r] > MaxDeliveries
             /\ queue'.lease[r] = w /\ wk[v].attempt > wk[w].attempt => Timid(v)' \/ Exempt(r)'
             /\ queue'.lease[r] = v /\ wk[w].attempt > wk[v].attempt => Timid(w)' \/ Exempt(r)'
  <2>1. /\ wk[v].run = r /\ ~Ended(log[r]) /\ wk'[v] = wk[v]
        /\ wk[w].attempt >= 1 /\ wk[v].attempt >= 1
    BY <1>1, <1>3, <1>5 DEF OnOneTurn
  <2>2. OnOneTurn(w, v) /\ OnOneTurn(v, w)
    BY <2>1 DEF OnOneTurn
  <2>3. /\ wk[w].attempt # wk[v].attempt \/ queue.deliveries[r] > MaxDeliveries
        /\ queue.lease[r] = w /\ wk[v].attempt > wk[w].attempt => Timid(v) \/ Exempt(r)
        /\ queue.lease[r] = v /\ wk[w].attempt > wk[v].attempt => Timid(w) \/ Exempt(r)
    BY <1>5, <2>1, <2>2 DEF TurnInv, WorkersOk, Apart
  <2>4. wk'[v].attempt # 0 /\ wk'[w].attempt # 0
    <3>1. wk[w].attempt \in Nat /\ wk[v].attempt \in Nat
      BY WorkerFields DEF TurnInv
    <3> QED BY <1>1, <2>1, <3>1
  <2>5. (queue'.lease[r] = w => queue.lease[r] = w) /\ (queue'.lease[r] = v => queue.lease[r] = v)
    BY <1>2, <2>4 DEF World, QueueKept
  <2>6. Exempt(r) => Exempt(r)'
    <3>1. Exempt(r) => r \in stops' \cup astray' \/ queue'.deliveries[r] > MaxDeliveries
      BY <1>2, <2>1, DeliveriesGrow DEF Exempt, World, QueueKept
    <3> QED BY <3>1 DEF Exempt
  <2>7. Timid(v) => Timid(v)'
    BY <2>1 DEF Timid
  <2>8. queue.deliveries[r] > MaxDeliveries => queue'.deliveries[r] > MaxDeliveries
    BY <1>2, <2>1, DeliveriesGrow
  <2>9. queue.lease[r] = v /\ Timid(w) => Timid(w)' \/ Exempt(r)'
    <3>1. r \in stops' \cup astray' => Exempt(r)'
      BY <1>1 DEF Exempt
    <3> QED BY <1>5, <3>1
  <2> QED BY <2>1, <2>3, <2>5, <2>6, <2>7, <2>8, <2>9
<1>6. \A v \in Workers : v # w => Apart(w, v)' /\ Apart(v, w)'
  BY <1>1, <1>5 DEF Apart
<1> QED BY <1>4, <1>6, WorkerStep
(***************************************************************************)
(* The steps a worker takes on what it has read                            *)
(***************************************************************************)
\* The moves of a worker that change nothing of its record but where it stands.
PlainMoves ==
    {<<"stop", "ladder">>, <<"stop_begun", "fence">>, <<"stop_made", "call">>,
     <<"ladder", "begin">>, <<"begin", "stop_begun">>,
     <<"fence", "reread">>, <<"enter", "provision">>, <<"made", "stop_made">>, <<"gone", "end">>,
     <<"made", "drop">>, <<"called", "drop">>, <<"reread", "enter">>, <<"reread", "tail">>,
     <<"tail", "failed">>, <<"provision", "made">>,
     <<"clean", "gone">>, <<"clean", "destroy">>, <<"destroy", "confirm">>}

LEMMA GoesInd ==
    ASSUME TurnInv, World, UNCHANGED <<quickVars, sweep>>, NEW w \in Workers, NEW pc,
           Goes(w, pc), <<wk[w].pc, pc>> \in PlainMoves,
           pc = "begin" => ~StillWaiting(log'[wk[w].run]),
           pc = "enter" => wk[w].run \in Boxes,
           pc = "tail" => wk[w].run \notin Boxes,
           pc = "destroy" => wk[w].todo # {},
           pc = "gone" => wk[w].todo = {},
           pc = "made" => Name(wk[w].run, wk[w].attempt) \in host'.up,
           pc \in {"stop_made", "call"} => host' = host,
           pc = "reread" => queue.lease[wk[w].run] = w \/ wk[w].run \in stops' \cup astray'
    PROVE  TurnInv'
<1> DEFINE x == [wk[w] EXCEPT !.pc = pc]
           r == wk[w].run
<1>1. wk[w] \in WorkerType
  BY WorkerFields DEF TurnInv
<1>2. pc \in WorkerPcs \ ({"idle"} \cup ToStart \cup Leaving)
      /\ wk[w].pc \in WorkerPcs \ ({"idle"} \cup ToStart \cup Leaving)
  BY DEF PlainMoves, WorkerPcs, ToStart, Leaving, BeforeBox, InBox, Unboxed, Ending
<1>3. x \in WorkerType /\ x.pc = pc /\ x.run = r /\ x.attempt = wk[w].attempt /\ x.seen = wk[w].seen
      /\ x.end = wk[w].end /\ x.todo = wk[w].todo /\ x.held = wk[w].held
  BY <1>1, <1>2 DEF WorkerType
<1>4. wk' = [wk EXCEPT ![w] = x]
  BY DEF Goes, Becomes
<1> HIDE DEF x
<1>5. wk'[w] = x
  BY <1>4 DEF TurnInv, TypeInv, ThreadsType
<1>6. WorkerOk(w) /\ Cleaned(w) /\ HasBox(w)
  BY DEF TurnInv, WorkersOk
<1>7. /\ r \in Runs /\ r \in Background /\ log[r] # <<>> /\ log'[r] # <<>> /\ ~At(w, "idle")
      /\ wk[w].seen <= Len(log[r]) => wk[w].seen <= Len(log'[r])
      /\ ~StillWaiting(log[r]) => ~StillWaiting(log'[r])
      /\ Ended(log[r]) => log'[r] = log[r]
  <2>1. ~At(w, "idle")
    BY <1>2 DEF At
  <2>2. r \in Runs /\ r \in Background /\ log[r] # <<>>
    BY <2>1, WorkerHasRun
  <2>3. Len(log[r]) \in Nat /\ Len(log'[r]) \in Nat /\ wk[w].seen \in Nat
    <3>1. log[r] \in Seq(LoggedEvent) /\ log'[r] \in Seq(LoggedEvent)
      BY <2>2 DEF TurnInv, TypeInv, SharedType, World
    <3> QED BY <3>1, WorkerFields DEF TurnInv
  <2> QED BY <2>1, <2>2, <2>3 DEF World, LogsKept
<1>8. WorkerOk(w)'
  <2>1. CASE pc \in BeforeBox \cup InBox \cup Unboxed
    <3>1. wk[w].pc \in BeforeBox \cup InBox \cup Unboxed /\ pc \notin Ending
      BY <2>1 DEF PlainMoves, BeforeBox, InBox, Unboxed, Ending
    <3>2. wk[w].attempt >= 1 /\ wk[w].seen <= Len(log[r])
      BY <1>6, <3>1 DEF WorkerOk
    <3>3. pc \in Laddered => wk[w].pc \in Laddered \/ pc = "begin"
      BY DEF PlainMoves, Laddered, InBox
    <3>4. pc \in InBox => wk[w].pc \in InBox \/ pc = "enter"
      BY DEF PlainMoves, InBox
    <3>5. pc \in Unboxed => wk[w].pc \in Unboxed \/ pc = "tail"
      BY DEF PlainMoves, Unboxed
    <3>6. pc # "called"
      BY DEF PlainMoves
    <3> QED BY <1>2, <1>3, <1>5, <1>6, <1>7, <3>1, <3>2, <3>3, <3>4, <3>5, <3>6
        DEF WorkerOk, At, Leaving, Ending
  <2>2. CASE pc \in Ending
    <3>1. wk[w].pc \in Ending \ {"end"} /\ pc \notin BeforeBox \cup InBox \cup Unboxed
      BY <2>2 DEF PlainMoves, BeforeBox, InBox, Unboxed, Ending
    <3>2. pc = "end" => wk[w].pc = "gone"
      BY DEF PlainMoves
    <3>3. pc = "confirm" => wk[w].pc = "destroy"
      BY DEF PlainMoves
    <3>4. pc \notin Laddered
      BY <3>1 DEF Laddered, BeforeBox
    <3> QED BY <1>2, <1>3, <1>5, <1>6, <1>7, <3>1, <3>2, <3>3, <3>4 DEF WorkerOk, At, Leaving, ToStart
  <2> QED BY <1>2, <2>1, <2>2 DEF WorkerPcs
<1>9. Cleaned(w)'
  <2> SUFFICES ASSUME pc \in Ending, NEW n \in host'.up, n[1] = r, n[2] <= wk[w].attempt, n \notin wk[w].todo
               PROVE  n \in late'
    BY <1>3, <1>5 DEF Cleaned
  <2>1. wk[w].pc \in Ending
    BY DEF PlainMoves, Ending
  <2>2. CASE n \in host.up
    BY <1>6, <2>1, <2>2 DEF Cleaned, World, BoxesKept
  <2>3. CASE n \notin host.up
    <3>1. FoundGone(n)
      BY <2>1 DEF FoundGone, RunOf, Ending
    <3> QED BY <2>3, <3>1 DEF World, BoxesKept
  <2> QED BY <2>2, <2>3
<1>10. HasBox(w)'
  <2> SUFFICES ASSUME pc \in {"made", "stop_made", "call", "called"}, queue'.lease[r] = w, ~Ended(log'[r])
               PROVE  Name(r, wk[w].attempt) \in host'.up \/ Overtaken(r, wk[w].attempt)'
    BY <1>3, <1>5 DEF HasBox, Holder
  <2>1. CASE pc = "made"
    BY <2>1
  <2>2. CASE pc # "made"
    <3>1. pc \in {"stop_made", "call"} /\ wk[w].pc \in {"made", "stop_made"}
      BY <2>2 DEF PlainMoves
    <3>2. wk[w].attempt >= 1 /\ wk[w].attempt \in Nat
      BY <1>6, <3>1, WorkerFields DEF WorkerOk, InBox, TurnInv
    <3>3. queue.lease[r] = w /\ ~Ended(log[r])
      BY <1>3, <1>5, <1>7, <3>2 DEF World, QueueKept
    <3>4. Name(r, wk[w].attempt) \in host.up \/ Overtaken(r, wk[w].attempt)
      BY <1>6, <3>1, <3>3 DEF HasBox, Holder
    <3>5. Overtaken(r, wk[w].attempt) =>
              /\ queue'.deliveries[r] > wk[w].attempt
              /\ r \in stops' \cup astray' \/ queue'.deliveries[r] > MaxDeliveries
      <4>1. MaxDeliveries \in Nat
        BY DEF TurnInv, TypeInv, TurnConstants
      <4> QED BY <1>7, <3>2, <3>3, <4>1, DeliveriesGrow DEF Overtaken, World, QueueKept
    <3> QED BY <1>3, <1>5, <3>1, <3>4, <3>5 DEF Overtaken
  <2> QED BY <2>1, <2>2
<1>11. Timid(w) => Timid(w)' \/ queue.lease[x.run] = w \/ x.run \in stops' \cup astray'
  <2>1. Timid(w) => Timid(w)' \/ pc = "reread"
    BY <1>3, <1>5 DEF Timid, PlainMoves
  <2> QED BY <1>3, <2>1
<1> QED BY <1>2, <1>3, <1>4, <1>7, <1>8, <1>9, <1>10, <1>11, GoesOn

\* Box turn: a worker sets out to remove the sandboxes up to its attempt's.
LEMMA AttemptNames ==
    ASSUME TurnInv, NEW r \in Runs, NEW k \in 0..MaxDeliveries
    PROVE  /\ AttemptsTo(r, k) \subseteq Runs \X (1..MaxDeliveries)
           /\ \A n \in AttemptsTo(r, k) : n[1] = r /\ n[2] <= k
           /\ \A n \in Sandboxes : n[1] = r /\ n[2] >= 1 /\ n[2] <= k => n \in AttemptsTo(r, k)
<1>1. MaxDeliveries \in Nat
  BY DEF TurnInv, TypeInv, TurnConstants
<1>2. \A i \in 1..k : i \in 1..MaxDeliveries /\ Name(r, i) = <<r, i>>
  BY <1>1 DEF Name
<1>3. ASSUME NEW n \in Sandboxes, n[1] = r, n[2] >= 1, n[2] <= k PROVE n \in AttemptsTo(r, k)
  <2>1. n = <<r, n[2]>> /\ n[2] \in 1..k
    BY <1>1, <1>3 DEF Sandboxes
  <2> QED BY <2>1 DEF AttemptsTo, Name
<1> QED BY <1>1, <1>2, <1>3 DEF AttemptsTo

LEMMA EndBoxInd ==
    ASSUME TurnInv, World, UNCHANGED <<quickVars, sweep>>, NEW w \in Workers, NEW end \in EndBatches,
           EndBox(w, end), wk[w].pc \in BeforeBox \cup InBox, wk[w].run \in Boxes,
           Timid(w) => queue.lease[wk[w].run] = w \/ wk[w].run \in stops' \cup astray'
    PROVE  TurnInv'
<1> DEFINE r == wk[w].run
           k == wk[w].attempt
           x == [wk[w] EXCEPT !.pc = "clean", !.end = end, !.todo = AttemptsTo(r, k)]
<1>1. wk[w] \in WorkerType /\ k \in 0..MaxDeliveries
  BY WorkerFields DEF TurnInv
<1>2. ~At(w, "idle")
  BY DEF At, BeforeBox, InBox
<1>3. r \in Runs /\ r \in Background /\ log'[r] # <<>>
  BY <1>2, WorkerHasRun DEF World, LogsKept
<1>4. /\ AttemptsTo(r, k) \subseteq Runs \X (1..MaxDeliveries)
      /\ \A n \in AttemptsTo(r, k) : n[1] = r /\ n[2] <= k
      /\ \A n \in Sandboxes : n[1] = r /\ n[2] >= 1 /\ n[2] <= k => n \in AttemptsTo(r, k)
  BY <1>1, <1>3, AttemptNames
<1>5. x \in WorkerType /\ x.pc = "clean" /\ x.run = r /\ x.attempt = k
      /\ x.end = end /\ x.todo = AttemptsTo(r, k)
  BY <1>1, <1>4 DEF WorkerType, WorkerPcs, Ending
<1>6. wk' = [wk EXCEPT ![w] = x]
  BY DEF EndBox, Becomes
<1> HIDE DEF x
<1>7. wk'[w] = x
  BY <1>6 DEF TurnInv, TypeInv, ThreadsType
<1>8. k >= 1
  BY DEF TurnInv, WorkersOk, WorkerOk
<1>9. WorkerOk(w)'
  <2>1. "clean" \notin {"idle"} \cup ToStart \cup Leaving \cup BeforeBox \cup InBox \cup Unboxed \cup Laddered
    BY DEF ToStart, Leaving, BeforeBox, InBox, Unboxed, Laddered
  <2> QED BY <1>3, <1>4, <1>5, <1>7, <1>8, <2>1 DEF WorkerOk, At
<1>10. Cleaned(w)'
  <2> SUFFICES ASSUME NEW n \in host'.up, n[1] = r, n[2] <= k, n \notin AttemptsTo(r, k)
               PROVE  FALSE
    BY <1>5, <1>7 DEF Cleaned
  <2>1. SandboxOk(n)' /\ n \in Sandboxes
    BY SandboxesStand DEF quickVars, World, SharedType
  <2>2. n[2] >= 1
    BY <1>3, <2>1 DEF SandboxOk
  <2> QED BY <1>4, <2>1, <2>2
<1>11. HasBox(w)'
  BY <1>5, <1>7 DEF HasBox, Holder
<1>12. Timid(w) => queue.lease[x.run] = w \/ x.run \in stops' \cup astray'
  BY <1>5
<1> QED BY <1>2, <1>5, <1>6, <1>9, <1>10, <1>11, <1>12, GoesOn
LEMMA NoneMoves ==
    ASSUME TurnInv, World, UNCHANGED <<quickVars, wk, sweep>>
    PROVE  TurnInv'
<1>1. opener' = opener /\ req' = req /\ told' = told
  BY DEF quickVars
<1>2. TypeInv'
  BY <1>1 DEF TurnInv, TypeInv, ThreadsType, World
<1> QED BY <1>1, <1>2, WorkersStand, QuickStands, QueuedStands, SandboxesStand DEF TurnInv

LEMMA StaysWithin ==
    ASSUME TurnInv
    PROVE  stops \subseteq Runs /\ astray \subseteq Runs /\ queue \in QueueType
BY DEF TurnInv, TypeInv, SharedType

\* A claim of a turn on the list.
LEMMA ClaimInd ==
    ASSUME TurnInv, NEW w \in Workers, ClaimTurn(w), UNCHANGED <<quickVars, sweep>>
    PROVE  TurnInv'
<1> DEFINE r == Head(queue.runs)
<1>1. /\ queue.runs # <<>> /\ queue' = Claim(queue, w)
      /\ UNCHANGED <<log, host, late, stops, astray>>
  BY DEF ClaimTurn, others
<1>2. /\ Follows(queue, queue', NoRun, NoRun, w)
      /\ \A s \in Runs : queue'.lease[s] = w => queue.lease[s] = w \/ queue.lease[r] = NoLease
      /\ r \in Runs /\ QueuedOrClaimed(queue, r)
  BY <1>1, Claimed, StaysWithin
<1>3. r \in Background /\ log[r] # <<>>
  BY <1>2 DEF TurnInv, QueuedOnly, Queueable
<1>4. NoRun \notin Runs
  BY SharedAssumption
<1>5. CASE queue.lease[r] = NoLease
  <2>1. wk' = [wk EXCEPT ![w] = Rest("load", r)]
    BY <1>5 DEF ClaimTurn, Becomes, Rest
  <2> DEFINE x == Rest("load", r)
  <2>2. x \in WorkerType /\ x.pc = "load" /\ x.run = r /\ x.attempt = 0 /\ ~x.held /\ x.todo = {}
    BY <1>2, RestIsWorker
  <2> HIDE DEF x
  <2>3. wk'[w] = x
    BY <2>1 DEF TurnInv, TypeInv, ThreadsType, x
  <2>4. World
    BY <1>1, <1>2, <1>4, <2>2, <2>3, QueueWorld
  <2>5. x.pc \notin BeforeBox \cup InBox \cup Unboxed \cup Ending
    BY <2>2 DEF BeforeBox, InBox, Unboxed, Ending
  <2>6. x.pc \notin {"start", "ack", "end"} /\ log' = log /\ wk' = [wk EXCEPT ![w] = x]
    BY <1>1, <2>1, <2>2 DEF x
  <2>7. x.run \in Background /\ log'[x.run] # <<>>
    BY <1>3, <2>2, <2>6
  <2> QED BY <2>2, <2>4, <2>5, <2>6, <2>7, WithoutAttempt
<1>6. CASE queue.lease[r] # NoLease
  <2>1. World
    BY <1>1, <1>2, <1>4, <1>6, QueueWorld
  <2>2. wk' = wk
    BY <1>6 DEF ClaimTurn
  <2> QED BY <2>1, <2>2, NoneMoves
<1> QED BY <1>5, <1>6

LEMMA LoadInd ==
    ASSUME TurnInv, NEW w \in Workers, LoadTurn(w), UNCHANGED <<quickVars, sweep>>
    PROVE  TurnInv'
<1> DEFINE r == wk[w].run
<1>1. World
  BY QuietWorld, StaysWithin DEF LoadTurn, others
<1>2. ~At(w, "idle") /\ At(w, "load")
  BY DEF LoadTurn, At
<1>3. r \in Runs /\ r \in Background /\ log[r] # <<>> /\ log' = log
  BY <1>2, WorkerHasRun DEF LoadTurn
<1>4. CASE Finishes(w, "release") \/ (Ended(log[r]) /\ Finishes(w, "ack"))
  BY <1>1, <1>2, <1>3, <1>4, FinishesInd
<1>5. CASE Becomes(w, [wk[w] EXCEPT !.pc = "start", !.seen = Len(log[r])])
  <2> DEFINE x == [wk[w] EXCEPT !.pc = "start", !.seen = Len(log[r])]
  <2>1. Len(log[r]) \in Nat
    BY <1>3, SharedFields DEF TurnInv, TypeInv
  <2>2. wk[w] \in WorkerType /\ wk[w].attempt = 0 /\ ~wk[w].held /\ wk[w].todo = {}
    BY <1>2, WorkerFields DEF TurnInv, WorkersOk, WorkerOk, At, ToStart
  <2>3. /\ x \in WorkerType /\ x.pc = "start" /\ x.run = r /\ x.attempt = 0 /\ ~x.held /\ x.todo = {}
        /\ x.seen = Len(log[r])
    BY <2>1, <2>2 DEF WorkerType, WorkerPcs, ToStart
  <2>4. wk' = [wk EXCEPT ![w] = x]
    BY <1>5 DEF Becomes
  <2> HIDE DEF x
  <2>5. x.pc \notin BeforeBox \cup InBox \cup Unboxed \cup Ending
    BY <2>3 DEF BeforeBox, InBox, Unboxed, Ending
  <2>6. x.seen <= Len(log'[x.run])
    BY <1>3, <2>1, <2>3
  <2> QED BY <1>1, <1>3, <2>3, <2>4, <2>5, <2>6, WithoutAttempt DEF Ending
<1> QED BY <1>4, <1>5 DEF LoadTurn

\* A start that is counted: it has the attempts below it counted, or is past the limit.
LEMMA StartCounted ==
    ASSUME TurnInv, NEW w \in Workers, At(w, "start"), UNCHANGED <<quickVars, sweep>>,
           UNCHANGED <<log, host, late, stops, astray>>,
           queue' = Start(queue, wk[w].run),
           NEW x \in WorkerType, wk' = [wk EXCEPT ![w] = x], x.run = wk[w].run,
           LET starts == queue.deliveries[wk[w].run] + 1
           IN  \/ starts <= MaxDeliveries /\ x.attempt = starts /\ x.pc = "stop" /\ ~x.held
                    /\ x.seen <= Len(log[wk[w].run])
               \/ starts > MaxDeliveries /\ x.attempt = MaxDeliveries /\ x.pc = "clean"
                    /\ wk[w].run \in Boxes /\ x.end \in EndBatches /\ x.todo = AttemptsTo(x.run, MaxDeliveries)
    PROVE  TurnInv'
<1> DEFINE r == wk[w].run
           k == queue.deliveries[r]
<1>1. ~At(w, "idle") /\ r \in Runs /\ r \in Background /\ log[r] # <<>>
  BY WorkerHasRun DEF At
<1>2. k \in Nat /\ MaxDeliveries \in Nat /\ MaxDeliveries >= 1 /\ x.attempt \in Nat /\ x.attempt >= 1
      /\ MaxDeliveries \in 0..MaxDeliveries
  <2>1. k \in Nat
    BY <1>1, SharedFields DEF TurnInv, TypeInv
  <2>2. MaxDeliveries \in Nat /\ MaxDeliveries >= 1
    BY DEF TurnInv, TypeInv, TurnConstants
  <2> QED BY <2>1, <2>2
<1>3. /\ Follows(queue, queue', NoRun, NoRun, NoLease)
      /\ queue'.deliveries[r] = k + 1 /\ queue'.lease = queue.lease
  BY <1>1, Started, StaysWithin
<1>4. World
  <2>1. NoRun \notin Runs /\ NoLease \notin Workers
    BY SharedAssumption, QueueAssumption
  <2> QED BY <1>3, <2>1, QueueWorld
<1>5. wk'[w] = x /\ \A v \in Workers : v # w => wk'[v] = wk[v]
  BY DEF TurnInv, TypeInv, ThreadsType
<1>6. x.attempt <= k + 1
  BY <1>2
<1>7. /\ AttemptsTo(r, MaxDeliveries) \subseteq Runs \X (1..MaxDeliveries)
      /\ \A n \in AttemptsTo(r, MaxDeliveries) : n[1] = r /\ n[2] <= MaxDeliveries
      /\ \A n \in Sandboxes : n[1] = r /\ n[2] >= 1 /\ n[2] <= MaxDeliveries => n \in AttemptsTo(r, MaxDeliveries)
  BY <1>1, <1>2, AttemptNames
<1>8. WorkerOk(w)'
  <2>1. "clean" \notin {"idle"} \cup ToStart \cup Leaving \cup BeforeBox \cup InBox \cup Unboxed \cup Laddered
        /\ "clean" \in Ending
    BY DEF ToStart, Leaving, BeforeBox, InBox, Unboxed, Laddered, Ending
  <2>2. "stop" \notin {"idle"} \cup ToStart \cup Leaving \cup InBox \cup Unboxed \cup Laddered \cup Ending
        /\ "stop" \in BeforeBox
    BY DEF ToStart, Leaving, BeforeBox, InBox, Unboxed, Laddered, Ending
  <2>3. CASE x.pc = "stop"
    BY <1>1, <1>2, <1>5, <2>2, <2>3 DEF WorkerOk, At
  <2>4. CASE x.pc = "clean"
    BY <1>1, <1>2, <1>5, <1>7, <2>1, <2>4 DEF WorkerOk, At
  <2> QED BY <2>3, <2>4
<1>9. Cleaned(w)'
  <2> SUFFICES ASSUME x.pc \in Ending, NEW n \in host'.up, n[1] = r, n[2] <= x.attempt, n \notin x.todo
               PROVE  FALSE
    BY <1>5 DEF Cleaned
  <2>1. x.attempt = MaxDeliveries /\ x.todo = AttemptsTo(r, MaxDeliveries)
    BY DEF Ending
  <2>2. SandboxOk(n)' /\ n \in Sandboxes
    BY <1>4, SandboxesStand DEF quickVars, World, SharedType
  <2>3. n[2] >= 1
    BY <1>1, <2>2 DEF SandboxOk
  <2> QED BY <1>7, <2>1, <2>2, <2>3
<1>10. HasBox(w)'
  BY <1>5 DEF HasBox, Holder
<1>11. Counted(w)'
  BY <1>3, <1>5, <1>6 DEF Counted
<1>12. ASSUME NEW v \in Workers, v # w, OnOneTurn(w, v)' \/ OnOneTurn(v, w)'
       PROVE  /\ wk'[v].run = r
              /\ x.attempt # wk'[v].attempt \/ queue'.deliveries[r] > MaxDeliveries
              /\ x.pc = "clean" => queue'.deliveries[r] > MaxDeliveries
              /\ wk'[v].attempt > x.attempt => queue'.deliveries[r] > MaxDeliveries
              /\ x.pc = "clean" \/ Timid(w)'
  <2>1. wk[v].run = r /\ ~Ended(log[r]) /\ wk'[v] = wk[v] /\ wk[v].attempt >= 1
    BY <1>5, <1>12 DEF OnOneTurn
  <2>2. wk[v].attempt <= k /\ wk[v].attempt \in Nat
    <3>1. wk[v].attempt \in Nat
      BY WorkerFields DEF TurnInv
    <3>2. wk[v].attempt # 0
      BY <2>1, <3>1
    <3>3. ~At(v, "idle")
      BY <3>2 DEF TurnInv, WorkersOk, WorkerOk, At
    <3> QED BY <2>1, <3>1, <3>3 DEF TurnInv, WorkersOk, Counted
  <2>3. x.pc = "clean" => queue'.deliveries[r] > MaxDeliveries
    BY <1>2, <1>3
  <2>4. x.pc = "stop" => wk[v].attempt < x.attempt
    BY <1>2, <2>2
  <2>5. x.pc = "stop" => Timid(w)'
    BY <1>5 DEF Timid
  <2> QED BY <1>2, <2>1, <2>2, <2>3, <2>4, <2>5
<1>13. \A v \in Workers : v # w => Apart(w, v)' /\ Apart(v, w)'
  <2> TAKE v \in Workers
  <2> HAVE v # w
  <2> SUFFICES ASSUME OnOneTurn(w, v)' \/ OnOneTurn(v, w)' PROVE Apart(w, v)' /\ Apart(v, w)'
    BY DEF Apart
  <2>1. /\ wk'[v].run = r /\ wk'[w].run = r
        /\ x.attempt # wk'[v].attempt \/ queue'.deliveries[r] > MaxDeliveries
        /\ x.pc = "clean" => queue'.deliveries[r] > MaxDeliveries
        /\ wk'[v].attempt > x.attempt => queue'.deliveries[r] > MaxDeliveries
        /\ x.pc = "clean" \/ Timid(w)'
    BY <1>5, <1>12
  <2> QED BY <1>5, <2>1 DEF Apart, Exempt
<1> QED BY <1>4, <1>8, <1>9, <1>10, <1>11, <1>13, WorkerStep
LEMMA StartInd ==
    ASSUME TurnInv, NEW w \in Workers, StartTurn(w), UNCHANGED <<quickVars, sweep>>
    PROVE  TurnInv'
<1> DEFINE r == wk[w].run
           starts == queue.deliveries[r] + 1
<1>1. /\ At(w, "start") /\ ~At(w, "idle")
      /\ UNCHANGED <<log, host, late, stops, astray>>
  BY DEF StartTurn, others, At
<1>2. r \in Runs /\ r \in Background /\ log[r] # <<>>
  BY <1>1, WorkerHasRun
<1>3. /\ wk[w] \in WorkerType /\ wk[w].attempt = 0 /\ ~wk[w].held /\ wk[w].todo = {}
      /\ wk[w].seen \in Nat
  BY <1>1, WorkerFields DEF TurnInv, WorkersOk, WorkerOk, At, ToStart
<1>4. NoRun \notin Runs /\ NoLease \notin Workers
  BY SharedAssumption, QueueAssumption
<1>5. queue' \in {queue, Start(queue, r)} => World
  <2>1. Follows(queue, Start(queue, r), NoRun, NoRun, NoLease)
    BY <1>2, Started, StaysWithin
  <2>2. queue' = Start(queue, r) => World
    BY <1>1, <1>4, <2>1, QueueWorld
  <2>3. queue' = queue => World
    BY <1>1, QuietWorld, StaysWithin
  <2> QED BY <2>2, <2>3
<1>6. CASE Finishes(w, "release") /\ queue' \in {queue, Start(queue, r)}
  BY <1>1, <1>5, <1>6, FinishesInd
<1>7. starts \in Nat /\ MaxDeliveries \in Nat /\ MaxDeliveries \in 0..MaxDeliveries
      /\ (starts <= MaxDeliveries => starts \in 0..MaxDeliveries)
  <2>1. starts \in Nat
    BY <1>2, SharedFields DEF TurnInv, TypeInv
  <2>2. MaxDeliveries \in Nat
    BY DEF TurnInv, TypeInv, TurnConstants
  <2> QED BY <2>1, <2>2
<1>8. CASE queue' = Start(queue, r) /\ starts <= MaxDeliveries
           /\ Becomes(w, [wk[w] EXCEPT !.pc = "stop", !.attempt = starts])
  <2> DEFINE x == [wk[w] EXCEPT !.pc = "stop", !.attempt = starts]
  <2>1. x \in WorkerType /\ x.pc = "stop" /\ x.run = r /\ x.attempt = starts /\ ~x.held /\ x.seen = wk[w].seen
    BY <1>3, <1>7, <1>8 DEF WorkerType, WorkerPcs, BeforeBox
  <2>2. wk' = [wk EXCEPT ![w] = x]
    BY <1>8 DEF Becomes
  <2>3. wk[w].seen <= Len(log[r])
    BY <1>1 DEF TurnInv, WorkersOk, WorkerOk, At
  <2> HIDE DEF x
  <2> QED BY <1>1, <1>8, <2>1, <2>2, <2>3, StartCounted
<1>9. CASE queue' = Start(queue, r) /\ starts > MaxDeliveries /\ r \in Boxes
           /\ Becomes(w, [wk[w] EXCEPT !.pc = "clean", !.end = Failure,
                                       !.attempt = MaxDeliveries, !.todo = AttemptsTo(r, MaxDeliveries)])
  <2> DEFINE x == [wk[w] EXCEPT !.pc = "clean", !.end = Failure,
                                !.attempt = MaxDeliveries, !.todo = AttemptsTo(r, MaxDeliveries)]
  <2>1. AttemptsTo(r, MaxDeliveries) \subseteq Runs \X (1..MaxDeliveries)
    BY <1>2, <1>7, AttemptNames
  <2>2. x \in WorkerType /\ x.pc = "clean" /\ x.run = r /\ x.attempt = MaxDeliveries
        /\ x.end \in EndBatches /\ x.todo = AttemptsTo(r, MaxDeliveries)
    BY <1>3, <1>7, <2>1 DEF WorkerType, WorkerPcs, Ending, EndBatches
  <2>3. wk' = [wk EXCEPT ![w] = x]
    BY <1>9 DEF Becomes
  <2> HIDE DEF x
  <2> QED BY <1>1, <1>9, <2>2, <2>3, StartCounted
<1>10. CASE queue' = Start(queue, r) /\ r \notin Boxes
            /\ Becomes(w, [wk[w] EXCEPT !.pc = "end", !.end = Failure])
  <2> DEFINE x == [wk[w] EXCEPT !.pc = "end", !.end = Failure]
  <2>1. x \in WorkerType /\ x.pc = "end" /\ x.run = r /\ x.attempt = 0 /\ ~x.held /\ x.todo = {}
        /\ x.end \in EndBatches
    BY <1>3 DEF WorkerType, WorkerPcs, Ending, EndBatches
  <2>2. wk' = [wk EXCEPT ![w] = x]
    BY <1>10 DEF Becomes
  <2> HIDE DEF x
  <2>3. x.pc \notin BeforeBox \cup InBox \cup Unboxed \cup (Ending \ {"end"})
    BY <2>1 DEF BeforeBox, InBox, Unboxed, Ending
  <2> QED BY <1>1, <1>2, <1>5, <1>10, <2>1, <2>2, <2>3, WithoutAttempt
<1>11. \/ Finishes(w, "release") /\ queue' \in {queue, Start(queue, r)}
       \/ /\ queue' = Start(queue, r)
          /\ Becomes(w, IF starts <= MaxDeliveries
                        THEN [wk[w] EXCEPT !.pc = "stop", !.attempt = starts]
                        ELSE IF r \in Boxes
                        THEN [wk[w] EXCEPT !.pc = "clean", !.end = Failure,
                                           !.attempt = MaxDeliveries, !.todo = AttemptsTo(r, MaxDeliveries)]
                        ELSE [wk[w] EXCEPT !.pc = "end", !.end = Failure])
  BY DEF StartTurn, IsBox
<1> HIDE DEF r, starts
<1> QED BY <1>6, <1>7, <1>8, <1>9, <1>10, <1>11

(***************************************************************************)
(* A worker before its box                                                 *)
(***************************************************************************)
\* The lease may be taken for held when it is not: then the run counts as astray.
LEMMA LeaseAnswers ==
    ASSUME TurnInv, NEW w \in Workers, ~At(w, "idle"), NEW answer \in BOOLEAN, Holds(w, answer),
           UNCHANGED stops
    PROVE  /\ astray \subseteq astray' /\ astray' \subseteq Runs
           /\ answer => queue.lease[wk[w].run] = w \/ wk[w].run \in stops' \cup astray'
BY WorkerHasRun, StaysWithin DEF Holds, Renew

LEMMA LeaseInd ==
    ASSUME TurnInv, NEW w \in Workers, UNCHANGED <<quickVars, sweep>>,
           NEW pc, NEW next, NEW lost, CheckLease(w, pc, next, lost),
           <<pc, next, lost>> \in {<<"fence", "reread", "release">>, <<"enter", "provision", "release">>,
                                   <<"made", "stop_made", "drop">>, <<"gone", "end", "release">>}
    PROVE  TurnInv'
<1>1. At(w, pc) /\ ~At(w, "idle") /\ UNCHANGED <<queue, log, host, late, stops>>
  BY DEF CheckLease, At
<1>2. PICK answer \in BOOLEAN :
        /\ Holds(w, answer)
        /\ answer => Goes(w, next)
        /\ ~answer => IF lost = "drop" THEN Goes(w, lost) ELSE Finishes(w, lost)
  BY DEF CheckLease
<1>3. /\ astray \subseteq astray' /\ astray' \subseteq Runs
      /\ answer => queue.lease[wk[w].run] = w \/ wk[w].run \in stops' \cup astray'
  BY <1>1, <1>2, LeaseAnswers
<1>4. World
  BY <1>1, <1>3, QuietWorld, StaysWithin
<1>5. CASE answer
  <2>1. <<wk[w].pc, next>> \in PlainMoves /\ next \notin {"begin", "tail", "destroy", "gone", "made"}
        /\ next # "enter"
    BY <1>1 DEF PlainMoves, At
  <2> QED BY <1>1, <1>2, <1>3, <1>4, <1>5, <2>1, GoesInd
<1>6. CASE ~answer /\ lost = "drop"
  <2>1. <<wk[w].pc, lost>> \in PlainMoves
    BY <1>1, <1>6 DEF PlainMoves, At
  <2> QED BY <1>1, <1>2, <1>4, <1>6, <2>1, GoesInd
<1>7. CASE ~answer /\ lost = "release"
  BY <1>1, <1>2, <1>4, <1>7, FinishesInd
<1> QED BY <1>5, <1>6, <1>7

\* A worker goes on with an attempt before its sandbox, or without one.
LEMMA OutsideBox ==
    ASSUME TurnInv, World, UNCHANGED <<quickVars, sweep>>, NEW w \in Workers,
           NEW x \in WorkerType, wk' = [wk EXCEPT ![w] = x],
           wk[w].pc \in BeforeBox \cup Unboxed, x.pc \in BeforeBox \cup Unboxed,
           x.run = wk[w].run, x.attempt = wk[w].attempt, x.seen <= Len(log'[x.run]),
           x.pc \in Laddered => ~StillWaiting(log'[x.run]),
           x.pc \in Unboxed => x.run \notin Boxes,
           Timid(w) => Timid(w)' \/ queue.lease[x.run] = w \/ x.run \in stops' \cup astray'
    PROVE  TurnInv'
<1>1. wk'[w] = x
  BY DEF TurnInv, TypeInv, ThreadsType
<1>2. x.pc \notin {"idle", "ack", "called"} \cup ToStart \cup Leaving \cup InBox \cup Ending /\ ~At(w, "idle")
  BY DEF ToStart, Leaving, InBox, Ending, BeforeBox, Unboxed, At
<1>3. x.attempt >= 1
  BY DEF TurnInv, WorkersOk, WorkerOk
<1>4. x.run \in Background /\ log'[x.run] # <<>>
  BY <1>2, WorkerHasRun DEF World, LogsKept
<1>5. WorkerOk(w)'
  BY <1>1, <1>2, <1>3, <1>4 DEF WorkerOk, At, ToStart, Ending
<1>6. Cleaned(w)' /\ HasBox(w)'
  BY <1>1, <1>2 DEF Cleaned, HasBox, Holder, InBox
<1> QED BY <1>2, <1>5, <1>6, GoesOn

LEMMA StopSeenInd ==
    ASSUME TurnInv, NEW w \in Workers, UNCHANGED <<quickVars, sweep>>,
           NEW pc, NEW next, StopSeen(w, pc, next),
           <<pc, next>> \in {<<"stop", "ladder">>, <<"stop_begun", "fence">>, <<"stop_made", "call">>}
    PROVE  TurnInv'
<1> DEFINE r == wk[w].run
<1>1. At(w, pc) /\ ~At(w, "idle") /\ UNCHANGED <<queue, log, host, late, stops, astray>>
  BY DEF StopSeen, others, At
<1>2. World
  BY <1>1, QuietWorld, StaysWithin
<1>3. PICK found \in BOOLEAN :
        /\ Stopped(r, found)
        /\ IF ~found THEN Goes(w, next)
           ELSE IF r \in Boxes THEN EndBox(w, Cancellation)
           ELSE Becomes(w, [wk[w] EXCEPT !.pc = "cancel"])
  BY DEF StopSeen, IsBox
<1>4. found => r \in stops
  BY <1>3 DEF Stopped
<1>5. CASE ~found
  <2>1. <<wk[w].pc, next>> \in PlainMoves /\ next \notin {"begin", "enter", "tail", "destroy", "gone", "made", "reread"}
    BY <1>1 DEF PlainMoves, At
  <2> QED BY <1>1, <1>2, <1>3, <1>5, <2>1, GoesInd
<1>6. CASE found /\ r \in Boxes
  <2>1. wk[w].pc \in BeforeBox \cup InBox /\ Cancellation \in EndBatches
    BY <1>1 DEF BeforeBox, InBox, EndBatches, At
  <2> QED BY <1>1, <1>2, <1>3, <1>4, <1>6, <2>1, EndBoxInd
<1>7. CASE found /\ r \notin Boxes
  <2> DEFINE x == [wk[w] EXCEPT !.pc = "cancel"]
  <2>1. wk[w] \in WorkerType
    BY WorkerFields DEF TurnInv
  <2>2. x \in WorkerType /\ x.pc = "cancel" /\ x.run = r /\ x.attempt = wk[w].attempt /\ x.seen = wk[w].seen
    BY <2>1 DEF WorkerType, WorkerPcs, Unboxed
  <2>3. wk' = [wk EXCEPT ![w] = x]
    BY <1>3, <1>7 DEF Becomes
  <2> HIDE DEF x
  <2>4. pc \in BeforeBox
    <3>1. pc \in InBox => r \in Boxes
      BY <1>1 DEF TurnInv, WorkersOk, WorkerOk, At
    <3> QED BY <1>7, <3>1 DEF BeforeBox, InBox
  <2>5. x.seen <= Len(log'[r])
    BY <1>1, <2>2, <2>4 DEF TurnInv, WorkersOk, WorkerOk, At
  <2>6. "cancel" \notin Laddered /\ "cancel" \in Unboxed
    BY DEF Laddered, InBox, Unboxed
  <2> QED BY <1>1, <1>2, <1>4, <1>7, <2>2, <2>3, <2>4, <2>5, <2>6, OutsideBox DEF At
<1> QED BY <1>5, <1>6, <1>7
\* run_from's append: what is stored is past waiting, and an end ends.
LEMMA AppendInd ==
    ASSUME TurnInv, NEW w \in Workers, UNCHANGED <<quickVars, sweep>>,
           NEW pc, NEW b, NEW next, AppendAfter(w, pc, b, next),
           <<pc, b, next>> \in {<<"ladder", <<Plain("RunScheduled")>>, "begin">>,
                                <<"begin", <<Plain("RunStarted")>>, "stop_begun">>,
                                <<"cancel", Cancellation, "ack">>}
    PROVE  TurnInv'
<1> DEFINE r == wk[w].run
           l == log[r]
           m == AppendEventsAfter(l, wk[w].seen, b)
           result == AppendResult(l, wk[w].seen)
           after == [wk[w] EXCEPT !.held = FALSE]
<1>1. /\ wk[w].pc = pc /\ ~At(w, "idle") /\ pc \in BeforeBox \cup Unboxed
      /\ UNCHANGED <<queue, host, late, stops>>
  BY DEF AppendAfter, At, BeforeBox, Unboxed
<1>2. b \in Batches /\ (next = "ack" => b \in EndBatches)
      /\ (pc \in Unboxed => next = "ack") /\ next \in {"begin", "stop_begun", "ack"}
  BY DEF Batches, EndBatches, Unboxed
<1>3. r \in Runs /\ l # <<>> /\ l \in Seq(LoggedEvent) /\ log \in [Runs -> Seq(LoggedEvent)]
  BY <1>1, WorkerHasRun DEF TurnInv, TypeInv, SharedType
<1>4. /\ wk[w] \in WorkerType /\ wk[w].seen \in Nat /\ wk[w].reloads \in Nat
      /\ wk[w].seen <= Len(l)
      /\ pc \in Unboxed => r \notin Boxes
      /\ pc \in Laddered => ~StillWaiting(l)
  BY <1>1, WorkerFields DEF TurnInv, WorkersOk, WorkerOk
<1>5. CASE ~wk[w].held
  <2>1. /\ log' = log
        /\ \/ Holds(w, FALSE) /\ Finishes(w, "release")
           \/ Holds(w, TRUE) /\ Becomes(w, [wk[w] EXCEPT !.held = TRUE])
    BY <1>5 DEF AppendAfter
  <2>2. World
    BY <1>1, <2>1, QuietWorld, LeaseAnswers, StaysWithin
  <2>3. CASE Finishes(w, "release")
    BY <1>1, <2>2, <2>3, FinishesInd
  <2>4. CASE Holds(w, TRUE) /\ Becomes(w, [wk[w] EXCEPT !.held = TRUE])
    <3> DEFINE x == [wk[w] EXCEPT !.held = TRUE]
    <3>1. x \in WorkerType /\ x.pc = pc /\ x.run = r /\ x.attempt = wk[w].attempt /\ x.seen = wk[w].seen
      BY <1>1, <1>4 DEF WorkerType
    <3>2. wk' = [wk EXCEPT ![w] = x]
      BY <2>4 DEF Becomes
    <3>3. queue.lease[r] = w \/ r \in stops' \cup astray'
      BY <1>1, <2>4, LeaseAnswers
    <3> HIDE DEF x
    <3> QED BY <1>1, <1>4, <2>1, <2>2, <3>1, <3>2, <3>3, OutsideBox
  <2> QED BY <2>1, <2>3, <2>4
<1>6. CASE wk[w].held
  <2>1. ~Timid(w)
    BY <1>6 DEF Timid
  <2>2. log' \in {log, [log EXCEPT ![r] = m]} /\ astray' = astray
    BY <1>6 DEF AppendAfter, AppendLost
  <2>3. World /\ (log' = [log EXCEPT ![r] = m] => log'[r] = m)
    BY <1>1, <1>2, <1>3, <2>2, LogWorld, StaysWithin
  <2>4. CASE Abandons(w)
    BY <2>3, <2>4, AbandonsInd
  <2>5. CASE /\ log' = [log EXCEPT ![r] = m]
             /\ CASE result = "Appended" ->
                       IF next = "ack" THEN Finishes(w, "ack")
                       ELSE Becomes(w, [after EXCEPT !.pc = next, !.seen = @ + Len(b)])
                  [] result = "Moved" ->
                       IF wk[w].reloads < Reloads THEN Becomes(w, [after EXCEPT !.pc = "reload", !.reloads = @ + 1])
                       ELSE Finishes(w, "release")
                  [] OTHER -> Finishes(w, "ack")
    <3>1. log'[r] = m
      BY <2>3, <2>5
    <3>2. /\ result = "Appended" => Len(m) = wk[w].seen + Len(b) /\ ~StillWaiting(m)
          /\ result = "Terminal" => Ended(m)
          /\ result = "Appended" /\ b \in EndBatches => Ended(m)
          /\ Len(l) <= Len(m) /\ m \in Seq(LoggedEvent)
      BY <1>2, <1>3, Appended
    <3>3. result \in {"Terminal", "Moved", "Appended"}
      BY <1>3 DEF AppendResult
    <3>4. Len(b) \in Nat
      BY <1>2, BatchFacts
    <3>5. CASE Finishes(w, "release") \/ (Finishes(w, "ack") /\ Ended(m))
      BY <1>1, <2>3, <3>1, <3>5, FinishesInd
    <3>6. /\ after \in WorkerType /\ after.run = r /\ after.attempt = wk[w].attempt
          /\ after.seen = wk[w].seen /\ after.reloads = wk[w].reloads
      BY <1>4 DEF WorkerType
    <3>7. CASE result = "Appended" /\ next # "ack"
                 /\ Becomes(w, [after EXCEPT !.pc = next, !.seen = @ + Len(b)])
      <4> DEFINE x == [after EXCEPT !.pc = next, !.seen = @ + Len(b)]
      <4>1. wk[w].seen + Len(b) \in Nat
        BY <1>4, <3>4
      <4>2. wk' = [wk EXCEPT ![w] = x]
        BY <3>7 DEF Becomes
      <4> HIDE DEF after
      <4>3. x.seen = after.seen + Len(b) /\ x.pc = next /\ x.run = after.run /\ x.attempt = after.attempt
        BY <3>6 DEF WorkerType
      <4>4. /\ x \in WorkerType /\ x.pc = next /\ x.run = r /\ x.attempt = wk[w].attempt
            /\ x.seen = wk[w].seen + Len(b)
        BY <1>2, <3>7, <3>6, <4>1, <4>3 DEF WorkerType, WorkerPcs, BeforeBox
      <4> HIDE DEF x
      <4>5. x.seen <= Len(log'[x.run]) /\ ~StillWaiting(log'[x.run])
        BY <3>1, <3>2, <3>7, <4>1, <4>4
      <4>6. x.pc \in BeforeBox /\ x.pc \notin Unboxed
        BY <1>2, <3>7, <4>4 DEF BeforeBox, Unboxed
      <4> QED BY <1>1, <2>1, <2>3, <4>2, <4>4, <4>5, <4>6, OutsideBox
    <3>8. CASE result = "Moved" /\ wk[w].reloads < Reloads
                 /\ Becomes(w, [after EXCEPT !.pc = "reload", !.reloads = @ + 1])
      <4> DEFINE x == [after EXCEPT !.pc = "reload", !.reloads = @ + 1]
      <4>1. wk[w].reloads + 1 \in Nat
        BY <1>4
      <4>2. wk' = [wk EXCEPT ![w] = x]
        BY <3>8 DEF Becomes
      <4> HIDE DEF after
      <4>3. /\ x.reloads = after.reloads + 1 /\ x.seen = after.seen /\ x.pc = "reload" /\ x.run = after.run
            /\ x.attempt = after.attempt
        BY <3>6 DEF WorkerType
      <4>4. /\ x \in WorkerType /\ x.pc = "reload" /\ x.run = r /\ x.attempt = wk[w].attempt
            /\ x.seen = wk[w].seen
        BY <3>6, <4>1, <4>3 DEF WorkerType, WorkerPcs, BeforeBox
      <4> HIDE DEF x
      <4>5. x.seen <= Len(log'[x.run])
        <5>1. Len(l) \in Nat /\ Len(m) \in Nat
          BY <1>3, <3>2
        <5> QED BY <1>4, <3>1, <3>2, <4>4, <5>1
      <4>6. x.pc \in BeforeBox /\ x.pc \notin Unboxed /\ x.pc \notin Laddered
        BY <4>4 DEF BeforeBox, Unboxed, Laddered, InBox
      <4> QED BY <1>1, <2>1, <2>3, <4>2, <4>4, <4>5, <4>6, OutsideBox
    <3> HIDE DEF result, m, l, r, after
    <3>9. CASE result = "Appended"
      BY <1>2, <2>5, <3>2, <3>5, <3>7, <3>9
    <3>10. CASE result = "Moved"
      BY <2>5, <3>5, <3>8, <3>10
    <3>11. CASE result = "Terminal"
      BY <2>5, <3>2, <3>5, <3>11
    <3> QED BY <3>3, <3>9, <3>10, <3>11
  <2> QED BY <1>6, <2>4, <2>5 DEF AppendAfter
<1> QED BY <1>5, <1>6

\* A ladder that the worker has read is in the log.
LEMMA LadderInd ==
    ASSUME TurnInv, NEW w \in Workers, LogLadder(w), UNCHANGED <<quickVars, sweep>>
    PROVE  TurnInv'
<1> DEFINE r == wk[w].run
<1>1. At(w, "ladder") /\ ~At(w, "idle")
  BY DEF LogLadder, At
<1>2. CASE DispatchQueued(Read(w))
  <2>1. AppendAfter(w, "ladder", <<Plain("RunScheduled")>>, "begin")
    BY <1>2 DEF LogLadder
  <2> QED BY <2>1, AppendInd
<1>3. CASE ~DispatchQueued(Read(w))
  <2>1. Goes(w, "begin") /\ UNCHANGED <<queue, log, host, late, stops, astray>>
    BY <1>3 DEF LogLadder, shared
  <2>2. World
    BY <2>1, QuietWorld, StaysWithin
  <2>3. log[r] \in Seq(LoggedEvent) /\ wk[w].seen \in Nat /\ wk[w].seen <= Len(log[r])
    BY <1>1, WorkerHasRun, WorkerFields DEF TurnInv, TypeInv, SharedType, WorkersOk, WorkerOk, At, BeforeBox
  <2>4. PICK i \in DOMAIN Read(w) : Read(w)[i].type = "RunScheduled"
    BY <1>3 DEF DispatchQueued, Has
  <2>5. i \in DOMAIN log[r] /\ log[r][i] = Read(w)[i]
    BY <2>3, <2>4 DEF Read
  <2>6. ~StillWaiting(log'[r])
    BY <2>1, <2>4, <2>5 DEF StillWaiting
  <2>7. <<wk[w].pc, "begin">> \in PlainMoves
    BY <1>1 DEF PlainMoves, At
  <2> QED BY <2>1, <2>2, <2>6, <2>7, GoesInd
<1> QED BY <1>2, <1>3

LEMMA BegunInd ==
    ASSUME TurnInv, NEW w \in Workers, LogStarted(w), UNCHANGED <<quickVars, sweep>>
    PROVE  TurnInv'
<1>1. At(w, "begin")
  BY DEF LogStarted
<1>2. CASE ~Has(Read(w), {"RunStarted"})
  <2>1. AppendAfter(w, "begin", <<Plain("RunStarted")>>, "stop_begun")
    BY <1>2 DEF LogStarted
  <2> QED BY <2>1, AppendInd
<1>3. CASE Has(Read(w), {"RunStarted"})
  <2>1. Goes(w, "stop_begun") /\ UNCHANGED <<queue, log, host, late, stops, astray>>
    BY <1>3 DEF LogStarted, shared
  <2>2. World
    BY <2>1, QuietWorld, StaysWithin
  <2>3. <<wk[w].pc, "stop_begun">> \in PlainMoves
    BY <1>1 DEF PlainMoves, At
  <2> QED BY <2>1, <2>2, <2>3, GoesInd
<1> QED BY <1>2, <1>3

LEMMA ReloadInd ==
    ASSUME TurnInv, NEW w \in Workers, Reload(w), UNCHANGED <<quickVars, sweep>>
    PROVE  TurnInv'
<1> DEFINE r == wk[w].run
           x == [wk[w] EXCEPT !.pc = "stop", !.seen = Len(log[r])]
<1>1. At(w, "reload") /\ ~At(w, "idle") /\ UNCHANGED <<queue, log, host, late, stops, astray>>
  BY DEF Reload, At, others
<1>2. World
  BY <1>1, QuietWorld, StaysWithin
<1>3. CASE Abandons(w)
  BY <1>2, <1>3, AbandonsInd
<1>4. CASE Ended(log[r]) /\ Finishes(w, "ack")
  BY <1>1, <1>2, <1>4, FinishesInd
<1>5. CASE Becomes(w, x)
  <2>1. Len(log[r]) \in Nat /\ wk[w] \in WorkerType
    BY <1>1, WorkerHasRun, SharedFields, WorkerFields DEF TurnInv, TypeInv
  <2>2. x \in WorkerType /\ x.pc = "stop" /\ x.run = r /\ x.attempt = wk[w].attempt /\ x.seen = Len(log[r])
    BY <2>1 DEF WorkerType, WorkerPcs, BeforeBox
  <2>3. wk' = [wk EXCEPT ![w] = x]
    BY <1>5 DEF Becomes
  <2> HIDE DEF x
  <2>4. x.seen <= Len(log'[x.run])
    BY <1>1, <2>1, <2>2
  <2>5. wk[w].pc \in BeforeBox /\ x.pc \in BeforeBox /\ x.pc \notin Unboxed \cup Laddered /\ ~Timid(w)
    BY <1>1, <2>2 DEF BeforeBox, Unboxed, Laddered, InBox, Timid, At
  <2> QED BY <1>2, <2>2, <2>3, <2>4, <2>5, OutsideBox
<1> QED BY <1>3, <1>4, <1>5 DEF Reload

LEMMA RereadInd ==
    ASSUME TurnInv, NEW w \in Workers, Reread(w), UNCHANGED <<quickVars, sweep>>
    PROVE  TurnInv'
<1>1. At(w, "reread") /\ ~At(w, "idle") /\ UNCHANGED <<queue, log, host, late, stops, astray>>
  BY DEF Reread, At, others
<1>2. World
  BY <1>1, QuietWorld, StaysWithin
<1>3. CASE Abandons(w)
  BY <1>2, <1>3, AbandonsInd
<1>4. CASE Ended(log[wk[w].run]) /\ Finishes(w, "ack")
  BY <1>1, <1>2, <1>4, FinishesInd
<1>5. CASE Goes(w, IF IsBox(w) THEN "enter" ELSE "tail")
  <2>1. CASE IsBox(w)
    <3>1. <<wk[w].pc, "enter">> \in PlainMoves
      BY <1>1 DEF PlainMoves, At
    <3> QED BY <1>2, <1>5, <2>1, <3>1, GoesInd DEF IsBox
  <2>2. CASE ~IsBox(w)
    <3>1. <<wk[w].pc, "tail">> \in PlainMoves
      BY <1>1 DEF PlainMoves, At
    <3> QED BY <1>2, <1>5, <2>2, <3>1, GoesInd DEF IsBox
  <2> QED BY <2>1, <2>2
<1> QED BY <1>3, <1>4, <1>5 DEF Reread

(***************************************************************************)
(* A worker without a box                                                  *)
(***************************************************************************)
\* An end is appended to what the log is.
LEMMA EndWorld ==
    ASSUME TurnInv, UNCHANGED <<queue, host, late, stops, astray>>, NEW r \in Runs,
           NEW b \in EndBatches,
           log' \in {log, [log EXCEPT ![r] = AppendEvents(log[r], b)]}
    PROVE  /\ World
           /\ log' = [log EXCEPT ![r] = AppendEvents(log[r], b)] /\ log[r] # <<>> => Ended(log'[r])
           /\ log'[r] # log[r] =>
                /\ Ended(log'[r]) /\ log'[r] # <<>> /\ ~Ended(log[r])
                /\ Last(log'[r]) = b[Len(b)]
           /\ \A s \in Runs : s # r => log'[s] = log[s]
<1> DEFINE m == AppendEventsAfter(log[r], Len(log[r]), b)
<1>1. b \in Batches /\ log[r] \in Seq(LoggedEvent)
  BY DEF Batches, TurnInv, TypeInv, SharedType
<1>2. /\ World /\ log'[r] \in {log[r], m}
      /\ log' = [log EXCEPT ![r] = m] => log'[r] = m
      /\ \A s \in Runs : s # r => log'[s] = log[s]
  BY <1>1, LogWorld, StaysWithin DEF AppendEvents
<1>3. /\ log[r] # <<>> => Ended(m)
      /\ m # log[r] => Ended(m) /\ m # <<>> /\ m[Len(m)] = b[Len(b)] /\ ~Ended(log[r])
  BY <1>1, Appended
<1> QED BY <1>2, <1>3 DEF AppendEvents, Last

LEMMA FinishInd ==
    ASSUME TurnInv, NEW w \in Workers, FinishTurn(w), UNCHANGED <<quickVars, sweep>>
    PROVE  TurnInv'
<1> DEFINE r == wk[w].run
<1>1. At(w, "tail") /\ ~At(w, "idle") /\ UNCHANGED <<queue, host, late, stops, astray>>
  BY DEF FinishTurn, At, others
<1>2. r \in Runs /\ log[r] # <<>> /\ Completion \in EndBatches /\ Failure \in EndBatches
  BY <1>1, WorkerHasRun DEF EndBatches
<1>3. CASE log' = [log EXCEPT ![r] = AppendEvents(log[r], Completion)] /\ Finishes(w, "ack")
  BY <1>1, <1>2, <1>3, EndWorld, FinishesInd
<1>4. CASE (EndLost(r, Completion) \/ EndLost(r, Failure)) /\ Goes(w, "failed")
  <2>1. PICK b \in {Completion, Failure} : EndLost(r, b)
    BY <1>4
  <2>2. World
    BY <1>1, <1>2, <2>1, EndWorld DEF EndLost, AppendLost, AppendEvents
  <2>3. <<wk[w].pc, "failed">> \in PlainMoves
    BY <1>1 DEF PlainMoves, At
  <2> QED BY <1>4, <2>2, <2>3, GoesInd
<1> QED BY <1>3, <1>4 DEF FinishTurn

LEMMA FailedInd ==
    ASSUME TurnInv, NEW w \in Workers, FailedTurn(w), UNCHANGED <<quickVars, sweep>>
    PROVE  TurnInv'
<1>1. ~At(w, "idle") /\ UNCHANGED <<queue, log, host, late, stops, astray>>
  BY DEF FailedTurn, At, others
<1>2. World
  BY <1>1, QuietWorld, StaysWithin
<1>3. CASE Abandons(w)
  BY <1>2, <1>3, AbandonsInd
<1>4. CASE Ended(log[wk[w].run]) /\ Finishes(w, "ack")
  BY <1>1, <1>2, <1>4, FinishesInd
<1> QED BY <1>3, <1>4 DEF FailedTurn

(***************************************************************************)
(* A worker and the host                                                   *)
(***************************************************************************)
HostType == [up : SUBSET Sandboxes, volumes : SUBSET Boxes]

LEMMA ProvisionAnswers ==
    ASSUME host \in HostType, NEW n \in Sandboxes, n[1] \in Boxes,
           NEW a \in Provision(host, n) \cup ProvisionFails(host, n)
    PROVE  /\ a.host \in HostType
           /\ host.up \ {n} \subseteq a.host.up /\ a.host.up \subseteq host.up \cup {n}
           /\ a.ok => n \in a.host.up
<1>1. /\ With(host, n) \in HostType /\ With(host, n).up = host.up \cup {n}
  BY DEF With, RunOf, HostType
<1>2. /\ Without(With(host, n), n) \in HostType
      /\ Without(With(host, n), n).up = (host.up \cup {n}) \ {n}
  BY <1>1 DEF Without, HostType
<1>3. /\ a.host \in {host, With(host, n), Without(With(host, n), n)}
      /\ a.ok => a.host = With(host, n)
  BY DEF Provision, ProvisionFails, Answer
<1> QED BY <1>1, <1>2, <1>3

LEMMA DestroyAnswers ==
    ASSUME host \in HostType, NEW n, NEW a \in Destroy(host, n) \cup DestroyFails(host, n)
    PROVE  /\ a.host \in HostType
           /\ host.up \ {n} \subseteq a.host.up /\ a.host.up \subseteq host.up
           /\ a.ok => n \notin a.host.up
<1>1. Without(host, n) \in HostType /\ Without(host, n).up = host.up \ {n}
  BY DEF Without, HostType
<1>2. /\ a.host \in {host, Without(host, n)}
      /\ a.ok => a.host = Without(host, n) \/ (a.host = host /\ n \notin host.up)
  BY DEF Destroy, DestroyFails, Answer
<1> QED BY <1>1, <1>2

\* A worker that ends the turn, or its sandbox, removes no sandbox of a holder
\* of the lease whose turn is not overtaken: that one's attempt is its own or an
\* earlier one, and it is not about to find its lease lost.
LEMMA RemovesItsOwn ==
    ASSUME TurnInv, NEW u \in Workers,
           wk[u].pc \in {"provision", "drop", "destroy"},
           NEW w \in Workers, Holder(w),
           wk[w].run = wk[u].run, wk[w].attempt <= wk[u].attempt
    PROVE  Overtaken(wk[w].run, wk[w].attempt)
<1> DEFINE r == wk[w].run
<1>1. w # u /\ ~At(w, "idle") /\ ~At(u, "idle") /\ wk[w].pc \in InBox
  BY DEF Holder, At, InBox
<1>2. /\ wk[w].attempt \in Nat /\ wk[u].attempt \in Nat /\ wk[w].attempt <= MaxDeliveries
      /\ MaxDeliveries \in Nat /\ r \in Runs /\ queue.deliveries[r] \in Nat
  BY <1>1, WorkerHasRun, WorkerFields, SharedFields DEF TurnInv, TypeInv, TurnConstants
<1>3. wk[w].attempt >= 1 /\ wk[u].attempt >= 1
  BY <1>1, <1>2 DEF TurnInv, WorkersOk, WorkerOk
<1>4. ~Ended(log[r]) /\ queue.lease[r] = w /\ OnOneTurn(w, u)
  BY <1>3 DEF Holder, OnOneTurn
<1>5. Apart(w, u) /\ Counted(u)
  BY <1>1 DEF TurnInv, WorkersOk
<1>6. wk[u].attempt <= queue.deliveries[r]
  BY <1>1, <1>4, <1>5 DEF Counted
<1>7. CASE wk[w].attempt = wk[u].attempt
  <2>1. queue.deliveries[r] > MaxDeliveries
    BY <1>4, <1>5, <1>7 DEF Apart
  <2>2. queue.deliveries[r] > wk[w].attempt
    BY <1>2, <2>1
  <2> QED BY <2>1, <2>2 DEF Overtaken
<1>8. CASE wk[w].attempt # wk[u].attempt
  <2>1. wk[u].attempt > wk[w].attempt /\ queue.deliveries[r] > wk[w].attempt
    BY <1>2, <1>6, <1>8
  <2>2. ~Timid(u)
    BY DEF Timid
  <2>3. Exempt(r)
    BY <1>4, <1>5, <2>1, <2>2 DEF Apart
  <2> QED BY <2>1, <2>3 DEF Overtaken, Exempt
<1> QED BY <1>7, <1>8

\* The removal of a sandbox.
LEMMA RemovalWorld ==
    ASSUME TurnInv, UNCHANGED <<queue, log, late, stops, astray>>, NEW n \in Sandboxes,
           NEW a \in Destroy(host, n) \cup DestroyFails(host, n), host' = a.host,
           \A w \in Workers : Holder(w) /\ wk'[w] = wk[w] /\ Name(wk[w].run, wk[w].attempt) = n
                => Overtaken(wk[w].run, wk[w].attempt)
    PROVE  World /\ host'.up \subseteq host.up /\ (a.ok => n \notin host'.up)
<1>1. /\ host' \in HostType
      /\ host.up \ {n} \subseteq host'.up /\ host'.up \subseteq host.up
      /\ a.ok => n \notin host'.up
  BY DestroyAnswers DEF TurnInv, TypeInv, SharedType, HostType
<1>2. SharedType'
  BY <1>1 DEF TurnInv, TypeInv, SharedType, HostType
<1>3. BoxesKept
  BY <1>1 DEF BoxesKept
<1> QED BY <1>1, <1>2, <1>3, LogsStand, QueueStands, StaysWithin DEF World, TurnInv, TypeInv

LEMMA ProvisionInd ==
    ASSUME TurnInv, NEW w \in Workers, ProvisionBox(w), UNCHANGED <<quickVars, sweep>>
    PROVE  TurnInv'
<1> DEFINE r == wk[w].run
           k == wk[w].attempt
           n == Name(r, k)
<1>1. wk[w].pc = "provision" /\ ~At(w, "idle") /\ wk[w].pc \in InBox
      /\ UNCHANGED <<queue, log, stops, astray>>
  BY DEF ProvisionBox, At, InBox
<1>2. r \in Runs /\ r \in Background /\ r \in Boxes /\ ~StillWaiting(log[r]) /\ k >= 1
  BY <1>1, WorkerHasRun DEF TurnInv, WorkersOk, WorkerOk, Laddered
<1>3. k \in 0..MaxDeliveries /\ k \in Nat /\ MaxDeliveries \in Nat
  BY WorkerFields DEF TurnInv, TypeInv, TurnConstants
<1>4. n[1] = r /\ n[2] = k /\ n \in Sandboxes /\ n \in Runs \X (1..MaxDeliveries)
  BY <1>2, <1>3 DEF Name, Sandboxes
<1> HIDE DEF n
<1>5. PICK a \in Provision(host, n) \cup ProvisionFails(host, n) :
        /\ host' = a.host
        /\ late' = IF n \in a.host.up /\ n \notin host.up /\ FoundGone(n) THEN late \cup {n} ELSE late
        /\ IF a.ok THEN Goes(w, "made") ELSE EndBox(w, Failure)
  BY DEF ProvisionBox, n
<1>6. /\ host' \in HostType
      /\ host.up \ {n} \subseteq host'.up /\ host'.up \subseteq host.up \cup {n}
      /\ a.ok => n \in host'.up
  BY <1>2, <1>4, <1>5, ProvisionAnswers DEF TurnInv, TypeInv, SharedType, HostType
<1>7. late \subseteq late' /\ late' \subseteq late \cup {n}
  BY <1>5
<1>8. SharedType'
  BY <1>1, <1>4, <1>6, <1>7 DEF TurnInv, TypeInv, SharedType, HostType
<1>9. BoxesKept
  <2>1. ASSUME NEW m \in host'.up, m \notin host.up
        PROVE  (FoundGone(m) => m \in late') /\ SandboxOk(m)' /\ m[2] >= 1
    <3>1. m = n
      BY <1>6, <2>1
    <3>2. FoundGone(m) => m \in late'
      BY <1>5, <2>1, <3>1
    <3> QED BY <1>1, <1>2, <1>4, <3>1, <3>2 DEF SandboxOk
  <2>2. ASSUME NEW v \in Workers, Holder(v), Name(wk[v].run, wk[v].attempt) \in host.up
        PROVE  Name(wk[v].run, wk[v].attempt) \in host'.up \/ Overtaken(wk[v].run, wk[v].attempt)
    <3>1. CASE Name(wk[v].run, wk[v].attempt) # n
      BY <1>6, <2>2, <3>1
    <3>2. CASE Name(wk[v].run, wk[v].attempt) = n
      <4>1. wk[v].run = r /\ wk[v].attempt = k
        BY <3>2 DEF Name, n
      <4> QED BY <1>1, <1>3, <2>2, <4>1, RemovesItsOwn
    <3> QED BY <3>1, <3>2
  <2> QED BY <1>7, <2>1, <2>2 DEF BoxesKept
<1>10. World
  BY <1>1, <1>8, <1>9, LogsStand, QueueStands, StaysWithin DEF World, TurnInv, TypeInv
<1>11. CASE a.ok
  <2>1. <<wk[w].pc, "made">> \in PlainMoves
    BY <1>1 DEF PlainMoves
  <2> QED BY <1>1, <1>5, <1>6, <1>10, <1>11, <2>1, GoesInd DEF n
<1>12. CASE ~a.ok
  <2>1. ~Timid(w) /\ Failure \in EndBatches
    BY <1>1 DEF Timid, EndBatches
  <2> QED BY <1>1, <1>2, <1>5, <1>10, <1>12, <2>1, EndBoxInd
<1> QED BY <1>11, <1>12

\* The gateway is called in the sandbox, and answers or fails.
LEMMA CallInd ==
    ASSUME TurnInv, NEW w \in Workers, CallGateway(w), UNCHANGED <<quickVars, sweep>>
    PROVE  TurnInv'
<1> DEFINE r == wk[w].run
<1>1. wk[w].pc = "call" /\ ~At(w, "idle") /\ UNCHANGED <<queue, log, host, late, stops, astray>>
  BY DEF CallGateway, At, others
<1>2. World
  BY <1>1, QuietWorld, StaysWithin
<1>3. PICK end \in {Completion, Failure} : Becomes(w, [wk[w] EXCEPT !.pc = "called", !.end = end])
  BY DEF CallGateway
<1> DEFINE x == [wk[w] EXCEPT !.pc = "called", !.end = end]
<1>4. end \in EndBatches /\ wk[w] \in WorkerType
  BY WorkerFields DEF EndBatches, TurnInv
<1>5. x \in WorkerType /\ x.pc = "called" /\ x.end = end /\ x.run = r /\ x.attempt = wk[w].attempt
      /\ x.seen = wk[w].seen /\ x.todo = wk[w].todo
  BY <1>4 DEF WorkerType, WorkerPcs, InBox
<1>6. wk' = [wk EXCEPT ![w] = x]
  BY <1>3 DEF Becomes
<1> HIDE DEF x
<1>7. wk'[w] = x
  BY <1>6 DEF TurnInv, TypeInv, ThreadsType
<1>8. "call" \in InBox /\ "called" \in InBox /\ "called" \in Laddered /\ "call" \in Laddered
      /\ "called" \notin {"idle"} \cup ToStart \cup Leaving \cup BeforeBox \cup Unboxed \cup Ending
      /\ "call" \notin {"idle"} \cup ToStart \cup Leaving \cup BeforeBox \cup Unboxed \cup Ending
  BY DEF InBox, Laddered, ToStart, Leaving, BeforeBox, Unboxed, Ending
<1>9. WorkerOk(w) /\ HasBox(w)
  BY DEF TurnInv, WorkersOk
<1>10. WorkerOk(w)'
  BY <1>1, <1>4, <1>5, <1>7, <1>8, <1>9 DEF WorkerOk, At
<1>11. Cleaned(w)'
  BY <1>5, <1>7, <1>8 DEF Cleaned
<1>12. Holder(w)' => Holder(w)
  BY <1>1, <1>5, <1>7 DEF Holder
<1>13. HasBox(w)'
  <2>1. Name(r, wk[w].attempt) \in host.up => Name(x.run, x.attempt) \in host'.up
    BY <1>1, <1>5
  <2>2. Holder(w)' => Name(x.run, x.attempt) \in host'.up
                      \/ (/\ queue'.deliveries[x.run] > x.attempt
                          /\ x.run \in stops' \cup astray' \/ queue'.deliveries[x.run] > MaxDeliveries)
    BY <1>1, <1>5, <1>9, <1>12, <2>1 DEF HasBox, Overtaken
  <2> QED BY <1>7, <2>2 DEF HasBox, Overtaken
<1>14. ~Timid(w)
  BY <1>1 DEF Timid
<1> QED BY <1>1, <1>2, <1>5, <1>6, <1>10, <1>11, <1>13, <1>14, GoesOn

LEMMA CalledInd ==
    ASSUME TurnInv, NEW w \in Workers, CheckCalled(w), UNCHANGED <<quickVars, sweep>>
    PROVE  TurnInv'
<1>1. /\ wk[w].pc = "called" /\ ~At(w, "idle") /\ wk[w].pc \in InBox
      /\ UNCHANGED <<queue, log, host, late, stops>>
  BY DEF CheckCalled, At, InBox
<1>2. wk[w].run \in Boxes /\ wk[w].end \in EndBatches
  BY <1>1 DEF TurnInv, WorkersOk, WorkerOk
<1>3. World
  <2>1. \E answer \in BOOLEAN : Holds(w, answer)
    BY DEF CheckCalled
  <2> QED BY <1>1, <2>1, QuietWorld, LeaseAnswers, StaysWithin
<1>4. CASE EndBox(w, wk[w].end)
  <2>1. ~Timid(w)
    BY <1>1 DEF Timid
  <2> QED BY <1>1, <1>2, <1>3, <1>4, <2>1, EndBoxInd
<1>5. CASE Goes(w, "drop")
  <2>1. <<wk[w].pc, "drop">> \in PlainMoves
    BY <1>1 DEF PlainMoves
  <2> QED BY <1>1, <1>3, <1>5, <2>1, GoesInd
<1> QED BY <1>4, <1>5 DEF CheckCalled

\* A worker that lost its lease removes the sandbox of its own attempt.
LEMMA DropInd ==
    ASSUME TurnInv, NEW w \in Workers, DropOwn(w), UNCHANGED <<quickVars, sweep>>
    PROVE  TurnInv'
<1> DEFINE r == wk[w].run
           k == wk[w].attempt
           n == Name(r, k)
<1>1. wk[w].pc = "drop" /\ ~At(w, "idle") /\ UNCHANGED <<queue, log, late, stops, astray>>
  BY DEF DropOwn, At, others
<1>2. r \in Runs /\ k \in Nat /\ n \in Sandboxes
  BY <1>1, WorkerHasRun, WorkerFields DEF Name, Sandboxes, TurnInv
<1> HIDE DEF n
<1>3. PICK a \in Destroy(host, n) \cup DestroyFails(host, n) : host' = a.host
  BY DEF DropOwn, n
<1>4. ASSUME NEW v \in Workers, Holder(v), Name(wk[v].run, wk[v].attempt) = n
      PROVE  Overtaken(wk[v].run, wk[v].attempt)
  <2>1. wk[v].run = r /\ wk[v].attempt = k
    BY <1>4 DEF Name, n
  <2> QED BY <1>1, <1>2, <1>4, <2>1, RemovesItsOwn
<1>5. World
  BY <1>1, <1>2, <1>3, <1>4, RemovalWorld
<1> QED BY <1>1, <1>5, FinishesInd DEF DropOwn

LEMMA LeastNatural ==
    ASSUME NEW T, T \subseteq Nat, T # {}
    PROVE  \E n \in T : \A m \in T : n <= m
<1> DEFINE R == {ss \in Nat \X Nat : ss[1] < ss[2]}
<1>1. IsWellFoundedOn(R, Nat)
  BY NatLessThanWellFounded DEF OpToRel
<1>2. PICK n \in T : \A m \in T : ~(<<m, n>> \in R)
  <2> HIDE DEF R
  <2> QED BY <1>1, WFMin
<1>3. ASSUME NEW m \in T PROVE n <= m
  <2>1. <<m, n>> \notin R /\ m \in Nat /\ n \in Nat
    BY <1>2
  <2> QED BY <2>1
<1> QED BY <1>3

LEMMA FirstIsToDo ==
    ASSUME TurnInv, NEW w \in Workers, wk[w].todo # {}
    PROVE  FirstOf(w) \in wk[w].todo
<1> DEFINE T == {n[2] : n \in wk[w].todo}
<1>1. wk[w].todo \subseteq Runs \X (1..MaxDeliveries) /\ MaxDeliveries \in Nat
  BY WorkerFields DEF TurnInv, TypeInv, TurnConstants
<1>2. T \subseteq Nat /\ T # {}
  BY <1>1
<1>3. PICK k \in T : \A j \in T : k <= j
  <2> HIDE DEF T
  <2> QED BY <1>2, LeastNatural
<1>4. \E n \in wk[w].todo : \A j \in wk[w].todo : n[2] <= j[2]
  BY <1>3
<1> QED BY <1>4, Zenon DEF FirstOf

\* One sandbox less to remove.
LEMMA OneLessInd ==
    ASSUME TurnInv, World, UNCHANGED <<quickVars, sweep>>, UNCHANGED <<host, late>>, NEW w \in Workers,
           wk[w].pc \in {"clean", "confirm"}, NEW n, n \notin host.up,
           NEW x \in WorkerType, wk' = [wk EXCEPT ![w] = x], x.pc = "clean", x.run = wk[w].run,
           x.attempt = wk[w].attempt, x.end = wk[w].end, x.todo = wk[w].todo \ {n}
    PROVE  TurnInv'
<1>1. wk'[w] = x
  BY DEF TurnInv, TypeInv, ThreadsType
<1>2. /\ "clean" \in Ending \ {"end"} /\ wk[w].pc \in Ending \ {"end"} /\ ~At(w, "idle")
      /\ "clean" \notin {"idle"} \cup ToStart \cup Leaving \cup BeforeBox \cup InBox \cup Unboxed \cup Laddered
      /\ ~Timid(w)
  BY DEF At, ToStart, Leaving, BeforeBox, InBox, Unboxed, Laddered, Ending, Timid
<1>3. WorkerOk(w) /\ Cleaned(w)
  BY DEF TurnInv, WorkersOk
<1>4. wk[w].run \in Background /\ log'[wk[w].run] # <<>>
  BY <1>2, WorkerHasRun DEF World, LogsKept
<1>5. WorkerOk(w)'
  BY <1>1, <1>2, <1>3, <1>4 DEF WorkerOk, At
<1>6. Cleaned(w)'
  BY <1>1, <1>2, <1>3 DEF Cleaned
<1>7. HasBox(w)'
  BY <1>1 DEF HasBox, Holder
<1> QED BY <1>2, <1>5, <1>6, <1>7, GoesOn

LEMMA CleanInd ==
    ASSUME TurnInv, NEW w \in Workers, CleanBox(w), UNCHANGED <<quickVars, sweep>>
    PROVE  TurnInv'
<1>1. wk[w].pc = "clean" /\ UNCHANGED <<queue, log, host, late, stops, astray>>
  BY DEF CleanBox, At, others
<1>2. World
  BY <1>1, QuietWorld, StaysWithin
<1>3. CASE wk[w].todo = {}
  <2>1. <<wk[w].pc, "gone">> \in PlainMoves /\ Goes(w, "gone")
    BY <1>1, <1>3 DEF PlainMoves, CleanBox
  <2> QED BY <1>2, <1>3, <2>1, GoesInd
<1>4. CASE wk[w].todo # {} /\ Goes(w, "destroy")
  <2>1. <<wk[w].pc, "destroy">> \in PlainMoves
    BY <1>1 DEF PlainMoves
  <2> QED BY <1>2, <1>4, <2>1, GoesInd
<1>5. CASE ConfirmsAbsent(FirstOf(w), TRUE) /\ Becomes(w, [wk[w] EXCEPT !.todo = @ \ {FirstOf(w)}])
  <2> DEFINE n == FirstOf(w)
             x == [wk[w] EXCEPT !.todo = @ \ {n}]
  <2>1. n \notin host.up
    BY <1>5 DEF ConfirmsAbsent, Absent
  <2>2. wk' = [wk EXCEPT ![w] = x]
    BY <1>5 DEF Becomes
  <2> HIDE DEF n
  <2>3. /\ x \in WorkerType /\ x.pc = "clean" /\ x.run = wk[w].run /\ x.attempt = wk[w].attempt
        /\ x.end = wk[w].end /\ x.todo = wk[w].todo \ {n}
    BY <1>1, WorkerFields DEF WorkerType, TurnInv
  <2> HIDE DEF x
  <2> QED BY <1>1, <1>2, <2>1, <2>2, <2>3, OneLessInd
<1> QED BY <1>3, <1>4, <1>5 DEF CleanBox

LEMMA DestroyInd ==
    ASSUME TurnInv, NEW w \in Workers, DestroyBox(w), UNCHANGED <<quickVars, sweep>>
    PROVE  TurnInv'
<1> DEFINE r == wk[w].run
           n == FirstOf(w)
<1>1. wk[w].pc = "destroy" /\ wk[w].pc \in Ending /\ ~At(w, "idle")
      /\ UNCHANGED <<queue, log, late, stops, astray>>
  BY DEF DestroyBox, At, others, Ending
<1>2. n \in wk[w].todo /\ n[1] = r /\ n[2] <= wk[w].attempt
  BY <1>1, FirstIsToDo DEF TurnInv, WorkersOk, WorkerOk
<1>3. wk[w].todo \subseteq Runs \X (1..MaxDeliveries) /\ MaxDeliveries \in Nat
  BY WorkerFields DEF TurnInv, TypeInv, TurnConstants
<1> HIDE DEF n
<1>4. n \in Sandboxes
  BY <1>2, <1>3 DEF Sandboxes
<1>5. PICK a \in Destroy(host, n) \cup DestroyFails(host, n) :
        host' = a.host /\ IF a.ok THEN Goes(w, "confirm") ELSE Abandons(w)
  BY DEF DestroyBox, n
<1>6. ASSUME NEW v \in Workers, Holder(v), Name(wk[v].run, wk[v].attempt) = n
      PROVE  Overtaken(wk[v].run, wk[v].attempt)
  <2>1. wk[v].run = r /\ wk[v].attempt <= wk[w].attempt
    BY <1>2, <1>6 DEF Name
  <2> QED BY <1>1, <1>6, <2>1, RemovesItsOwn
<1>7. World
  BY <1>1, <1>4, <1>5, <1>6, RemovalWorld
<1>8. CASE a.ok
  <2>1. <<wk[w].pc, "confirm">> \in PlainMoves
    BY <1>1 DEF PlainMoves
  <2> QED BY <1>5, <1>7, <1>8, <2>1, GoesInd
<1>9. CASE ~a.ok
  BY <1>5, <1>7, <1>9, AbandonsInd
<1> QED BY <1>8, <1>9

LEMMA ConfirmInd ==
    ASSUME TurnInv, NEW w \in Workers, ConfirmGone(w), UNCHANGED <<quickVars, sweep>>
    PROVE  TurnInv'
<1>1. wk[w].pc = "confirm" /\ UNCHANGED <<queue, log, host, late, stops, astray>>
  BY DEF ConfirmGone, At, others
<1>2. World
  BY <1>1, QuietWorld, StaysWithin
<1>3. CASE Abandons(w)
  BY <1>2, <1>3, AbandonsInd
<1>4. CASE /\ ConfirmsAbsent(FirstOf(w), TRUE)
           /\ Becomes(w, [wk[w] EXCEPT !.pc = "clean", !.todo = @ \ {FirstOf(w)}])
  <2> DEFINE n == FirstOf(w)
             x == [wk[w] EXCEPT !.pc = "clean", !.todo = @ \ {n}]
  <2>1. n \notin host.up
    BY <1>4 DEF ConfirmsAbsent, Absent
  <2>2. wk' = [wk EXCEPT ![w] = x]
    BY <1>4 DEF Becomes
  <2> HIDE DEF n
  <2>3. /\ x \in WorkerType /\ x.pc = "clean" /\ x.run = wk[w].run /\ x.attempt = wk[w].attempt
        /\ x.end = wk[w].end /\ x.todo = wk[w].todo \ {n}
    BY WorkerFields DEF WorkerType, WorkerPcs, Ending, TurnInv
  <2> HIDE DEF x
  <2> QED BY <1>1, <1>2, <2>1, <2>2, <2>3, OneLessInd
<1> QED BY <1>3, <1>4 DEF ConfirmGone

LEMMA StoreInd ==
    ASSUME TurnInv, NEW w \in Workers, StoreEnd(w), UNCHANGED <<quickVars, sweep>>
    PROVE  TurnInv'
<1> DEFINE r == wk[w].run
           b == wk[w].end
<1>1. wk[w].pc = "end" /\ ~At(w, "idle") /\ UNCHANGED <<queue, host, late, stops, astray>>
  BY DEF StoreEnd, At, others
<1>2. r \in Runs /\ log[r] # <<>> /\ b \in EndBatches
  BY <1>1, WorkerHasRun DEF TurnInv, WorkersOk, WorkerOk, Ending
<1>3. CASE log' = [log EXCEPT ![r] = AppendEvents(log[r], b)] /\ Finishes(w, "ack")
  BY <1>1, <1>2, <1>3, EndWorld, FinishesInd
<1>4. CASE EndLost(r, b) /\ Abandons(w)
  <2>1. World
    BY <1>1, <1>2, <1>4, EndWorld DEF EndLost, AppendLost, AppendEvents
  <2> QED BY <1>4, <2>1, AbandonsInd
<1> QED BY <1>3, <1>4 DEF StoreEnd

LEMMA AckInd ==
    ASSUME TurnInv, NEW w \in Workers, AckTurn(w), UNCHANGED <<quickVars, sweep>>
    PROVE  TurnInv'
<1> DEFINE r == wk[w].run
<1>1. wk[w].pc \in {"ack", "release"} /\ ~At(w, "idle") /\ UNCHANGED <<log, host, late, stops, astray>>
      /\ Abandons(w)
  BY DEF AckTurn, At, others
<1>2. r \in Runs /\ r \in Background /\ log[r] # <<>> /\ NoRun \notin Runs /\ NoLease \notin Workers
  BY <1>1, WorkerHasRun, SharedAssumption, QueueAssumption
<1>3. CASE queue' = queue
  BY <1>1, <1>3, QuietWorld, StaysWithin, AbandonsInd
<1>4. CASE wk[w].pc = "ack" /\ queue' = Ack(queue, r, w)
  <2>1. Follows(queue, queue', NoRun, r, NoLease)
    BY <1>2, <1>4, Acked, StaysWithin
  <2>2. Ended(log[r])
    BY <1>4 DEF TurnInv, WorkersOk, WorkerOk, At
  <2>3. World
    BY <1>1, <1>2, <2>1, <2>2, QueueWorld
  <2> QED BY <1>1, <2>3, AbandonsInd
<1>5. CASE queue' = Release(queue, r, w)
  <2>1. Follows(queue, queue', r, NoRun, NoLease)
    BY <1>2, <1>5, Released, StaysWithin
  <2>2. World
    BY <1>1, <1>2, <2>1, QueueWorld
  <2> QED BY <1>1, <2>2, AbandonsInd
<1> QED BY <1>1, <1>3, <1>4, <1>5 DEF AckTurn, At

(***************************************************************************)
(* Deaths, leases, the reaper and stops                                    *)
(***************************************************************************)
LEMMA DiesInd ==
    ASSUME TurnInv, NEW w \in Workers, WorkerDies(w), UNCHANGED <<quickVars, sweep>>
    PROVE  TurnInv'
<1>1. World
  BY QuietWorld, StaysWithin DEF WorkerDies, others
<1> QED BY <1>1, AbandonsInd DEF WorkerDies

LEMMA ExpiresInd ==
    ASSUME TurnInv, NEW r \in Runs, TurnLeaseExpires(r), UNCHANGED <<quickVars, sweep>>
    PROVE  TurnInv'
<1>1. wk' = wk /\ queue' = LeaseExpires(queue, r) /\ UNCHANGED <<log, host, late, stops, astray>>
  BY DEF TurnLeaseExpires, others
<1>2. Follows(queue, queue', NoRun, NoRun, NoLease) /\ NoRun \notin Runs /\ NoLease \notin Workers
  BY <1>1, Expired, StaysWithin, SharedAssumption, QueueAssumption
<1>3. World
  BY <1>1, <1>2, QueueWorld
<1> QED BY <1>1, <1>3, NoneMoves

LEMMA ReapInd ==
    ASSUME TurnInv, ReapTurns, UNCHANGED <<quickVars, sweep>>
    PROVE  TurnInv'
<1>1. wk' = wk /\ UNCHANGED <<log, host, late, stops, astray>>
  BY DEF ReapTurns, others
<1>2. PICK order \in ReapOrders(queue) : queue' = Reap(queue, order)
  BY DEF ReapTurns
<1>3. Follows(queue, queue', NoRun, NoRun, NoLease) /\ NoRun \notin Runs /\ NoLease \notin Workers
  BY <1>2, Reaped, StaysWithin, SharedAssumption, QueueAssumption
<1>4. World
  BY <1>1, <1>3, QueueWorld
<1> QED BY <1>1, <1>4, NoneMoves

LEMMA StopInd ==
    ASSUME TurnInv, NEW r \in Runs, PutStop(r) \/ StopQueued(r), UNCHANGED <<quickVars, sweep>>
    PROVE  TurnInv'
<1>1. CASE PutStop(r)
  <2>1. wk' = wk /\ UNCHANGED <<queue, log, host, late, astray>> /\ stops' = stops \cup {r}
    BY <1>1 DEF PutStop
  <2>2. World
    BY <2>1, QuietWorld, StaysWithin
  <2> QED BY <2>1, <2>2, NoneMoves
<1>2. CASE StopQueued(r)
  <2>1. wk' = wk /\ UNCHANGED <<queue, host, late, stops, astray>>
        /\ log' = [log EXCEPT ![r] = AppendEventsAfter(log[r], Len(log[r]), Cancellation)]
    BY <1>2 DEF StopQueued, others, AppendEvents
  <2>2. Cancellation \in Batches
    BY DEF Batches, EndBatches
  <2>3. World
    BY <2>1, <2>2, LogWorld, StaysWithin
  <2> QED BY <2>1, <2>3, NoneMoves
<1> QED BY <1>1, <1>2

LEMMA QueuedInd == ASSUME TurnInv, Queued PROVE TurnInv'
<1>1. UNCHANGED <<quickVars, sweep>>
  BY DEF Queued
<1>2. CASE \E w \in Workers : ClaimTurn(w) \/ WorkerDies(w)
  BY <1>1, <1>2, ClaimInd, DiesInd
<1>3. CASE \E w \in Workers : TurnSteps(w)
  <2>1. PICK w \in Workers : TurnSteps(w)
    BY <1>3
  <2>2. CASE LoadTurn(w) \/ StartTurn(w) \/ Reload(w) \/ AckTurn(w)
    BY <1>1, <2>2, LoadInd, StartInd, ReloadInd, AckInd
  <2>3. CASE \/ StopSeen(w, "stop", "ladder") \/ StopSeen(w, "stop_begun", "fence")
             \/ StopSeen(w, "stop_made", "call")
    BY <1>1, <2>3, StopSeenInd
  <2>4. CASE LogLadder(w) \/ LogStarted(w) \/ Reread(w) \/ FinishTurn(w) \/ FailedTurn(w)
    BY <1>1, <2>4, LadderInd, BegunInd, RereadInd, FinishInd, FailedInd
  <2>5. CASE CancelTurn(w)
    BY <1>1, <2>5, AppendInd DEF CancelTurn
  <2>6. CASE \/ CheckLease(w, "fence", "reread", "release") \/ CheckLease(w, "enter", "provision", "release")
             \/ CheckLease(w, "made", "stop_made", "drop") \/ CheckLease(w, "gone", "end", "release")
    BY <1>1, <2>6, LeaseInd
  <2>7. CASE \/ ProvisionBox(w) \/ CallGateway(w) \/ CheckCalled(w) \/ DropOwn(w)
             \/ CleanBox(w) \/ DestroyBox(w) \/ ConfirmGone(w) \/ StoreEnd(w)
    BY <1>1, <2>7, ProvisionInd, CallInd, CalledInd, DropInd, CleanInd, DestroyInd, ConfirmInd, StoreInd
  <2> QED BY <2>1, <2>2, <2>3, <2>4, <2>5, <2>6, <2>7 DEF TurnSteps
<1>4. CASE ReapTurns
  BY <1>1, <1>4, ReapInd
<1>5. CASE \E r \in Runs : TurnLeaseExpires(r) \/ PutStop(r) \/ StopQueued(r)
  BY <1>1, <1>5, ExpiresInd, StopInd
<1> QED BY <1>2, <1>3, <1>4, <1>5 DEF Queued

(***************************************************************************)
(* Turns in a request, and their desktop's requests                        *)
(***************************************************************************)
LEMMA QuickFields ==
    ASSUME TurnInv
    PROVE  /\ opener \in [Runs -> OpenerPcs] /\ req \in [Requests -> RequestType]
           /\ told \in [Runs -> SUBSET ToldType]
           /\ host \in HostType
           /\ \A n \in host.up : n \in Sandboxes /\ SandboxOk(n) /\ n = Name(n[1], n[2]) /\ n[1] \in Runs
BY DEF TurnInv, TypeInv, SharedType, ThreadsType, HostType, Sandboxes, Name

\* One turn's own request moves.
LEMMA OpenerStep ==
    ASSUME TurnInv, World, UNCHANGED <<wk, sweep, req>>, NEW r \in Runs, NEW pc \in OpenerPcs,
           Opens(r, pc), opener[r] # "returned",
           told' \in [Runs -> SUBSET ToldType], \A s \in Runs : s # r => told'[s] = told[s],
           ToldOk(r)', OpenerOk(r)', \A n \in host'.up : n[1] = r => SandboxOk(n)'
    PROVE  TurnInv'
<1>1. /\ opener' \in [Runs -> OpenerPcs] /\ \A s \in Runs : s # r => opener'[s] = opener[s]
      /\ opener'[r] = pc
  BY QuickFields DEF Opens
<1>2. TypeInv'
  BY <1>1 DEF TurnInv, TypeInv, ThreadsType, World
<1>3. QuickOk'
  <2>1. \A s \in Runs : OpenerOk(s)' /\ ToldOk(s)'
    BY <1>1, OpenerStands, ToldStands
  <2>2. \A s \in Runs : opener[s] = "returned" => opener'[s] = "returned"
    BY <1>1
  <2>3. \A q \in Requests : RequestOk(q)'
    BY <2>2, RequestStands
  <2> QED BY <2>1, <2>3 DEF QuickOk
<1>4. \A n \in host'.up : SandboxOk(n)'
  <2> TAKE n \in host'.up
  <2>1. n[1] \in Runs
    BY DEF World, SharedType, Sandboxes
  <2> QED BY <1>1, <2>1, SandboxStands
<1> QED BY <1>2, <1>3, <1>4, WorkersStand, QueuedStands DEF TurnInv

\* Where a request still is at work, its turn is not in the background.
LEMMA OpenerWorks ==
    ASSUME TurnInv, NEW r \in Runs, opener[r] \notin {"queue", "put", "returned"}
    PROVE  /\ r \notin Background /\ ~StillWaiting(log[r]) /\ log[r] # <<>>
           /\ \A w \in Workers : At(w, "idle") \/ wk[w].run # r
           /\ \A n \in host.up : n[1] = r => n = Name(r, 0) /\ r \in Boxes
<1>1. r \notin Background /\ ~StillWaiting(log[r])
  BY DEF TurnInv, QuickOk, OpenerOk
<1>2. log[r] # <<>>
  BY <1>1 DEF StillWaiting
<1>3. \A n \in host.up : n[1] = r => n = Name(r, 0) /\ r \in Boxes
  BY <1>1, QuickFields DEF SandboxOk
<1> QED BY <1>1, <1>2, <1>3, WorkerHasRun

LEMMA BackgroundInd ==
    ASSUME TurnInv, NEW r \in Runs, BackgroundTurn(r), UNCHANGED <<wk, expiries, astray, sweep>>
    PROVE  TurnInv'
<1>1. opener[r] = "queue" /\ Opens(r, "returned") /\ UNCHANGED <<stops, host, late, req, told>>
  BY DEF BackgroundTurn
<1>2. r \in Background /\ log[r] = <<>>
  BY <1>1 DEF TurnInv, QuickOk, OpenerOk
<1>3. PICK l \in {<<Plain("RunQueued")>>, <<Plain("RunQueued")>> \o Failure} : log' = [log EXCEPT ![r] = l]
  BY DEF BackgroundTurn
<1>4. l \in Seq(LoggedEvent) /\ l # <<>> /\ Len(l) \in Nat
  <2>1. Plain("RunQueued") \in LoggedEvent /\ Plain("RunFailed") \in LoggedEvent
    BY PlainEvents DEF LoggedTypes, Ends
  <2>2. <<Plain("RunQueued")>> \in Seq(LoggedEvent) /\ Failure \in Seq(LoggedEvent)
        /\ Len(<<Plain("RunQueued")>>) = 1 /\ Len(Failure) = 1
    BY <2>1 DEF Failure
  <2>3. l \in Seq(LoggedEvent) /\ Len(l) >= 1
    BY <1>3, <2>2, InConcat
  <2> QED BY <2>3
<1>5. /\ log \in [Runs -> Seq(LoggedEvent)] /\ log' \in [Runs -> Seq(LoggedEvent)]
      /\ log'[r] = l /\ \A s \in Runs : s # r => log'[s] = log[s]
  BY <1>3, <1>4 DEF TurnInv, TypeInv, SharedType
<1>6. opener' \in [Runs -> OpenerPcs] /\ opener'[r] = "returned"
  BY <1>1, QuickFields DEF Opens, OpenerPcs
<1>7. queue' = queue \/ Follows(queue, queue', r, NoRun, NoLease)
  BY Pushed, StaysWithin DEF BackgroundTurn
<1>8. LogsKept
  <2>1. ~Ended(log[r]) /\ StillWaiting(log[r]) /\ Len(log[r]) = 0
    BY <1>2 DEF Ended, Has, StillWaiting
  <2>2. \A s \in Runs : Len(log[s]) \in Nat
    BY <1>5
  <2> QED BY <1>1, <1>2, <1>4, <1>5, <1>6, <2>1, <2>2 DEF LogsKept
<1>9. SharedType'
  BY <1>1, <1>5, <1>7 DEF TurnInv, TypeInv, SharedType, Follows
<1>10. QueueKept
  <2>1. CASE queue' = queue
    BY <1>1, <2>1, QueueStands DEF TurnInv, TypeInv
  <2>2. CASE Follows(queue, queue', r, NoRun, NoLease)
    <3>1. NoRun \notin Runs /\ NoLease \notin Workers
      BY SharedAssumption, QueueAssumption
    <3> QED BY <1>1, <1>2, <1>4, <1>5, <2>2, <3>1 DEF QueueKept, Follows
  <2> QED BY <1>7, <2>1, <2>2
<1>11. World
  BY <1>1, <1>8, <1>9, <1>10, BoxesStand DEF World
<1>12. ToldOk(r)'
  BY <1>1, <1>11, ToldStands
<1>13. OpenerOk(r)'
  BY <1>2, <1>6 DEF OpenerOk, Background
<1>14. \A n \in host'.up : n[1] # r
  <2>1. StillWaiting(log[r])
    BY <1>2 DEF StillWaiting
  <2> QED BY <1>1, <2>1, QuickFields DEF SandboxOk
<1>15. "returned" \in OpenerPcs
  BY DEF OpenerPcs
<1> QED BY <1>1, <1>11, <1>12, <1>13, <1>14, <1>15, QuickFields, OpenerStep

LEMMA OpenInd ==
    ASSUME TurnInv, NEW r \in Runs, OpenTurn(r), UNCHANGED <<wk, expiries, astray, sweep>>
    PROVE  TurnInv'
<1> DEFINE pc == IF r \in Boxes THEN "provision" ELSE IF Kind[r] = "gateway" THEN "call" ELSE "returned"
           l == <<Plain("RunStarted")>>
<1>1. /\ opener[r] = "put" /\ Opens(r, pc) /\ UNCHANGED <<queue, stops, host, late, req, told>>
      /\ log' = [log EXCEPT ![r] = l]
  BY DEF OpenTurn
<1>2. r \notin Background /\ log[r] = <<>>
  BY <1>1 DEF TurnInv, QuickOk, OpenerOk
<1>3. l \in Seq(LoggedEvent) /\ l # <<>> /\ Len(l) = 1 /\ ~StillWaiting(l)
  <2>1. Plain("RunStarted") \in LoggedEvent /\ Plain("RunStarted").type = "RunStarted"
    BY PlainEvents DEF LoggedTypes
  <2>2. l[1] = Plain("RunStarted") /\ 1 \in DOMAIN l
    OBVIOUS
  <2> QED BY <2>1, <2>2 DEF StillWaiting
<1> HIDE DEF l
<1>4. /\ log \in [Runs -> Seq(LoggedEvent)] /\ log' \in [Runs -> Seq(LoggedEvent)]
      /\ log'[r] = l /\ \A s \in Runs : s # r => log'[s] = log[s]
  BY <1>1, <1>3 DEF TurnInv, TypeInv, SharedType
<1>5. pc \in OpenerPcs /\ pc \notin {"queue", "put", "absent", "destroy", "destroy_failed"}
  BY DEF OpenerPcs
<1>6. opener' \in [Runs -> OpenerPcs] /\ opener'[r] = pc
  BY <1>1, <1>5, QuickFields DEF Opens
<1>7. LogsKept
  <2>1. ~Ended(log[r]) /\ StillWaiting(log[r]) /\ Len(log[r]) = 0
    BY <1>2 DEF Ended, Has, StillWaiting
  <2>2. \A s \in Runs : Len(log[s]) \in Nat
    BY <1>4
  <2> QED BY <1>1, <1>2, <1>3, <1>4, <1>5, <1>6, <2>1, <2>2 DEF LogsKept
<1>8. World
  <2>1. SharedType'
    BY <1>1, <1>4 DEF TurnInv, TypeInv, SharedType
  <2> QED BY <1>1, <1>7, <2>1, BoxesStand, QueueStands DEF World, TurnInv, TypeInv
<1>9. ToldOk(r)'
  BY <1>1, <1>8, ToldStands
<1>10. OpenerOk(r)'
  <2>1. pc = "provision" => r \in Boxes
    OBVIOUS
  <2> HIDE DEF pc
  <2> QED BY <1>2, <1>3, <1>4, <1>5, <1>6, <2>1 DEF OpenerOk, Background
<1>11. \A n \in host'.up : n[1] # r
  <2>1. StillWaiting(log[r])
    BY <1>2 DEF StillWaiting
  <2> QED BY <1>1, <2>1, QuickFields DEF SandboxOk
<1> HIDE DEF pc
<1> QED BY <1>1, <1>5, <1>8, <1>9, <1>10, <1>11, QuickFields, OpenerStep

\* A step of a turn's own request that stores nothing.
LEMMA OpenerMoves ==
    ASSUME TurnInv, UNCHANGED <<queue, log, stops, late, req, told, wk, astray, sweep>>,
           NEW r \in Runs, NEW pc \in OpenerPcs, Opens(r, pc),
           opener[r] \notin {"queue", "put", "returned"}, pc \notin {"queue", "put", "provision"},
           pc \in {"absent", "destroy", "destroy_failed"} => r \in Boxes,
           host' \in HostType, host.up \ {Name(r, 0)} \subseteq host'.up,
           host'.up \subseteq host.up \/ (host'.up \subseteq host.up \cup {Name(r, 0)}
                                          /\ opener[r] = "provision" /\ r \in Boxes),
           pc \in {"complete", "fail"} => Name(r, 0) \notin host'.up
    PROVE  TurnInv'
<1> DEFINE n == Name(r, 0)
<1>1. /\ r \notin Background /\ ~StillWaiting(log[r])
      /\ \A w \in Workers : At(w, "idle") \/ wk[w].run # r
      /\ \A m \in host.up : m[1] = r => m = n /\ r \in Boxes
  BY OpenerWorks
<1>2. n[1] = r /\ n[2] = 0 /\ n \in Sandboxes
  <2>1. MaxDeliveries \in Nat
    BY DEF TurnInv, TypeInv, TurnConstants
  <2> QED BY <2>1 DEF Name, Sandboxes
<1>3. opener' \in [Runs -> OpenerPcs] /\ opener'[r] = pc
  BY QuickFields DEF Opens
<1> HIDE DEF n
<1>4. SharedType'
  BY DEF TurnInv, TypeInv, SharedType, HostType
<1>5. \A m \in host'.up : m[1] = r => SandboxOk(m)'
  <2> TAKE m \in host'.up
  <2> HAVE m[1] = r
  <2>1. m = n /\ r \in Boxes
    BY <1>1 DEF n
  <2>2. pc \in {"absent", "call", "destroy", "destroy_failed", "returned"}
    BY <2>1 DEF OpenerPcs, n
  <2> QED BY <1>1, <1>2, <1>3, <2>1, <2>2 DEF SandboxOk, Background
<1>6. BoxesKept
  <2>1. ASSUME NEW m \in host'.up, m \notin host.up
        PROVE  (FoundGone(m) => m \in late') /\ SandboxOk(m)' /\ opener[m[1]] = "provision"
    <3>1. m = n /\ opener[r] = "provision"
      BY <2>1 DEF n
    <3>2. ~FoundGone(m)
      BY <1>1, <1>2, <3>1 DEF FoundGone, RunOf, At
    <3> QED BY <1>2, <1>5, <3>1, <3>2
  <2>2. ASSUME NEW w \in Workers, Holder(w), Name(wk[w].run, wk[w].attempt) \in host.up
        PROVE  Name(wk[w].run, wk[w].attempt) \in host'.up
    <3>1. wk[w].run # r
      BY <1>1, <2>2 DEF Holder, At
    <3>2. Name(wk[w].run, wk[w].attempt) # Name(r, 0)
      BY <3>1 DEF Name
    <3> QED BY <2>2, <3>2
  <2> QED BY <2>1, <2>2 DEF BoxesKept
<1>7. World
  BY <1>4, <1>6, LogsStand, QueueStands DEF World, TurnInv, TypeInv
<1>8. ToldOk(r)'
  BY <1>7, ToldStands
<1>9. OpenerOk(r)'
  BY <1>1, <1>3 DEF OpenerOk, Background
<1> QED BY <1>5, <1>7, <1>8, <1>9, QuickFields, OpenerStep

LEMMA OpenProvisionInd ==
    ASSUME TurnInv, NEW r \in Runs, OpenProvision(r), UNCHANGED <<wk, expiries, astray, sweep>>
    PROVE  TurnInv'
<1> DEFINE n == Name(r, 0)
<1>1. opener[r] = "provision" /\ UNCHANGED <<queue, log, stops, late, req, told>>
  BY DEF OpenProvision
<1>2. r \in Boxes
  BY <1>1 DEF TurnInv, QuickOk, OpenerOk
<1>3. n[1] = r /\ n \in Sandboxes
  <2>1. MaxDeliveries \in Nat
    BY DEF TurnInv, TypeInv, TurnConstants
  <2> QED BY <2>1 DEF Name, Sandboxes
<1> HIDE DEF n
<1>4. PICK a \in Provision(host, n) \cup ProvisionFails(host, n), pc \in {"absent", "call", "returned"} :
        host' = a.host /\ Opens(r, pc)
  BY DEF OpenProvision, n
<1>5. host' \in HostType /\ host.up \ {n} \subseteq host'.up /\ host'.up \subseteq host.up \cup {n}
  BY <1>2, <1>3, <1>4, QuickFields, ProvisionAnswers
<1>6. pc \in OpenerPcs
  BY DEF OpenerPcs
<1> QED BY <1>1, <1>2, <1>4, <1>5, <1>6, OpenerMoves DEF n

LEMMA OpenAbsentInd ==
    ASSUME TurnInv, NEW r \in Runs, OpenAbsent(r), UNCHANGED <<wk, expiries, astray, sweep>>
    PROVE  TurnInv'
<1>1. opener[r] = "absent" /\ UNCHANGED <<queue, log, stops, host, late, req, told>>
  BY DEF OpenAbsent
<1>2. PICK confirmed \in BOOLEAN :
        ConfirmsAbsent(Name(r, 0), confirmed) /\ Opens(r, IF confirmed THEN "fail" ELSE "returned")
  BY DEF OpenAbsent
<1>3. CASE confirmed
  <2>1. Name(r, 0) \notin host.up /\ Opens(r, "fail") /\ "fail" \in OpenerPcs
    BY <1>2, <1>3 DEF ConfirmsAbsent, Absent, OpenerPcs
  <2> QED BY <1>1, <2>1, QuickFields, OpenerMoves
<1>4. CASE ~confirmed
  <2>1. Opens(r, "returned") /\ "returned" \in OpenerPcs
    BY <1>2, <1>4 DEF OpenerPcs
  <2> QED BY <1>1, <2>1, QuickFields, OpenerMoves
<1> QED BY <1>3, <1>4

LEMMA OpenCallInd ==
    ASSUME TurnInv, NEW r \in Runs, OpenCall(r), UNCHANGED <<wk, expiries, astray, sweep>>
    PROVE  TurnInv'
<1>1. opener[r] = "call" /\ UNCHANGED <<queue, log, stops, host, late, req, told>>
  BY DEF OpenCall
<1>2. CASE r \in Boxes
  <2>1. PICK pc \in {"destroy", "destroy_failed"} : Opens(r, pc)
    BY <1>2 DEF OpenCall
  <2>2. pc \in OpenerPcs
    BY DEF OpenerPcs
  <2> QED BY <1>1, <1>2, <2>1, <2>2, QuickFields, OpenerMoves
<1>3. CASE r \notin Boxes
  <2>1. PICK pc \in {"complete", "fail"} : Opens(r, pc)
    BY <1>3 DEF OpenCall
  <2>2. pc \in OpenerPcs
    BY DEF OpenerPcs
  <2>3. Name(r, 0) \notin host.up
    <3>1. Name(r, 0)[1] = r
      BY DEF Name
    <3> QED BY <1>3, <3>1, QuickFields DEF SandboxOk
  <2> QED BY <1>1, <2>1, <2>2, <2>3, QuickFields, OpenerMoves
<1> QED BY <1>2, <1>3

LEMMA OpenDestroyInd ==
    ASSUME TurnInv, NEW r \in Runs, OpenDestroy(r), UNCHANGED <<wk, expiries, astray, sweep>>
    PROVE  TurnInv'
<1> DEFINE n == Name(r, 0)
<1>1. opener[r] \in {"destroy", "destroy_failed"} /\ UNCHANGED <<queue, log, stops, late, req, told>>
  BY DEF OpenDestroy
<1> HIDE DEF n
<1>2. PICK a \in Destroy(host, n) \cup DestroyFails(host, n), pc \in {"returned", "complete", "fail"} :
        host' = a.host /\ Opens(r, pc) /\ (~a.ok => pc = "returned")
  BY DEF OpenDestroy, n
<1>3. /\ host' \in HostType /\ host.up \ {n} \subseteq host'.up /\ host'.up \subseteq host.up
      /\ a.ok => n \notin host'.up
  BY <1>2, QuickFields, DestroyAnswers
<1>4. pc \in OpenerPcs
  BY DEF OpenerPcs
<1> QED BY <1>1, <1>2, <1>3, <1>4, OpenerMoves DEF n

LEMMA OpenerDiesInd ==
    ASSUME TurnInv, NEW r \in Runs, OpenerDies(r), UNCHANGED <<wk, expiries, astray, sweep>>
    PROVE  TurnInv'
<1>1. /\ opener[r] \notin {"queue", "put", "returned"} /\ Opens(r, "returned")
      /\ UNCHANGED <<queue, log, stops, host, late, req, told>>
  BY DEF OpenerDies
<1>2. "returned" \in OpenerPcs
  BY DEF OpenerPcs
<1> QED BY <1>1, <1>2, QuickFields, OpenerMoves

\* Who ended the turn is told so, and nobody was told before.
LEMMA TellsOne ==
    ASSUME TurnInv, NEW r \in Runs, NEW t \in ToldType,
           ~Ended(log[r]), Ended(log'[r]), log'[r] # <<>>, Last(log'[r]).type = t.end,
           told' = [told EXCEPT ![r] = @ \cup {t}]
    PROVE  /\ told' \in [Runs -> SUBSET ToldType] /\ \A s \in Runs : s # r => told'[s] = told[s]
           /\ ToldOk(r)'
<1>1. told[r] = {}
  BY DEF TurnInv, QuickOk, ToldOk
<1>2. /\ told' \in [Runs -> SUBSET ToldType] /\ \A s \in Runs : s # r => told'[s] = told[s]
      /\ told'[r] = {t}
  BY <1>1, QuickFields
<1> QED BY <1>2 DEF ToldOk

LEMMA OpenEndInd ==
    ASSUME TurnInv, NEW r \in Runs, OpenEnd(r), UNCHANGED <<wk, expiries, astray, sweep>>
    PROVE  TurnInv'
<1> DEFINE b == IF opener[r] = "fail" THEN Failure ELSE Completion
           t == [by |-> NoRun, end |-> "RunCompleted"]
<1>1. /\ opener[r] \in {"complete", "fail"} /\ Opens(r, "returned")
      /\ UNCHANGED <<queue, stops, host, late, req, wk, sweep, astray>>
  BY DEF OpenEnd
<1>2. /\ r \notin Background /\ ~StillWaiting(log[r])
      /\ \A n \in host.up : n[1] # r
  <2>1. \A n \in host.up : n[1] = r => SandboxOk(n) /\ r \notin Background
    BY <1>1, OpenerWorks, QuickFields
  <2>2. \A n \in host.up : n[1] # r
    BY <1>1, <2>1 DEF SandboxOk
  <2> QED BY <1>1, <2>2, OpenerWorks
<1>3. b \in EndBatches
  BY DEF EndBatches
<1>4. log' \in {log, [log EXCEPT ![r] = AppendEvents(log[r], b)]}
  BY DEF OpenEnd, EndLost, AppendLost, AppendEvents
<1>5. /\ World
      /\ log'[r] # log[r] => /\ Ended(log'[r]) /\ log'[r] # <<>> /\ ~Ended(log[r])
                             /\ Last(log'[r]) = b[Len(b)]
  BY <1>1, <1>3, <1>4, EndWorld
<1>6. /\ told' \in [Runs -> SUBSET ToldType] /\ \A s \in Runs : s # r => told'[s] = told[s]
      /\ ToldOk(r)'
  <2>1. CASE told' = told
    BY <1>5, <2>1, QuickFields, ToldStands
  <2>2. CASE told' # told
    <3>1. log'[r] # log[r] /\ opener[r] = "complete" /\ told' = [told EXCEPT ![r] = @ \cup {t}]
      BY <2>2 DEF OpenEnd
    <3>2. b = Completion
      BY <3>1
    <3> HIDE DEF b
    <3>3. b[Len(b)].type = "RunCompleted"
      BY <1>3, <3>2, BatchFacts DEF Batches
    <3>4. t \in ToldType /\ t.end = "RunCompleted"
      BY DEF ToldType
    <3> HIDE DEF t
    <3> QED BY <1>5, <3>1, <3>3, <3>4, TellsOne
  <2> QED BY <2>1, <2>2
<1>7. opener'[r] = "returned" /\ "returned" \in OpenerPcs
  BY <1>1, QuickFields DEF Opens, OpenerPcs
<1>8. OpenerOk(r)'
  <2>1. ~StillWaiting(log'[r])
    BY <1>2, <1>5 DEF World, LogsKept
  <2> QED BY <1>2, <1>7, <2>1 DEF OpenerOk, Background
<1> HIDE DEF b, t
<1> QED BY <1>1, <1>2, <1>5, <1>6, <1>7, <1>8, OpenerStep

\* One of the desktop's requests moves.
LEMMA RequestStep ==
    ASSUME TurnInv, World, UNCHANGED <<wk, sweep, opener>>, NEW q \in Requests, NEW x \in RequestType,
           Asks(q, x), RequestOk(q)', told' \in [Runs -> SUBSET ToldType], \A r \in Runs : ToldOk(r)'
    PROVE  TurnInv'
<1>1. req' \in [Requests -> RequestType] /\ \A p \in Requests : p # q => req'[p] = req[p]
  BY QuickFields DEF Asks
<1>2. TypeInv'
  BY <1>1 DEF TurnInv, TypeInv, ThreadsType, World
<1>3. \A p \in Requests : RequestOk(p)'
  BY <1>1, RequestStands
<1>4. \A r \in Runs : OpenerOk(r)'
  BY OpenerStands
<1>5. QuickOk'
  BY <1>3, <1>4 DEF QuickOk
<1> QED BY <1>2, <1>5, WorkersStand, QueuedStands, SandboxesStand DEF TurnInv

\* The record of a request that goes on.
LEMMA RequestFields ==
    ASSUME TurnInv, NEW q \in Requests, NEW pc \in {"idle", "absent", "destroy", "append", "done"}
    PROVE  /\ [req[q] EXCEPT !.pc = pc] \in RequestType
           /\ [req[q] EXCEPT !.pc = pc].pc = pc
           /\ [req[q] EXCEPT !.pc = pc].run = req[q].run
           /\ [req[q] EXCEPT !.pc = pc].wants = req[q].wants
           /\ \A x \in RequestType : Asks(q, x) => req'[q] = x
<1>1. req[q] \in RequestType
  BY QuickFields
<1>2. \A x \in RequestType : Asks(q, x) => req'[q] = x
  BY QuickFields DEF Asks
<1> QED BY <1>1, <1>2 DEF RequestType

LEMMA RequestEndInd ==
    ASSUME TurnInv, NEW q \in Requests, NEW r \in Runs, NEW wants \in {"RunCompleted", "RunFailed"},
           RequestEnd(q, r, wants), UNCHANGED <<wk, expiries, astray, sweep>>
    PROVE  TurnInv'
<1> DEFINE x == [pc |-> IF r \in Boxes THEN "absent" ELSE "append", run |-> r, wants |-> wants]
<1>1. /\ UNCHANGED <<queue, log, stops, host, late, opener, told>> /\ Asks(q, x)
      /\ Kind[r] = "subscription" /\ (EarlyRequests \/ opener[r] = "returned")
  BY DEF RequestEnd, shared
<1>2. r \notin Background
  BY <1>1 DEF Background
<1>3. World
  BY <1>1, QuietWorld, StaysWithin
<1>4. x \in RequestType /\ x.run = r /\ x.wants = wants
      /\ x.pc = (IF r \in Boxes THEN "absent" ELSE "append")
  BY DEF RequestType
<1> HIDE DEF x
<1>5. req'[q] = x
  BY <1>1, <1>4, RequestFields
<1>6. r \notin Boxes => Name(r, 0) \notin host'.up
  <2>1. Name(r, 0)[1] = r
    BY DEF Name
  <2> QED BY <1>1, <2>1, QuickFields DEF SandboxOk
<1>7. RequestOk(q)'
  BY <1>1, <1>2, <1>4, <1>5, <1>6 DEF RequestOk, Background
<1>8. \A s \in Runs : ToldOk(s)'
  BY <1>1, <1>3, ToldStands
<1> QED BY <1>1, <1>3, <1>4, <1>7, <1>8, QuickFields, RequestStep

LEMMA RequestAbsentInd ==
    ASSUME TurnInv, NEW q \in Requests, RequestAbsent(q), UNCHANGED <<wk, expiries, astray, sweep>>
    PROVE  TurnInv'
<1>1. req[q].pc = "absent" /\ UNCHANGED <<queue, log, stops, host, late, opener, told>>
  BY DEF RequestAbsent
<1>2. PICK pc \in {"destroy", "append", "done"} :
        /\ Asks(q, [req[q] EXCEPT !.pc = pc])
        /\ pc = "append" => Name(req[q].run, 0) \notin host.up
  <2> DEFINE n == Name(req[q].run, 0)
  <2>1. \/ Asks(q, [req[q] EXCEPT !.pc = "destroy"])
        \/ Asks(q, [req[q] EXCEPT !.pc = "append"]) /\ Absent(host, n)
        \/ Asks(q, [req[q] EXCEPT !.pc = "done"])
    BY DEF RequestAbsent, Closes
  <2> HIDE DEF n
  <2>2. CASE Asks(q, [req[q] EXCEPT !.pc = "destroy"])
    BY <2>2
  <2>3. CASE Asks(q, [req[q] EXCEPT !.pc = "append"]) /\ Absent(host, n)
    BY <2>3 DEF n, Absent
  <2>4. CASE Asks(q, [req[q] EXCEPT !.pc = "done"])
    BY <2>4
  <2> QED BY <2>1, <2>2, <2>3, <2>4
<1> DEFINE x == [req[q] EXCEPT !.pc = pc]
<1>3. x \in RequestType /\ x.pc = pc /\ x.run = req[q].run /\ x.wants = req[q].wants
  <2>1. req[q] \in RequestType
    BY QuickFields
  <2> QED BY <2>1 DEF RequestType
<1>4. World
  BY <1>1, QuietWorld, StaysWithin
<1>5. Asks(q, x)
  BY <1>2
<1> HIDE DEF x
<1>6. req'[q] = x
  BY <1>3, <1>5, RequestFields
<1>7. RequestOk(q)
  BY DEF TurnInv, QuickOk
<1>8. RequestOk(q)'
  BY <1>1, <1>2, <1>3, <1>6, <1>7 DEF RequestOk, Background
<1>9. \A s \in Runs : ToldOk(s)'
  BY <1>1, <1>4, ToldStands
<1> QED BY <1>1, <1>3, <1>4, <1>5, <1>8, <1>9, QuickFields, RequestStep

LEMMA RequestDestroyInd ==
    ASSUME TurnInv, NEW q \in Requests, RequestDestroy(q), UNCHANGED <<wk, expiries, astray, sweep>>
    PROVE  TurnInv'
<1> DEFINE n == Name(req[q].run, 0)
<1>1. req[q].pc = "destroy" /\ UNCHANGED <<queue, log, stops, late, opener, told>>
  BY DEF RequestDestroy
<1>2. RequestOk(q) /\ req[q].run \in Runs
  BY <1>1 DEF TurnInv, QuickOk, RequestOk
<1>3. n \in Sandboxes
  <2>1. MaxDeliveries \in Nat
    BY DEF TurnInv, TypeInv, TurnConstants
  <2> QED BY <1>2, <2>1 DEF Name, Sandboxes
<1> HIDE DEF n
<1>4. PICK a \in Destroy(host, n) \cup DestroyFails(host, n) :
        host' = a.host /\ Asks(q, [req[q] EXCEPT !.pc = IF a.ok THEN "append" ELSE "done"])
  BY DEF RequestDestroy, n
<1> DEFINE pc == IF a.ok THEN "append" ELSE "done"
           x == [req[q] EXCEPT !.pc = pc]
<1>12. pc \in {"append", "done"} /\ (pc = "append" => a.ok)
  OBVIOUS
<1>13. Asks(q, x)
  BY <1>4
<1> HIDE DEF pc
<1>5. x \in RequestType /\ x.pc = pc /\ x.run = req[q].run /\ x.wants = req[q].wants
  <2>1. req[q] \in RequestType
    BY QuickFields
  <2> QED BY <1>12, <2>1 DEF RequestType
<1>6. \A w \in Workers : Holder(w) => Name(wk[w].run, wk[w].attempt) # n
  <2> TAKE w \in Workers
  <2> HAVE Holder(w)
  <2>1. wk[w].pc \in InBox
    BY DEF Holder, InBox
  <2>2. wk[w].attempt # 0
    BY <2>1 DEF TurnInv, WorkersOk, WorkerOk
  <2> QED BY <2>2 DEF Name, n
<1>7. World /\ host'.up \subseteq host.up /\ (a.ok => n \notin host'.up)
  BY <1>1, <1>3, <1>4, <1>6, RemovalWorld
<1>8. Asks(q, x)
  BY <1>13
<1> HIDE DEF x
<1>9. req'[q] = x
  BY <1>5, <1>8, RequestFields
<1>10. RequestOk(q)'
  BY <1>1, <1>2, <1>4, <1>5, <1>7, <1>9, <1>12 DEF RequestOk, Background, n
<1>11. \A s \in Runs : ToldOk(s)'
  BY <1>1, <1>7, ToldStands
<1> QED BY <1>1, <1>5, <1>7, <1>8, <1>10, <1>11, QuickFields, RequestStep

LEMMA RequestAppendInd ==
    ASSUME TurnInv, NEW q \in Requests, RequestAppend(q), UNCHANGED <<wk, expiries, astray, sweep>>
    PROVE  TurnInv'
<1> DEFINE b == IF req[q].wants = "RunFailed" THEN Failure ELSE Completion
           t == [by |-> q, end |-> req[q].wants]
           x == [req[q] EXCEPT !.pc = "done"]
<1>1. /\ req[q].pc = "append" /\ UNCHANGED <<queue, stops, host, late, opener, astray, wk, sweep>>
      /\ Asks(q, x)
  BY DEF RequestAppend, Closes
<1>2. PICK r \in Runs : r = req[q].run /\ req[q].wants \in {"RunCompleted", "RunFailed"}
  <2>1. RequestOk(q) /\ req[q] \in RequestType
    BY QuickFields DEF TurnInv, QuickOk
  <2> QED BY <1>1, <2>1 DEF RequestOk, RequestType
<1>3. b \in EndBatches
  BY DEF EndBatches
<1>4. b[Len(b)].type = req[q].wants
  <2>1. (b = Completion /\ req[q].wants = "RunCompleted") \/ (b = Failure /\ req[q].wants = "RunFailed")
    BY <1>2
  <2> HIDE DEF b
  <2> QED BY <1>3, <2>1, BatchFacts DEF Batches
<1>5. log' \in {log, [log EXCEPT ![r] = AppendEvents(log[r], b)]}
  BY <1>2 DEF RequestAppend, EndLost, AppendLost, AppendEvents
<1>6. told' = told \/ (log'[r] # log[r] /\ told' = [told EXCEPT ![r] = @ \cup {t}])
  BY <1>2 DEF RequestAppend
<1> HIDE DEF b
<1>7. /\ World
      /\ log'[r] # log[r] => /\ Ended(log'[r]) /\ log'[r] # <<>> /\ ~Ended(log[r])
                             /\ Last(log'[r]) = b[Len(b)]
  BY <1>1, <1>2, <1>3, <1>5, EndWorld
<1>8. told' \in [Runs -> SUBSET ToldType] /\ \A s \in Runs : ToldOk(s)'
  <2>1. CASE told' = told
    BY <1>7, <2>1, QuickFields, ToldStands
  <2>2. CASE told' # told
    <3>1. t \in ToldType /\ t.end = req[q].wants
      BY <1>2 DEF ToldType
    <3> HIDE DEF t
    <3>2. /\ told' \in [Runs -> SUBSET ToldType] /\ \A s \in Runs : s # r => told'[s] = told[s]
          /\ ToldOk(r)'
      BY <1>2, <1>4, <1>6, <1>7, <2>2, <3>1, TellsOne
    <3> QED BY <1>7, <3>2, ToldStands
  <2> QED BY <2>1, <2>2
<1>9. x \in RequestType /\ x.pc = "done"
  BY RequestFields
<1> HIDE DEF x
<1>10. req'[q] = x
  BY <1>1, <1>9, RequestFields
<1>11. RequestOk(q)'
  BY <1>9, <1>10 DEF RequestOk
<1> QED BY <1>1, <1>7, <1>8, <1>9, <1>11, RequestStep

LEMMA QuickInd == ASSUME TurnInv, Quick PROVE TurnInv'
<1>1. UNCHANGED <<wk, expiries, astray, sweep>>
  BY DEF Quick
<1>2. CASE \E r \in Runs : OpenSteps(r) \/ OpenerDies(r)
  BY <1>1, <1>2, BackgroundInd, OpenInd, OpenProvisionInd, OpenAbsentInd, OpenCallInd, OpenDestroyInd,
     OpenEndInd, OpenerDiesInd DEF OpenSteps
<1>3. CASE \E q \in Requests : RequestSteps(q)
  BY <1>1, <1>3, RequestAbsentInd, RequestDestroyInd, RequestAppendInd DEF RequestSteps
<1>4. CASE \E q \in Requests, r \in Runs, wants \in {"RunCompleted", "RunFailed"} : RequestEnd(q, r, wants)
  BY <1>1, <1>4, RequestEndInd
<1> QED BY <1>2, <1>3, <1>4 DEF Quick

(***************************************************************************)
(* The sweep                                                               *)
(***************************************************************************)
\* What the sweep has to go through: sandboxes, then volumes.
SweepOk(x) ==
    /\ x \in SweepType
    /\ x.pc = "boxes" => x.todo \subseteq Sandboxes
    /\ x.pc = "volumes" => x.todo \subseteq Runs

LEMMA SweepStep ==
    ASSUME TurnInv, World, UNCHANGED <<quickVars, wk>>, NEW x, SweepOk(x), sweep' = x
    PROVE  TurnInv'
<1>1. opener' = opener /\ req' = req /\ told' = told
  BY DEF quickVars
<1>2. TypeInv'
  BY <1>1 DEF TurnInv, TypeInv, ThreadsType, World, SweepOk
<1> QED BY <1>1, <1>2, WorkersStand, QuickStands, QueuedStands, SandboxesStand DEF TurnInv

LEMMA SweepFields ==
    ASSUME TurnInv
    PROVE  /\ SweepOk(sweep) /\ host \in HostType
           /\ MaxDeliveries \in Nat
BY DEF TurnInv, TypeInv, ThreadsType, SharedType, HostType, SweepOk, TurnConstants

LEMMA IdleSweepOk == SweepOk(IdleSweep)
BY DEF SweepOk, IdleSweep, SweepType

LEMMA SweepListsInd ==
    ASSUME TurnInv, SweepLists, UNCHANGED <<quickVars, wk, expiries, astray>>
    PROVE  TurnInv'
<1>1. /\ UNCHANGED <<queue, log, stops, host, late>>
      /\ sweep' = [pc |-> "boxes", todo |-> host.up, left |-> {}]
  BY DEF SweepLists, shared, IdleSweep, List
<1>2. World
  BY <1>1, QuietWorld, StaysWithin
<1>3. SweepOk([pc |-> "boxes", todo |-> host.up, left |-> {}])
  BY SweepFields DEF SweepOk, SweepType, HostType
<1> QED BY <1>1, <1>2, <1>3, SweepStep

LEMMA SweepListsVolumesInd ==
    ASSUME TurnInv, SweepListsVolumes, UNCHANGED <<quickVars, wk, expiries, astray>>
    PROVE  TurnInv'
<1> DEFINE x == [sweep EXCEPT !.pc = "volumes", !.todo = host.volumes]
<1>1. /\ UNCHANGED <<queue, log, stops, host, late>>
      /\ sweep' = x \/ sweep' = IdleSweep
  BY DEF SweepListsVolumes, ListVolumes
<1>2. World
  BY <1>1, QuietWorld, StaysWithin
<1>3. SweepOk(x)
  <2>1. Boxes \subseteq Runs
    BY DEF TurnInv, TypeInv, TurnConstants, TurnAssumption
  <2>2. sweep \in SweepType /\ host.volumes \subseteq Runs
    BY <2>1, SweepFields DEF SweepOk, HostType
  <2>3. x \in SweepType /\ x.pc = "volumes" /\ x.todo = host.volumes
    BY <2>2 DEF SweepType
  <2> HIDE DEF x
  <2> QED BY <2>2, <2>3 DEF SweepOk
<1> HIDE DEF x
<1> QED BY <1>1, <1>2, <1>3, IdleSweepOk, SweepStep

LEMMA SweepEndsInd ==
    ASSUME TurnInv, SweepEnds, UNCHANGED <<quickVars, wk, expiries, astray>>
    PROVE  TurnInv'
<1>1. /\ UNCHANGED <<queue, log, stops, host, late>> /\ sweep' = IdleSweep
  BY DEF SweepEnds, shared
<1>2. World
  BY <1>1, QuietWorld, StaysWithin
<1> QED BY <1>1, <1>2, IdleSweepOk, SweepStep

\* A sandbox or a volume is done with.
LEMMA SweepShorter ==
    ASSUME SweepOk(sweep), NEW x \in SweepType, x.pc = sweep.pc, NEW n, x.todo = sweep.todo \ {n}
    PROVE  SweepOk(x)
BY DEF SweepOk

LEMMA SweepBoxInd ==
    ASSUME TurnInv, NEW n \in sweep.todo, SweepBox(n), UNCHANGED <<quickVars, wk, expiries, astray>>
    PROVE  TurnInv'
<1>1. /\ sweep.pc = "boxes" /\ n \in Sandboxes /\ RunOf(n) \in Runs
      /\ sweep.left \subseteq Runs
      /\ UNCHANGED <<queue, log, stops, late>>
  <2>1. sweep.pc = "boxes" /\ UNCHANGED <<queue, log, stops, late>>
    BY Zenon DEF SweepBox
  <2>2. n \in Sandboxes /\ sweep \in SweepType
    BY <2>1, SweepFields DEF SweepOk
  <2> QED BY <2>1, <2>2 DEF Sandboxes, RunOf, SweepType
<1> DEFINE more == sweep.left \cup {RunOf(n)}
           X(left) == [sweep EXCEPT !.todo = @ \ {n}, !.left = left]
<1>2. \A left \in SUBSET Runs : SweepOk(X(left))
  <2> TAKE left \in SUBSET Runs
  <2>1. sweep \in SweepType /\ SweepOk(sweep)
    BY SweepFields DEF SweepOk
  <2>2. X(left) \in SweepType /\ X(left).pc = sweep.pc /\ X(left).todo = sweep.todo \ {n}
    BY <2>1 DEF SweepType
  <2> HIDE DEF X
  <2> QED BY <2>1, <2>2, SweepShorter
<1>3. sweep.left \in SUBSET Runs /\ more \in SUBSET Runs
  BY <1>1
<1>4. sweep' = X(sweep.left) \/ sweep' = X(more)
  <2>1. ASSUME NEW a \in Destroy(host, n) \cup DestroyFails(host, n),
               sweep' = [sweep EXCEPT !.todo = @ \ {n}, !.left = IF a.ok THEN @ ELSE @ \cup {RunOf(n)}]
        PROVE  sweep' = X(sweep.left) \/ sweep' = X(more)
    BY <2>1
  <2> HIDE DEF X, more
  <2>2. CASE sweep' = [sweep EXCEPT !.todo = @ \ {n}, !.left = @ \cup {RunOf(n)}]
    BY <2>2 DEF X, more
  <2> QED BY <2>1, <2>2, Zenon DEF SweepBox
<1>5. SweepOk(sweep')
  <2> HIDE DEF X, more
  <2> QED BY <1>2, <1>3, <1>4
<1> HIDE DEF X, more
<1>6. CASE host' = host
  <2>1. World
    BY <1>1, <1>6, QuietWorld, StaysWithin
  <2> QED BY <1>5, <2>1, SweepStep
<1>7. CASE host' # host
  <2>1. PICK a \in Destroy(host, n) \cup DestroyFails(host, n) : host' = a.host
    BY <1>7, Zenon DEF SweepBox
  <2>2. Ended(log[RunOf(n)])
    BY <1>7, Zenon DEF SweepBox
  <2>3. \A w \in Workers : Holder(w) => Name(wk[w].run, wk[w].attempt) # n
    BY <2>2 DEF Holder, Name, RunOf
  <2>4. World
    BY <1>1, <2>1, <2>3, RemovalWorld
  <2> QED BY <1>5, <2>4, SweepStep
<1> QED BY <1>6, <1>7

LEMMA SweepVolumeInd ==
    ASSUME TurnInv, NEW r \in sweep.todo, SweepVolume(r), UNCHANGED <<quickVars, wk, expiries, astray>>
    PROVE  TurnInv'
<1>1. /\ sweep.pc = "volumes" /\ r \in Runs /\ sweep.left \in SUBSET Runs
      /\ UNCHANGED <<queue, log, stops, late>>
  <2>1. sweep.pc = "volumes" /\ UNCHANGED <<queue, log, stops, late>>
    BY DEF SweepVolume
  <2> QED BY <2>1, SweepFields DEF SweepOk, SweepType
<1> DEFINE x == [sweep EXCEPT !.todo = @ \ {r}]
<1>2. SweepOk(x)
  <2>1. sweep \in SweepType /\ SweepOk(sweep)
    BY SweepFields DEF SweepOk
  <2>2. x \in SweepType /\ x.pc = sweep.pc /\ x.todo = sweep.todo \ {r}
    BY <2>1 DEF SweepType
  <2> HIDE DEF x
  <2> QED BY <2>1, <2>2, SweepShorter
<1>3. sweep' = x
  BY DEF SweepVolume
<1> HIDE DEF x
<1>4. host' \in HostType /\ host'.up = host.up
  <2> DEFINE less == [host EXCEPT !.volumes = @ \ {r}]
  <2>1. host \in HostType
    BY SweepFields
  <2>2. less \in HostType /\ less.up = host.up
    BY <2>1 DEF HostType
  <2>3. host' = host \/ host' = less
    BY DEF SweepVolume, RemoveVolume
  <2> HIDE DEF less
  <2> QED BY <2>1, <2>2, <2>3
<1>5. SharedType'
  BY <1>1, <1>4 DEF TurnInv, TypeInv, SharedType, HostType
<1>6. BoxesKept
  BY <1>1, <1>4 DEF BoxesKept
<1>7. World
  BY <1>1, <1>5, <1>6, LogsStand, QueueStands, StaysWithin DEF World, TurnInv, TypeInv
<1> QED BY <1>2, <1>3, <1>7, SweepStep

LEMMA SweptInd == ASSUME TurnInv, Swept PROVE TurnInv'
<1>1. UNCHANGED <<quickVars, wk, expiries, astray>> /\ SweepSteps
  BY DEF Swept
<1> QED BY <1>1, SweepListsInd, SweepListsVolumesInd, SweepEndsInd, SweepBoxInd, SweepVolumeInd DEF SweepSteps

(***************************************************************************)
(* TurnInv always holds                                                    *)
(***************************************************************************)
LEMMA InitTypes == ASSUME TurnConstants, Init PROVE TypeInv
<1>1. queue \in QueueType
  BY DEF Init, QueueType, EmptyQueue, PendingAge
<1>2. /\ log \in [Runs -> Seq(LoggedEvent)] /\ stops \subseteq Runs /\ astray \subseteq Runs
      /\ late \subseteq Runs \X (1..MaxDeliveries)
  BY DEF Init, WorkerInit
<1>3. host \in [up : SUBSET Sandboxes, volumes : SUBSET Boxes]
  BY DEF Init, EmptyHost
<1>4. opener \in [Runs -> OpenerPcs] /\ told \in [Runs -> SUBSET ToldType]
  BY DEF Init, QuickInit, OpenerPcs
<1>5. req \in [Requests -> RequestType]
  <2>1. IdleRequest \in RequestType
    BY DEF IdleRequest, RequestType
  <2> QED BY <2>1 DEF Init, QuickInit
<1>6. wk \in [Workers -> WorkerType]
  <2>1. 0 \in 0..MaxDeliveries
    BY DEF TurnConstants
  <2>2. Idle \in WorkerType
    BY <2>1 DEF Idle, WorkerType, WorkerPcs
  <2> QED BY <2>2 DEF Init, WorkerInit
<1>7. SweepOk(sweep)
  BY IdleSweepOk DEF Init, SweepInit
<1> QED BY <1>1, <1>2, <1>3, <1>4, <1>5, <1>6, <1>7
        DEF TypeInv, SharedType, ThreadsType, SweepOk

LEMMA InitInd == ASSUME TurnConstants, Init PROVE TurnInv
<1>1. TypeInv
  BY InitTypes
<1>2. \A r \in Runs : ~QueuedOrClaimed(queue, r)
  BY DEF Init, EmptyQueue, QueuedOrClaimed, OnRuns
<1>3. host.up = {}
  BY DEF Init, EmptyHost
<1>4. \A r \in Runs : OpenerOk(r)
  <2> TAKE r \in Runs
  <2>1. log[r] = <<>> /\ opener[r] = (IF Kind[r] = "background" THEN "queue" ELSE "put")
    BY DEF Init, QuickInit
  <2> QED BY <2>1 DEF OpenerOk, Background
<1>5. \A r \in Runs : ToldOk(r)
  BY DEF Init, QuickInit, ToldOk
<1>6. \A q \in Requests : RequestOk(q)
  BY DEF Init, QuickInit, IdleRequest, RequestOk
<1>7. \A w \in Workers : wk[w] = Idle
  BY DEF Init, WorkerInit
<1>8. \A w \in Workers : wk[w].pc = "idle" /\ wk[w].attempt = 0 /\ ~wk[w].held /\ wk[w].todo = {}
  BY <1>7 DEF Idle
<1>9. \A w \in Workers : WorkerOk(w)
  BY <1>8 DEF WorkerOk, At, BeforeBox, InBox, Unboxed, Ending, Laddered, ToStart, Leaving
<1>10. \A w \in Workers : Cleaned(w) /\ Counted(w) /\ HasBox(w)
  BY <1>8 DEF Cleaned, Counted, HasBox, Holder, Ending, At
<1>11. \A w, v \in Workers : Apart(w, v)
  <2> SUFFICES ASSUME NEW w \in Workers, NEW v \in Workers, OnOneTurn(w, v) PROVE FALSE
    BY DEF Apart
  <2>1. wk[w].attempt = 0
    BY <1>8
  <2> QED BY <2>1 DEF OnOneTurn
<1> QED BY <1>1, <1>2, <1>3, <1>4, <1>5, <1>6, <1>9, <1>10, <1>11
        DEF TurnInv, QueuedOnly, QuickOk, WorkersOk

LEMMA StutterInd == ASSUME TurnInv, UNCHANGED vars PROVE TurnInv'
<1>1. /\ UNCHANGED <<queue, log, stops, host, late, astray>>
      /\ UNCHANGED <<quickVars, wk, sweep>>
  BY DEF vars, shared, quickVars
<1>2. World
  BY <1>1, QuietWorld, StaysWithin
<1> QED BY <1>1, <1>2, NoneMoves

LEMMA NextInd == TurnInv /\ [Next]_vars => TurnInv'
<1> SUFFICES ASSUME TurnInv, [Next]_vars PROVE TurnInv'
  OBVIOUS
<1> QED BY QuickInd, QueuedInd, SweptInd, StutterInd DEF Next

\* TurnInv: what each thread may still do to a turn, to its log and its sandboxes.
THEOREM TurnInvariant == TurnConstants => (Spec => []TurnInv)
<1> SUFFICES ASSUME TurnConstants PROVE Spec => []TurnInv
  OBVIOUS
<1>1. Init => TurnInv
  BY InitInd
<1> QED BY <1>1, NextInd, PTL DEF Spec

\* The sandboxes, the threads and the logs are of the kinds their users expect.
THEOREM TurnsTyped == TurnConstants => (Spec => []TypeOK)
<1> SUFFICES ASSUME TurnConstants PROVE Spec => []TypeOK
  OBVIOUS
<1>1. TurnInv => TypeOK
  <2> SUFFICES ASSUME TurnInv PROVE TypeOK
    OBVIOUS
  <2>1. /\ host.up \subseteq Sandboxes /\ host.volumes \subseteq Boxes
        /\ late \subseteq Runs \X (1..MaxDeliveries)
    BY DEF TurnInv, TypeInv, SharedType
  <2>2. \A w \in Workers : /\ wk[w].run \in Runs \cup {NoRun}
                           /\ wk[w].attempt \in 0..MaxDeliveries
                           /\ wk[w].todo \subseteq Runs \X (1..MaxDeliveries)
    BY WorkerFields DEF TurnInv
  <2>3. \A r \in Runs : \A i \in DOMAIN log[r] : log[r][i] \in Event
    <3>1. LoggedEvent \subseteq Event
      <4>1. LoggedTypes \subseteq Types
        BY DEF LoggedTypes, Types, DecidedTypes
      <4>2. 0 \in 0..MaxDecisions
        BY MaxDecisionsAssumption
      <4> QED BY <4>1, <4>2 DEF LoggedEvent, Event
    <3>2. \A r \in Runs : \A i \in DOMAIN log[r] : log[r][i] \in LoggedEvent
      BY SharedFields DEF TurnInv, TypeInv
    <3> QED BY <3>1, <3>2
  <2>4. sweep.pc \in {"idle", "boxes", "volumes"}
    BY SweepFields DEF SweepOk, SweepType
  <2> QED BY <2>1, <2>2, <2>3, <2>4 DEF TypeOK, Sandboxes
<1> QED BY <1>1, TurnInvariant, PTL

\* Of all that race to end a turn one is told that it did, and the log says the
\* same (inference.rs record_completion, fail_turn).
THEOREM OneEnderIsTold == TurnConstants => (Spec => []OneIsTold)
<1> SUFFICES ASSUME TurnConstants PROVE Spec => []OneIsTold
  OBVIOUS
<1>1. TurnInv => OneIsTold
  BY DEF TurnInv, QuickOk, ToldOk, OneIsTold
<1> QED BY <1>1, TurnInvariant, PTL

\* No sweep, and no worker of another attempt, takes away the sandbox in which
\* the holder of the lease works, unless the turn is overtaken: however many
\* leases are lost, and however many calls fail (worker.rs clean_box, drop_own,
\* sweep_sandboxes).
THEOREM HoldersKeepTheirSandboxes == TurnConstants => (Spec => []HolderKeepsItsSandbox)
<1> SUFFICES ASSUME TurnConstants PROVE Spec => []HolderKeepsItsSandbox
  OBVIOUS
<1>1. TurnInv => HolderKeepsItsSandbox
  <2> SUFFICES ASSUME TurnInv, NEW n \in InUse PROVE n \in host.up \/ Overtaken(n[1], n[2])
    BY DEF HolderKeepsItsSandbox
  <2>1. PICK w \in Workers : n = Name(wk[w].run, wk[w].attempt) /\ Holder(w)
    BY DEF InUse, Holder, Renew
  <2>2. HasBox(w) /\ n[1] = wk[w].run /\ n[2] = wk[w].attempt
    BY <2>1 DEF Name, TurnInv, WorkersOk
  <2> QED BY <2>1, <2>2 DEF HasBox
<1> QED BY <1>1, TurnInvariant, PTL

(***************************************************************************)
(* A turn ends without its sandbox                                         *)
(***************************************************************************)
\* A step that writes one log, of a turn without a sandbox or to no end.
LEMMA EndsCleanly ==
    ASSUME NEW r, \A s \in Runs : s # r => log'[s] = log[s],
           Up(r) = {} \/ Ended(log[r]) \/ ~Ended(log'[r])
    PROVE  EndsClean
BY DEF EndsClean

LEMMA NoEnd == ASSUME log' = log PROVE EndsClean
BY DEF EndsClean

\* Who is not in a Box has no sandbox, and who waits for a worker has none yet.
LEMMA NoSandbox ==
    ASSUME TurnInv, NEW r \in Runs,
           \/ r \notin Boxes
           \/ StillWaiting(log[r])
           \/ r \notin Background /\ opener[r] \in {"complete", "fail"}
           \/ r \notin Background /\ Name(r, 0) \notin host.up
    PROVE  Up(r) = {}
<1> SUFFICES ASSUME NEW n \in host.up, n[1] = r PROVE FALSE
  BY DEF Up, RunOf
<1>1. SandboxOk(n) /\ n \in Sandboxes
  BY SharedFields DEF TurnInv, TypeInv
<1>2. n[2] = 0 => n = Name(r, 0)
  BY <1>1 DEF Sandboxes, Name
<1> QED BY <1>1, <1>2 DEF SandboxOk

\* One log is written.
LEMMA WritesOne ==
    ASSUME TurnInv, NEW r \in Runs, NEW l, log' = [log EXCEPT ![r] = l]
    PROVE  log'[r] = l /\ \A s \in Runs : s # r => log'[s] = log[s]
BY DEF TurnInv, TypeInv, SharedType

\* An append of an end to the log of a turn without a sandbox.
LEMMA EndLostCleanly ==
    ASSUME TurnInv, NEW r \in Runs, Up(r) = {}, NEW b,
           log' = [log EXCEPT ![r] = AppendEvents(log[r], b)] \/ EndLost(r, b)
    PROVE  EndsClean
<1>1. \A s \in Runs : s # r => log'[s] = log[s]
  BY WritesOne DEF EndLost, AppendLost
<1> QED BY <1>1, EndsCleanly

LEMMA OpenersEndClean ==
    ASSUME TurnInv, NEW r \in Runs, OpenSteps(r) \/ OpenerDies(r)
    PROVE  EndsClean
<1>1. CASE OpenProvision(r) \/ OpenAbsent(r) \/ OpenCall(r) \/ OpenDestroy(r) \/ OpenerDies(r)
  <2>1. log' = log
    BY <1>1, Zenon DEF OpenProvision, OpenAbsent, OpenCall, OpenDestroy, OpenerDies
  <2> QED BY <2>1, NoEnd
<1>2. CASE BackgroundTurn(r) \/ OpenTurn(r)
  <2>1. log[r] = <<>>
    BY <1>2 DEF BackgroundTurn, OpenTurn, TurnInv, QuickOk, OpenerOk
  <2>2. Up(r) = {}
    BY <2>1, NoSandbox DEF StillWaiting
  <2>3. \A s \in Runs : s # r => log'[s] = log[s]
    BY <1>2, WritesOne DEF BackgroundTurn, OpenTurn
  <2> QED BY <2>2, <2>3, EndsCleanly
<1>3. CASE OpenEnd(r)
  <2>1. opener[r] \in {"complete", "fail"}
    BY <1>3 DEF OpenEnd
  <2>2. r \notin Background
    BY <2>1 DEF TurnInv, QuickOk, OpenerOk
  <2>3. Up(r) = {}
    BY <2>1, <2>2, NoSandbox
  <2>4. \E b \in {Failure, Completion} :
          log' = [log EXCEPT ![r] = AppendEvents(log[r], b)] \/ EndLost(r, b)
    BY <1>3 DEF OpenEnd
  <2> QED BY <2>3, <2>4, EndLostCleanly
<1> QED BY <1>1, <1>2, <1>3 DEF OpenSteps

LEMMA RequestsEndClean ==
    ASSUME TurnInv, ~EarlyRequests, NEW q \in Requests, RequestSteps(q)
    PROVE  EndsClean
<1>1. CASE RequestAbsent(q) \/ RequestDestroy(q)
  <2>1. log' = log
    BY <1>1, Zenon DEF RequestAbsent, RequestDestroy
  <2> QED BY <2>1, NoEnd
<1>2. CASE RequestAppend(q)
  <2>1. req[q].pc = "append" /\ RequestOk(q)
    BY <1>2 DEF RequestAppend, TurnInv, QuickOk
  <2>2. PICK r \in Runs : r = req[q].run
    BY <2>1 DEF RequestOk
  <2>3. r \notin Background /\ Name(r, 0) \notin host.up
    BY <2>1, <2>2 DEF RequestOk
  <2>4. Up(r) = {}
    BY <2>3, NoSandbox
  <2>5. \E b \in {Failure, Completion} :
          log' = [log EXCEPT ![r] = AppendEvents(log[r], b)] \/ EndLost(r, b)
    BY <1>2, <2>2 DEF RequestAppend
  <2> QED BY <2>4, <2>5, EndLostCleanly
<1> QED BY <1>1, <1>2 DEF RequestSteps

\* What a worker stores before the turn's end does not end it.
LEMMA LaddersEndClean ==
    ASSUME TurnInv, NEW w \in Workers, LogLadder(w) \/ LogStarted(w)
    PROVE  EndsClean
<1>1. PICK r \in Runs : r = wk[w].run
  BY WorkerHasRun DEF LogLadder, LogStarted, At
<1>2. CASE log' = log
  BY <1>2, NoEnd
<1>3. CASE log' # log
  <2>1. PICK b \in Batches \ EndBatches :
          \/ log' = [log EXCEPT ![r] = AppendEventsAfter(log[r], wk[w].seen, b)]
    <3>1. <<Plain("RunScheduled")>> \in Batches \ EndBatches /\ <<Plain("RunStarted")>> \in Batches \ EndBatches
      BY DEF Batches, EndBatches, Completion, Failure, Cancellation, Plain
    <3>2. CASE AppendAfter(w, "ladder", <<Plain("RunScheduled")>>, "begin")
      BY <1>1, <1>3, <3>1, <3>2 DEF AppendAfter, AppendLost
    <3>3. CASE AppendAfter(w, "begin", <<Plain("RunStarted")>>, "stop_begun")
      BY <1>1, <1>3, <3>1, <3>3 DEF AppendAfter, AppendLost
    <3> QED BY <1>3, <3>2, <3>3 DEF LogLadder, LogStarted, shared
  <2>2. /\ log'[r] = AppendEventsAfter(log[r], wk[w].seen, b)
        /\ \A s \in Runs : s # r => log'[s] = log[s]
    BY <2>1, WritesOne
  <2>3. log[r] \in Seq(LoggedEvent)
    BY SharedFields DEF TurnInv, TypeInv
  <2>4. Ended(log[r]) \/ ~Ended(log'[r])
    BY <2>2, <2>3, Appended
  <2> QED BY <2>2, <2>4, EndsCleanly
<1> QED BY <1>2, <1>3

\* end_box has found the sandboxes of its attempt and of those before it gone.
LEMMA StoresEndClean ==
    ASSUME TurnInv, NEW w \in Workers, StoreEnd(w)
    PROVE  EndsClean
<1>1. At(w, "end") /\ wk[w].pc = "end"
  BY DEF StoreEnd, At
<1>2. PICK r \in Runs : r = wk[w].run
  BY <1>1, WorkerHasRun DEF At
<1>3. CASE r \notin Boxes
  <2>1. Up(r) = {}
    BY <1>3, NoSandbox
  <2>2. log' = [log EXCEPT ![r] = AppendEvents(log[r], wk[w].end)] \/ EndLost(r, wk[w].end)
    BY <1>2 DEF StoreEnd
  <2> QED BY <2>1, <2>2, EndLostCleanly
<1>4. CASE r \in Boxes
  <2>1. WorkerOk(w) /\ Cleaned(w) /\ wk[w].attempt \in Nat
    BY WorkerFields DEF TurnInv, WorkersOk
  <2>2. wk[w].todo = {} /\ wk[w].attempt >= 1
    BY <1>1, <1>2, <1>4, <2>1 DEF WorkerOk, Ending
  <2>3. wk'[w].pc # "end" /\ \A v \in Workers : v # w => wk'[v] = wk[v]
    <3> DEFINE acks == [Idle EXCEPT !.pc = "ack", !.run = wk[w].run]
    <3>1. wk' = [wk EXCEPT ![w] = acks] \/ wk' = [wk EXCEPT ![w] = Idle]
      BY Zenon DEF StoreEnd, Finishes, Abandons, Becomes
    <3>2. acks.pc = "ack" /\ Idle.pc = "idle"
      BY DEF Idle
    <3>3. wk \in [Workers -> WorkerType]
      BY DEF TurnInv, TypeInv, ThreadsType
    <3> HIDE DEF acks
    <3> QED BY <3>1, <3>2, <3>3
  <2>4. {v \in Workers : wk[v].pc = "end" /\ wk[v].run = r /\ wk'[v] # wk[v]} = {w}
    BY <1>1, <1>2, <2>3
  <2>6. Ender(r) = wk[w].attempt
    BY <2>4 DEF Ender
  <2>7. \A s \in Runs : s # r => log'[s] = log[s]
    BY <1>2, WritesOne DEF StoreEnd, EndLost, AppendLost
  <2>8. \A n \in Up(r) : n \in late \/ n[2] > wk[w].attempt
    <3> TAKE n \in Up(r)
    <3>1. n \in host.up /\ n[1] = r /\ n[2] \in Nat
      <4>1. n \in host.up /\ n \in Sandboxes /\ MaxDeliveries \in Nat
        BY SharedFields DEF Up, TurnInv, TypeInv, TurnConstants
      <4> QED BY <4>1 DEF Up, RunOf, Sandboxes
    <3>2. n[2] <= wk[w].attempt => n \in late
      BY <1>1, <1>2, <2>1, <2>2, <3>1 DEF Cleaned, Ending
    <3> QED BY <2>1, <3>1, <3>2
  <2> QED BY <2>1, <2>2, <2>6, <2>7, <2>8 DEF EndsClean
<1> QED BY <1>3, <1>4

LEMMA WorkersEndClean ==
    ASSUME TurnInv, NEW w \in Workers, TurnSteps(w)
    PROVE  EndsClean
<1>1. CASE LoadTurn(w) \/ StartTurn(w) \/ Reload(w) \/ AckTurn(w) \/ Reread(w) \/ FailedTurn(w)
  <2>1. log' = log
    BY <1>1, Zenon DEF LoadTurn, StartTurn, Reload, AckTurn, Reread, FailedTurn
  <2> QED BY <2>1, NoEnd
<1>2. CASE \/ StopSeen(w, "stop", "ladder") \/ StopSeen(w, "stop_begun", "fence")
           \/ StopSeen(w, "stop_made", "call")
  <2>1. log' = log
    BY <1>2, Zenon DEF StopSeen
  <2> QED BY <2>1, NoEnd
<1>3. CASE \/ CheckLease(w, "fence", "reread", "release") \/ CheckLease(w, "enter", "provision", "release")
           \/ CheckLease(w, "made", "stop_made", "drop") \/ CheckLease(w, "gone", "end", "release")
  <2>1. log' = log
    BY <1>3, Zenon DEF CheckLease
  <2> QED BY <2>1, NoEnd
<1>4. CASE \/ ProvisionBox(w) \/ CallGateway(w) \/ CheckCalled(w) \/ DropOwn(w)
           \/ CleanBox(w) \/ DestroyBox(w) \/ ConfirmGone(w)
  <2>1. log' = log
    BY <1>4, Zenon DEF ProvisionBox, CallGateway, CheckCalled, DropOwn, CleanBox, DestroyBox, ConfirmGone
  <2> QED BY <2>1, NoEnd
<1>5. CASE CancelTurn(w) \/ FinishTurn(w)
  <2>1. wk[w].pc \in Unboxed /\ ~At(w, "idle")
    BY <1>5 DEF CancelTurn, AppendAfter, FinishTurn, At, Unboxed
  <2>2. PICK r \in Runs : r = wk[w].run
    BY <2>1, WorkerHasRun
  <2>3. r \notin Boxes
    BY <2>1, <2>2 DEF TurnInv, WorkersOk, WorkerOk
  <2>4. Up(r) = {}
    BY <2>3, NoSandbox
  <2>5. \A s \in Runs : s # r => log'[s] = log[s]
    <3>1. CASE CancelTurn(w)
      BY <2>2, <3>1, WritesOne DEF CancelTurn, AppendAfter, AppendLost
    <3>2. CASE FinishTurn(w)
      BY <2>2, <3>2, WritesOne DEF FinishTurn, EndLost, AppendLost
    <3> QED BY <1>5, <3>1, <3>2
  <2> QED BY <2>4, <2>5, EndsCleanly
<1> QED BY <1>1, <1>2, <1>3, <1>4, <1>5, LaddersEndClean, StoresEndClean DEF TurnSteps

LEMMA StepsEndClean == ASSUME TurnInv, ~EarlyRequests, Next PROVE EndsClean
<1>1. CASE Quick
  <2>1. CASE \E q \in Requests, r \in Runs, wants \in {"RunCompleted", "RunFailed"} : RequestEnd(q, r, wants)
    <3>1. log' = log
      BY <2>1 DEF RequestEnd, shared
    <3> QED BY <3>1, NoEnd
  <2> QED BY <1>1, <2>1, OpenersEndClean, RequestsEndClean DEF Quick
<1>2. CASE Queued
  <2>1. CASE \E w \in Workers : ClaimTurn(w) \/ WorkerDies(w)
    <3>1. log' = log
      BY <2>1 DEF ClaimTurn, WorkerDies
    <3> QED BY <3>1, NoEnd
  <2>2. CASE ReapTurns \/ \E r \in Runs : TurnLeaseExpires(r) \/ PutStop(r)
    <3>1. log' = log
      BY <2>2 DEF ReapTurns, TurnLeaseExpires, PutStop
    <3> QED BY <3>1, NoEnd
  <2>3. CASE \E r \in Runs : StopQueued(r)
    <3>1. PICK r \in Runs : StopQueued(r)
      BY <2>3
    <3>2. Up(r) = {} /\ log' = [log EXCEPT ![r] = AppendEvents(log[r], Cancellation)]
      BY <3>1, NoSandbox DEF StopQueued
    <3> QED BY <3>2, EndLostCleanly
  <2> QED BY <1>2, <2>1, <2>2, <2>3, WorkersEndClean DEF Queued
<1>3. CASE Swept
  <2>1. CASE SweepLists \/ SweepListsVolumes \/ SweepEnds
    <3>1. log' = log
      BY <2>1 DEF SweepLists, SweepListsVolumes, SweepEnds, shared
    <3> QED BY <3>1, NoEnd
  <2>2. CASE \E n \in sweep.todo : SweepBox(n) \/ SweepVolume(n)
    <3>1. log' = log
      BY <2>2, Zenon DEF SweepBox, SweepVolume
    <3> QED BY <3>1, NoEnd
  <2> QED BY <1>3, <2>1, <2>2 DEF Swept, SweepSteps
<1> QED BY <1>1, <1>2, <1>3 DEF Next

\* A turn never ends with its sandbox up, whoever ends it and whatever failed on
\* the way: only a sandbox of a later attempt than the one that ended it may be
\* left, or one made after its worker had found it gone (inference.rs
\* finish_turn, fail_turn; worker.rs end_box).
THEOREM TurnsAlwaysEndClean == TurnConstants /\ ~EarlyRequests => (Spec => TurnsEndClean)
<1> SUFFICES ASSUME TurnConstants, ~EarlyRequests PROVE Spec => TurnsEndClean
  OBVIOUS
<1>1. TurnInv /\ [Next]_vars => [EndsClean]_vars
  BY StepsEndClean
<1> QED BY <1>1, TurnInvariant, PTL DEF Spec, TurnsEndClean
=============================================================================
