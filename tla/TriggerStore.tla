---------------------------- MODULE TriggerStore ----------------------------
(***************************************************************************)
(* The triggers table and the requests of its owner (store.rs and           *)
(* postgres.rs `TriggerStore`, the trigger routes of http.rs): create,      *)
(* pause, resume, rotate, delete, and the owner's stop, which pauses every  *)
(* trigger before it records itself.  Time is counted in minutes; a         *)
(* schedule's ticks are the members of TickTimes.                           *)
(*                                                                         *)
(* Left out: the agent of a trigger, which cannot be lost (put_agent never  *)
(* gives an agent to another owner and none is ever removed).               *)
(***************************************************************************)
EXTENDS EventLog, RedisQueue, Integers

CONSTANTS
    Schedules,    \* the schedule triggers
    Hooks,        \* the webhook triggers
    Events,       \* event ids senders use
    Requests,     \* the owner's requests that may be under way at once
    TickTimes,    \* when schedules tick
    MaxNow,       \* bound: the clock
    MaxGen,       \* bound: resumes of a trigger
    MaxRotation,  \* the last rotation of a secret (u32::MAX in the code)
    MaxTriggers,  \* MAX_TRIGGERS, what one principal keeps
    Skew,         \* how far a server's clock may be behind Redis's
    MaxFaults     \* bound: failed calls and deaths of threads

Triggers == Schedules \cup Hooks

ASSUME TriggerAssumption ==
    /\ Schedules \cap Hooks = {}
    /\ TickTimes \subseteq Nat \ {0} /\ MaxNow \in Nat
    /\ \E k \in TickTimes : k > MaxNow
    /\ {MaxGen, MaxRotation, MaxTriggers, Skew, MaxFaults} \subseteq Nat
    /\ Runs = (Schedules \X TickTimes) \cup (Hooks \X Events)

VARIABLES
    trig,     \* trig[t]: the row of trigger t
    now,      \* the Redis clock
    rq,       \* rq[q]: the owner's request q under way
    queue,    \* the Redis queue
    log,      \* log[r]: the stored events of run r
    made,     \* made[r]: the generation run r recorded (gol.generation)
    stops,    \* the runs stored before a stop the owner recorded
    stopGen,  \* history: stopGen[t], the generation of t the last stop paused
    pushes,   \* history: how often run r was pushed
    faults

shared == <<trig, now, rq, queue, log, made, stops, stopGen, pushes, faults>>

\* The row of a trigger that is not stored.
Absent == [stored |-> FALSE, enabled |-> FALSE, next |-> 0, gen |-> 0, rotation |-> 0,
           parses |-> TRUE]

IdleRequest == [pc |-> "idle", t |-> "none", next |-> 0, gens |-> [t \in Triggers |-> 0]]

\* The first tick strictly after a time; a webhook has none (0).
FirstTick(t, after) ==
    IF t \in Hooks THEN 0
    ELSE CHOOSE k \in TickTimes :
            k > after /\ \A j \in TickTimes : j > after => k <= j

\* A schedule stored before the scheduler existed has no tick yet, and may not
\* parse.
OldRow == [Absent EXCEPT !.stored = TRUE, !.enabled = TRUE]

StoreInit ==
    /\ trig \in [Triggers -> {Absent, OldRow, [OldRow EXCEPT !.parses = FALSE]}]
    /\ \A t \in Hooks : trig[t] = Absent
    /\ now = 0
    /\ rq = [q \in Requests |-> IdleRequest]
    /\ queue = EmptyQueue
    /\ log = [r \in Runs |-> <<>>]
    /\ made = [r \in Runs |-> 0]
    /\ stops = {}
    /\ stopGen = [t \in Triggers |-> -1]
    /\ pushes = [r \in Runs |-> 0]
    /\ faults = 0

Fault == faults < MaxFaults /\ faults' = faults + 1

\* What a server that is not the scheduler reads off its own clock.
ServerClock == {c \in 0..MaxNow : c <= now /\ now <= c + Skew}

Minute ==
    /\ now < MaxNow
    /\ now' = now + 1
    /\ UNCHANGED <<trig, rq, queue, log, made, stops, stopGen, pushes, faults>>

requestOnly == <<now, queue, log, made, stops, stopGen, pushes, faults>>

\* create_trigger and put_trigger: enabled, at its first tick, up to MaxTriggers.
CreateTrigger(q, t) ==
    /\ rq[q].pc = "idle"
    /\ trig[t] = Absent
    /\ Cardinality({u \in Triggers : trig[u].stored}) < MaxTriggers
    /\ \E c \in ServerClock :
          trig' = [trig EXCEPT ![t] = [OldRow EXCEPT !.next = FirstTick(t, c)]]
    /\ UNCHANGED <<rq, requestOnly>>

\* set_enabled(false): the tick and the generation stay.
Paused(row) == [row EXCEPT !.enabled = FALSE]

PauseTrigger(q, t) ==
    /\ rq[q].pc = "idle"
    /\ trig[t].stored
    /\ trig' = [trig EXCEPT ![t] = Paused(@)]
    /\ UNCHANGED <<rq, requestOnly>>

\* The row is gone for good: a trigger made later has an id of its own.
DeleteTrigger(q, t) ==
    /\ rq[q].pc = "idle"
    /\ trig[t].stored
    /\ trig' = [trig EXCEPT ![t] = [Absent EXCEPT !.gen = MaxGen + 1]]
    /\ UNCHANGED <<rq, requestOnly>>

\* resume_trigger's handler reads the trigger: a running one is left alone, a
\* paused one is given the first tick after the server's clock, if it has one.
ResumeReads(q, t) ==
    /\ rq[q].pc = "idle"
    /\ trig[t].stored /\ ~trig[t].enabled /\ trig[t].parses
    /\ trig[t].gen < MaxGen
    /\ \E c \in ServerClock :
          rq' = [rq EXCEPT ![q] = [IdleRequest EXCEPT !.pc = "resume", !.t = t, !.next = FirstTick(t, c)]]
    /\ UNCHANGED <<trig, requestOnly>>

\* The store's resume_trigger: only a paused trigger, at a new generation.
Resumed(row, next) ==
    IF row.enabled THEN row
    ELSE [row EXCEPT !.enabled = TRUE, !.next = next, !.gen = @ + 1]

ResumeTrigger(q) ==
    /\ rq[q].pc = "resume"
    /\ trig' = [trig EXCEPT ![rq[q].t] = IF @.stored THEN Resumed(@, rq[q].next) ELSE @]
    /\ rq' = [rq EXCEPT ![q] = IdleRequest]
    /\ UNCHANGED requestOnly

\* rotate_webhook: a secret is never given out again, so the last stays.
RotateWebhook(q, t) ==
    /\ rq[q].pc = "idle"
    /\ t \in Hooks /\ trig[t].stored
    /\ trig[t].rotation < MaxRotation
    /\ trig' = [trig EXCEPT ![t].rotation = @ + 1]
    /\ UNCHANGED <<rq, requestOnly>>

\* stop_owner pauses the triggers first; a pause that fails does not keep the
\* stop from going on.
StopPauses(q) ==
    /\ rq[q].pc = "idle"
    /\ rq' = [rq EXCEPT ![q] =
                 [IdleRequest EXCEPT !.pc = "stop",
                      !.gens = [t \in Triggers |-> IF trig[t].stored THEN trig[t].gen ELSE -1]]]
    /\ trig' = [t \in Triggers |-> Paused(trig[t])]
    /\ UNCHANGED requestOnly

StopPauseFails(q) ==
    /\ rq[q].pc = "idle"
    /\ Fault
    /\ rq' = [rq EXCEPT ![q] = [IdleRequest EXCEPT !.pc = "stop", !.gens = stopGen]]
    /\ UNCHANGED <<trig, now, queue, log, made, stops, stopGen, pushes>>

\* put_stop(Owner): what is stored by now is covered.
StopRecords(q) ==
    /\ rq[q].pc = "stop"
    /\ stops' = stops \cup {r \in Runs : log[r] # <<>>}
    /\ stopGen' = rq[q].gens
    /\ rq' = [rq EXCEPT ![q] = IdleRequest]
    /\ UNCHANGED <<trig, now, queue, log, made, pushes, faults>>

\* The rest of the stop: a covered run no worker scheduled is cancelled.
StopCancels(r) ==
    /\ r \in stops /\ StillWaiting(log[r])
    /\ log' = [log EXCEPT ![r] = AppendEvents(@, <<Plain("RunCancelled")>>)]
    /\ UNCHANGED <<trig, now, rq, queue, made, stops, stopGen, pushes, faults>>

OwnerNext ==
    \/ \E q \in Requests :
          \/ \E t \in Triggers : \/ CreateTrigger(q, t) \/ PauseTrigger(q, t)
                                 \/ DeleteTrigger(q, t) \/ ResumeReads(q, t)
                                 \/ RotateWebhook(q, t)
          \/ ResumeTrigger(q) \/ StopPauses(q) \/ StopPauseFails(q) \/ StopRecords(q)
    \/ \E r \in Runs : StopCancels(r)

(***************************************************************************)
(* The scheduler's statements.                                             *)
(***************************************************************************)
\* due_triggers (its order and its limit of 100 decide only the order of fires).
Due(t) == trig[t].enabled /\ trig[t].next # 0 /\ trig[t].next <= now

\* unscheduled_triggers
Unscheduled(t) == t \in Schedules /\ trig[t].enabled /\ trig[t].next = 0

\* Mutant: the tick is not compared.
AdvancedBlindly(t, due, next) == [trig EXCEPT ![t].next = IF trig[t].stored THEN next ELSE @]

\* advance_trigger: only from the tick it was read at.
Advanced(t, due, next) ==
    [trig EXCEPT ![t].next = IF trig[t].stored /\ @ = due THEN next ELSE @]
=============================================================================
