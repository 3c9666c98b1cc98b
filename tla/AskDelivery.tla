---------------------------- MODULE AskDelivery -----------------------------
(***************************************************************************)
(* Answers to asks.  A courier is whatever thread carries an answer: the    *)
(* worker that ended the asked task (answer_ask) or ran its reply           *)
(* (OwnedDeliverer::reply), the ask sweep of some server's reaper           *)
(* (sweep_asks), or a user's POST (answer_question).  The first three end   *)
(* in deliverer.rs's `deliver`.                                             *)
(*                                                                         *)
(* When the asked task ends and when a deadline passes are left to the      *)
(* environment: they may happen at any time after the row of the ask is     *)
(* stored.                                                                  *)
(***************************************************************************)
EXTENDS SharedState

CONSTANTS
    Couriers,      \* threads that carry answers
    Answerable,    \* the runs whose user may answer
    MaxTries       \* how often answer_question reads again

ASSUME CourierAssumption == /\ MaxTries \in Nat \ {0}
                            /\ Answerable \subseteq Runs

VARIABLE dl

CourierPcs == {"idle", "look", "stop", "deliver", "append", "mark", "wake",
               "question", "reply"}

IdleCourier == [pc |-> "idle", run |-> NoRun, ask |-> 0, leave |-> FALSE,
                seen |-> 0, tries |-> 0]

CourierInit == dl = [d \in Couriers |-> IdleCourier]

Carrying(d, pc) == dl[d].pc = pc
Carries(d, record) == dl' = [dl EXCEPT ![d] = record]
Turns(d, pc) == Carries(d, [dl[d] EXCEPT !.pc = pc])
Drops(d) == Carries(d, IdleCourier)

\* Sets out with an answer to ask a of run r.
SetsOut(d, r, a, leave) ==
    Carries(d, [IdleCourier EXCEPT !.pc = "deliver", !.run = r, !.ask = a,
                                   !.leave = leave])

\* A task that ended, or replies, finds the open ask it was sent by
\* (ask_of_task).  An ask its asker has not logged is left (IfUnsent::Leave).
TaskAnswers(d, r, a) ==
    /\ Carrying(d, "idle")
    /\ rows[r][a] = "open"
    /\ SetsOut(d, r, a, TRUE)
    /\ UNCHANGED shared

\* The sweep finds an open ask past its deadline (open_asks_due).
AskIsDue(d, r, a) ==
    /\ Carrying(d, "idle")
    /\ rows[r][a] = "open"
    /\ SetsOut(d, r, a, FALSE)
    /\ UNCHANGED shared

\* The sweep takes up a parked run.
SweepParked(d, r) ==
    /\ Carrying(d, "idle")
    /\ queue.parked[r] # 0
    /\ Carries(d, [IdleCourier EXCEPT !.pc = "look", !.run = r,
                                      !.ask = queue.parked[r]])
    /\ UNCHANGED shared

\* It wakes a run whose log no longer waits, asks about a stop for a question,
\* and else delivers the task's end, or the timeout of an ask closed before
\* its asker logged it.  While the task runs on an open ask it does nothing.
LookAtParked(d) ==
    LET l == log[dl[d].run]
        a == dl[d].ask
        waits == AskState(l, a) = "Open" /\ ~Ended(l)
    IN  /\ Carrying(d, "look")
        /\ IF ~waits THEN Turns(d, "wake")
           ELSE IF IsUserQuestion(l, a) THEN Turns(d, "stop")
           ELSE \/ SetsOut(d, dl[d].run, a, FALSE)
                \/ rows[dl[d].run][a] = "open" /\ Drops(d)
        /\ UNCHANGED shared

\* Mutant: the sweep leaves every question to its user.
LookAtNoStop(d) ==
    /\ Carrying(d, "stop")
    /\ Drops(d)
    /\ UNCHANGED shared

\* A question waits for its answer or a stop.
LookAtStop(d) ==
    /\ Carrying(d, "stop")
    /\ IF dl[d].run \in stops THEN Turns(d, "wake") ELSE Drops(d)
    /\ UNCHANGED shared

\* deliver reads the asker's log ...
DeliverRead(d) ==
    LET l == log[dl[d].run]
        state == AskState(l, dl[d].ask)
    IN  /\ Carrying(d, "deliver")
        /\ IF Ended(l) THEN Turns(d, "mark")
           ELSE IF state = "Unsent" /\ dl[d].leave THEN Drops(d)
           ELSE Turns(d, IF state = "Open" THEN "append" ELSE "mark")
        /\ UNCHANGED shared

\* ... and, having found the ask open there, appends with no condition.
DeliverAppend(d) ==
    /\ Carrying(d, "append")
    /\ log' = [log EXCEPT ![dl[d].run] = AppendEvents(@, <<About("Answer", dl[d].ask)>>)]
    /\ Turns(d, "mark")
    /\ UNCHANGED <<queue, rows, stops, faults>>

\* messages.answer
MarkAnswered(d) ==
    /\ Carrying(d, "mark")
    /\ rows' = [rows EXCEPT ![dl[d].run][dl[d].ask] = IF @ = "open" THEN "closed" ELSE @]
    /\ Turns(d, "wake")
    /\ UNCHANGED <<queue, log, stops, faults>>

WakeAsker(d) ==
    /\ Carrying(d, "wake")
    /\ queue' = Wake(queue, dl[d].run, dl[d].ask)
    /\ Drops(d)
    /\ UNCHANGED <<log, rows, stops, faults>>

\* A user answers run r (answer_question, first read).
UserAnswers(d, r) ==
    /\ Carrying(d, "idle")
    /\ r \in Answerable
    /\ Stored(r)
    /\ Carries(d, [IdleCourier EXCEPT !.pc = "question", !.run = r])
    /\ UNCHANGED shared

\* open_question: the run has not ended and waits on a question of its user,
\* the one first read if this is a retry.
ReadQuestion(d) ==
    LET l == log[dl[d].run]
        a == WaitingForMessage(l)
    IN  /\ Carrying(d, "question")
        /\ IF /\ ~Ended(l) /\ a # 0 /\ IsUserQuestion(l, a)
              /\ dl[d].ask \in {0, a}
           THEN Carries(d, [dl[d] EXCEPT !.pc = "reply", !.ask = a, !.seen = Len(l)])
           ELSE Drops(d)
        /\ UNCHANGED shared

\* Mutant: the reply is appended to whatever the log has become.
ReplyAnyhow(d) ==
    LET r == dl[d].run
    IN  /\ Carrying(d, "reply")
        /\ log' = [log EXCEPT ![r] = AppendEvents(@, <<About("Answer", dl[d].ask)>>)]
        /\ Turns(d, "wake")
        /\ UNCHANGED <<queue, rows, stops, faults>>

\* Appends onto the log it read, reads again if that moved, and wakes the run.
ReplyToQuestion(d) ==
    LET r == dl[d].run
        result == AppendResult(log[r], dl[d].seen)
    IN  /\ Carrying(d, "reply")
        /\ log' = [log EXCEPT ![r] =
                      AppendEventsAfter(@, dl[d].seen, <<About("Answer", dl[d].ask)>>)]
        /\ CASE result = "Appended" -> Turns(d, "wake")
             [] result = "Moved" /\ dl[d].tries + 1 < MaxTries ->
                  Carries(d, [dl[d] EXCEPT !.pc = "question", !.tries = @ + 1, !.seen = 0])
             [] OTHER -> Drops(d)
        /\ UNCHANGED <<queue, rows, stops, faults>>

\* Its thread dies, or a call fails and the answer is left to the next sweep.
\* An answer that could not be marked wakes its asker all the same.
CourierFails(d) ==
    /\ ~Carrying(d, "idle")
    /\ Fault
    /\ Drops(d) \/ (Carrying(d, "mark") /\ Turns(d, "wake"))
    /\ UNCHANGED <<queue, log, rows, stops>>

\* What a courier does once it has set out.
CourierCarries(d) ==
    \/ LookAtParked(d) \/ LookAtStop(d) \/ DeliverRead(d) \/ DeliverAppend(d)
    \/ MarkAnswered(d) \/ WakeAsker(d) \/ ReadQuestion(d) \/ ReplyToQuestion(d)

CourierStarts(d) ==
    \E r \in Runs : \/ SweepParked(d, r) \/ UserAnswers(d, r)
                    \/ \E a \in AskIds : TaskAnswers(d, r, a) \/ AskIsDue(d, r, a)
=============================================================================
