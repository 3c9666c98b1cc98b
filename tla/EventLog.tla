------------------------------ MODULE EventLog ------------------------------
(***************************************************************************)
(* The event log of one run, and what the server reads off it.             *)
(*                                                                         *)
(* A log is a sequence of events, <<>> standing for a run that is not      *)
(* stored.  Events are grouped by the append that stores them: RunQueued   *)
(* is the created and queued pair a producer stores, RunScheduled the      *)
(* dispatch ladder, Step everything one decision of the harness recorded   *)
(* (a tool call, a model call, a denial, a refused message, ...).  An ask  *)
(* is named by the decision that sent it, and Answer is whatever answers   *)
(* it: the reply, the timeout or the user's text.                          *)
(***************************************************************************)
EXTENDS Naturals, Sequences, FiniteSets

CONSTANT MaxDecisions   \* decisions a run may take: RunSpec.limits.max_steps

ASSUME MaxDecisionsAssumption == MaxDecisions \in Nat \ {0}

AskIds == 1..MaxDecisions

Ends == {"RunCompleted", "RunFailed", "RunCancelled"}

AskTypes == {"MessageSent", "UserAsked"}

DecidedTypes == AskTypes \cup {"Step"}

Types == Ends \cup DecidedTypes \cup
         {"RunQueued", "RunScheduled", "RunStarted", "StepAdvanced", "Answer"}

Event == [type : Types, ask : 0..MaxDecisions]

\* An event that names no ask.
Plain(type) == [type |-> type, ask |-> 0]

\* An event that sends or answers ask a.
About(type, a) == [type |-> type, ask |-> a]

Has(l, types) == \E i \in DOMAIN l : l[i].type \in types

\* is_terminal over a whole log: the run has ended.
Ended(l) == Has(l, Ends)

\* Only what the producer stored: no worker scheduled the run, nothing ended it.
StillWaiting(l) == \A i \in DOMAIN l : l[i].type = "RunQueued"

\* The dispatch phase is still Queued: the ladder is not logged.
DispatchQueued(l) == ~Has(l, {"RunScheduled"})

\* Ended before any worker scheduled it.
NeverRan(l) == Ended(l) /\ ~Has(l, {"RunScheduled"})

\* fold's count of decisions.
Decisions(l) == Cardinality({i \in DOMAIN l : l[i].type \in DecidedTypes})

\* Where ask a stands in log l, read in order: an answer before the ask was
\* logged does not count.
AskState(l, a) ==
    LET sent == {i \in DOMAIN l : l[i].type \in AskTypes /\ l[i].ask = a}
        answered == {j \in DOMAIN l : /\ l[j] = About("Answer", a)
                                      /\ \A i \in sent : i < j}
    IN  IF sent = {} THEN "Unsent"
        ELSE IF answered = {} THEN "Open" ELSE "Answered"

\* The ask the folded harness waits on (WaitingForMessage), 0 if none.
WaitingForMessage(l) ==
    IF \E a \in AskIds : AskState(l, a) = "Open"
    THEN CHOOSE a \in AskIds : AskState(l, a) = "Open"
    ELSE 0

\* Ask a is a question to the run's user, not to another agent.
IsUserQuestion(l, a) == \E i \in DOMAIN l : l[i] = About("UserAsked", a)

\* The harness is Running with its step answered: an ask was answered and the
\* step has not advanced since.
StepAnswered(l) ==
    Cardinality({a \in AskIds : AskState(l, a) = "Answered"})
        > Cardinality({i \in DOMAIN l : l[i].type = "StepAdvanced"})

\* What Driver::resume records of a log the harness has not started.
StartEvents(l) == IF Has(l, {"RunStarted"}) THEN <<>> ELSE <<Plain("RunStarted")>>

\* What a resumed driver records before its first boundary.
ResumeEvents(l) ==
    IF Has(l, {"RunStarted"}) /\ StepAnswered(l) THEN <<Plain("StepAdvanced")>>
    ELSE StartEvents(l)

(***************************************************************************)
(* The store's append.  append_events_after passes the length the writer   *)
(* read; append_events has no such condition, which is the same as passing *)
(* the length the log has.                                                 *)
(***************************************************************************)
\* Mutant: the length the writer read is not compared.
AppendsAnywhere(l, seen) ==
    IF l = <<>> THEN "Missing" ELSE IF Ended(l) THEN "Terminal" ELSE "Appended"

\* Mutant: an ended log takes more events.
AppendsAfterEnd(l, seen) ==
    IF l = <<>> THEN "Missing" ELSE IF seen # Len(l) THEN "Moved" ELSE "Appended"

AppendResult(l, seen) ==
    IF l = <<>> THEN "Missing"
    ELSE IF Ended(l) THEN "Terminal"
    ELSE IF seen # Len(l) THEN "Moved"
    ELSE "Appended"

AppendEventsAfter(l, seen, events) ==
    IF AppendResult(l, seen) = "Appended" THEN l \o events ELSE l

AppendEvents(l, events) == AppendEventsAfter(l, Len(l), events)
=============================================================================
