------------------------------ MODULE Harness -------------------------------
(***************************************************************************)
(* The harness driver of one run: it decides, authorizes and performs one   *)
(* effect after another, and its log of events is all the state it has.     *)
(* The caller keeps some prefix of the log; a driver that dies is resumed    *)
(* from that prefix, wherever it is cut, against a world that remembers     *)
(* what the dead one did (driver.rs, authorizer.rs, reduce.rs, fold.rs).    *)
(***************************************************************************)
EXTENDS Integers, Sequences, SequencesExt

CONSTANTS
    Capabilities,   \* RunSpec.capabilities
    Tools,          \* the tools of the run, each with the capability it needs
    Hop,            \* RunSpec.lineage.hop
    MaxHops,        \* MAX_DELEGATION_HOPS
    Named,          \* the scopes the spec's metadata names an owner for
    Effects,        \* what the decider may answer
    MaxSteps,       \* limits.max_steps
    MaxModelCalls,  \* limits.max_model_calls
    MaxChildren,    \* MAX_CHILDREN
    UserQuestions,  \* with_user_questions
    MaxCrashes      \* bound: how often the driver dies

ASSUME HarnessAssumption ==
    /\ Hop \in Nat /\ MaxHops \in Nat
    /\ {MaxSteps, MaxModelCalls, MaxChildren, MaxCrashes} \subseteq Nat

VARIABLES
    log,       \* the events of the run
    kept,      \* how many of them the caller has stored
    pc,        \* where run_until stands
    todo,      \* the authorized effect to perform, <<>> for none
    prior,     \* a decision to authorize and the harness before it, <<>> for none
    children,  \* the world: tasks and children started, with their limits
    sent,      \* the world: messages stored, by the decision that sent them
    crashes

vars == <<log, kept, pc, todo, prior, children, sent, crashes>>

(***************************************************************************)
(* authorizer.rs: what a run's spec allows it to do                         *)
(***************************************************************************)
Asking  == {"ask", "ask_back"}
Sending == Asking \cup {"tell", "reply"}

\* A tell, a new ask or a reply that asks back starts a task.
StartsTask(e) == e.kind \in {"tell", "ask", "ask_back"}

\* memory_owner_id: whose memory a scope is, if anyone's.
HasOwner(scope) ==
    CASE scope = "global" -> FALSE
      [] scope \in {"session", "workspace"} -> scope \in Named
      [] OTHER -> TRUE

CheckMessage(e) ==
    /\ StartsTask(e) => Hop < MaxHops
    /\ e.fits
    /\ e.timeout => e.kind \in Asking

AllowCapability(capability) == capability \in Capabilities

AllowMemory(capability, scope) == AllowCapability(capability) /\ HasOwner(scope)

Authorize(e) ==
    CASE e.kind = "complete" -> TRUE
      [] e.kind = "model"    -> AllowCapability("model.call")
      [] e.kind = "read"     -> AllowMemory("memory.read", e.arg)
      [] e.kind = "write"    -> AllowMemory("memory.write", e.arg)
      [] e.kind = "tool"     -> e.arg \in DOMAIN Tools /\ AllowCapability(Tools[e.arg])
      [] e.kind = "delegate" -> AllowCapability("agent.delegate") /\ Hop < MaxHops
      [] e.kind \in Sending  -> AllowCapability("agent.message") /\ CheckMessage(e)
      [] e.kind = "question" -> AllowCapability("user.ask") /\ e.fits
      [] OTHER               -> FALSE

(***************************************************************************)
(* Events                                                                  *)
(***************************************************************************)
Nothing == [kind |-> "none"]

Ev(type) == [type |-> type, effect |-> Nothing, id |-> <<>>, limits |-> <<0, 0>>]
About(type, effect) == [Ev(type) EXCEPT !.effect = effect]
Of(type, id) == [Ev(type) EXCEPT !.id = id]

RunEnds == {"RunCompleted", "RunFailed", "RunCancelled"}

IsRunEnd(event) == event.type \in RunEnds

LogEnded(l) == \E i \in DOMAIN l : IsRunEnd(l[i])

(***************************************************************************)
(* The reducer                                                             *)
(***************************************************************************)
State(st) == [st |-> st, step |-> 0, answered |-> FALSE, on |-> <<>>]
Running(step, answered) == [State("Running") EXCEPT !.step = step, !.answered = answered]

IsTerminal(h) == h.st \in {"Completed", "Failed", "Cancelled"}
Open(h) == h.st \in {"Running", "WaitingForTool", "WaitingForMessage"}

\* Whether the harness acts on an effect in a state.
Applicable(h, e) ==
    /\ h.st = "Running"
    /\ CASE e.kind = "tool" -> ~h.answered /\ h.step \in 1..MaxSteps
         [] e.kind \in Asking \cup {"question"} -> ~h.answered
         [] OTHER -> e.kind # "other"

OnAuthorized(h, e, id) ==
    IF ~Applicable(h, e) THEN h
    ELSE CASE e.kind = "tool"     -> [h EXCEPT !.st = "WaitingForTool", !.on = id]
           [] e.kind = "complete" -> State("Completed")
           [] OTHER               -> h

\* The answer to what a step waits on.
Answered(h, st, id) == IF h.st = st /\ h.on = id THEN Running(h.step, TRUE) ELSE h

Asked(h, id) ==
    IF h.st = "Running" /\ ~h.answered
    THEN [h EXCEPT !.st = "WaitingForMessage", !.on = id] ELSE h

Reduce(h, event) ==
    IF IsTerminal(h) THEN h
    ELSE CASE event.type = "RunStarted" -> IF h.st = "Idle" THEN Running(1, FALSE) ELSE h
           [] event.type = "EffectAuthorized" -> OnAuthorized(h, event.effect, event.id)
           [] event.type = "ToolResult"       -> Answered(h, "WaitingForTool", event.id)
           [] event.type \in {"AskSent", "UserAsked"} -> Asked(h, event.id)
           [] event.type = "Answer"           -> Answered(h, "WaitingForMessage", event.id)
           [] event.type = "StepAdvanced"     ->
                IF h.st = "Running" /\ h.answered /\ h.step < MaxSteps
                THEN Running(h.step + 1, FALSE) ELSE h
           [] event.type = "RunCompleted"     -> IF h.st = "Running" THEN State("Completed") ELSE h
           [] event.type = "RunFailed"        -> IF Open(h) THEN State("Failed") ELSE h
           [] event.type = "RunCancelled"     -> IF Open(h) THEN State("Cancelled") ELSE h
           [] OTHER                           -> h

\* The binder has TLC evaluate each state once.
Fold(l) ==
    LET f[i \in 0..Len(l)] == IF i = 0 THEN State("Idle")
                              ELSE CHOOSE n \in {Reduce(h, l[i]) : h \in {f[i - 1]}} : TRUE
    IN  f[Len(l)]

(***************************************************************************)
(* What the log has spent                                                  *)
(***************************************************************************)
\* Decisions, but for the Complete of a running harness.
Steps(l) ==
    Cardinality({i \in DOMAIN l :
        /\ l[i].type = "EffectDecided"
        /\ ~(l[i].effect.kind = "complete" /\ Fold(SubSeq(l, 1, i - 1)).st = "Running")})

ModelCalls(l) ==
    Cardinality({i \in DOMAIN l : l[i].type = "EffectAuthorized" /\ l[i].effect.kind = "model"})

\* The children the log names, each once, with the limits it was given.
Given(l) == {[id |-> l[i].id, limits |-> l[i].limits] :
                i \in {i \in DOMAIN l : l[i].type = "ChildStarted"}}

\* Steps (1) or model calls (2) given to a set of children.
SumOf(set, k) == MapThenSumSet(LAMBDA c : c.limits[k], set)

StepsSpent(l) == Steps(l) + SumOf(Given(l), 1) >= MaxSteps
ModelCallsSpent(l) == ModelCalls(l) + SumOf(Given(l), 2) >= MaxModelCalls

Left(max, used) == IF used < max THEN max - used ELSE 0

\* Mutant: what the run spent itself is not subtracted.
CarveFromAll(l) ==
    LET steps == Left(MaxSteps, SumOf(Given(l), 1))
        calls == Left(MaxModelCalls, SumOf(Given(l), 2))
    IN  IF Fold(l).st # "Running" \/ Cardinality(Given(l)) >= MaxChildren \/ steps < 2 \/ calls < 2
        THEN <<>> ELSE <<steps \div 2, calls \div 2>>

\* carve: half of what is left, <<>> when refused.
Carve(l) ==
    LET steps == Left(MaxSteps, Steps(l) + SumOf(Given(l), 1))
        calls == Left(MaxModelCalls, ModelCalls(l) + SumOf(Given(l), 2))
    IN  IF Fold(l).st # "Running" \/ Cardinality(Given(l)) >= MaxChildren \/ steps < 2 \/ calls < 2
        THEN <<>> ELSE <<steps \div 2, calls \div 2>>

(***************************************************************************)
(* Authorizing and performing                                              *)
(***************************************************************************)
Performs(e) == e.kind \notin {"complete", "other"}

\* authorize_decided: the verdict on the last decision of l, from the harness
\* before it.
Verdict(l, h, e) ==
    IF Authorize(e) /\ Applicable(h, e)
    THEN <<[About("EffectAuthorized", e) EXCEPT !.id = <<Steps(l)>>]>>
         \o (IF e.kind = "complete" THEN <<Ev("RunCompleted")>> ELSE <<>>)
    ELSE <<About("EffectDenied", e)>>

\* Mutant: the last authorization, whatever followed it.
EffectsOfLastAuthorized(l) ==
    LET at == {i \in DOMAIN l : l[i].type = "EffectAuthorized" /\ Performs(l[i].effect)}
    IN  IF at = {} THEN <<>> ELSE <<l[CHOOSE i \in at : \A j \in at : j <= i].effect>>

\* effects_of_last: the effect of a log's last event.
EffectsOfLast(l) ==
    IF l # <<>> /\ Last(l).type = "EffectAuthorized" /\ Performs(Last(l).effect)
    THEN <<Last(l).effect>> ELSE <<>>

\* advance_answered_step
Advanced(l) ==
    LET h == Fold(l)
    IN  IF h.st = "Running" /\ h.answered /\ h.step < MaxSteps THEN Append(l, Ev("StepAdvanced")) ELSE l

\* The id of the child a request names: a delegation is named by its harness
\* step and what it asks, a message's task by the decision that sent it.
ChildId(l, e) == IF e.kind = "delegate" THEN <<"child", Fold(l).step, e.arg>>
                                       ELSE <<"task", Steps(l), "">>

IsStarted(id) == \E c \in children : c.id = id

\* The spawner's answer: a child asked for before keeps its limits.
Started(id, limits) ==
    IF IsStarted(id) THEN CHOOSE c \in children : c.id = id ELSE [id |-> id, limits |-> limits]

ChildStarted(c) == [Of("ChildStarted", c.id) EXCEPT !.limits = c.limits]

(***************************************************************************)
(* The actions                                                             *)
(***************************************************************************)
\* The log of a run a worker has scheduled, and nobody drives.
Init ==
    /\ log = <<Ev("RunCreated"), Ev("RunScheduled")>>
    /\ kept = Len(log)
    /\ pc = "down"
    /\ todo = <<>> /\ prior = <<>>
    /\ children = {} /\ sent = <<>>
    /\ crashes = 0

HasStarted(l) == \E i \in DOMAIN l : l[i].type = "RunStarted"

\* What a resumed driver has to do first: authorize a decision, or perform an
\* effect.
TakeUp ==
    LET undecided == Last(log).type = "EffectDecided"
    IN  /\ prior' = IF undecided THEN <<Fold(SubSeq(log, 1, Len(log) - 1)), Last(log).effect>> ELSE <<>>
        /\ todo' = IF undecided THEN <<>> ELSE EffectsOfLast(log)
        /\ pc' = "finish"
        /\ UNCHANGED log

\* What it adds to a log cut before its start or before its end.
Add(type) ==
    /\ log' = Append(log, Ev(type))
    /\ pc' = "boundary"
    /\ UNCHANGED <<todo, prior>>

\* Mutant: a harness that completed with no end in its log gets none.
ResumeCompleted ==
    /\ pc = "down"
    /\ IF LogEnded(log) THEN pc' = "boundary" /\ UNCHANGED <<log, todo, prior>>
       ELSE IF ~HasStarted(log) THEN Add("RunStarted")
       ELSE TakeUp
    /\ UNCHANGED <<kept, children, sent, crashes>>

\* Driver::resume, at whatever event the log was cut.
Resume ==
    /\ pc = "down"
    /\ IF LogEnded(log) THEN pc' = "boundary" /\ UNCHANGED <<log, todo, prior>>
       ELSE IF ~HasStarted(log) THEN Add("RunStarted")
       ELSE IF Fold(log).st = "Completed" THEN Add("RunCompleted")
       ELSE TakeUp
    /\ UNCHANGED <<kept, children, sent, crashes>>

\* run_until first finishes the step the log was cut in.
Finish ==
    /\ pc = "finish"
    /\ log' = IF prior = <<>> THEN log ELSE log \o Verdict(log, prior[1], prior[2])
    /\ todo' = IF prior = <<>> THEN todo ELSE EffectsOfLast(log')
    /\ prior' = <<>>
    /\ pc' = "perform"
    /\ UNCHANGED <<kept, children, sent, crashes>>

\* The decider's answer, within the budget, recorded and authorized.
Decide(e) ==
    LET h == Fold(log)
        overBudget == CASE e.kind = "complete" /\ h.st = "Running" -> FALSE
                        [] e.kind = "model" -> StepsSpent(log) \/ ModelCallsSpent(log)
                        [] OTHER -> StepsSpent(log)
        decided == Append(log, About("EffectDecided", e))
    IN  /\ pc = "boundary" /\ ~IsTerminal(h) /\ ~LogEnded(log)
        /\ h.st # "WaitingForMessage"
        /\ log' = IF overBudget THEN Append(log, Ev("RunFailed")) ELSE decided \o Verdict(decided, h, e)
        /\ todo' = EffectsOfLast(log')
        /\ pc' = IF todo' = <<>> THEN "boundary" ELSE "perform"
        /\ UNCHANGED <<kept, prior, children, sent, crashes>>

\* The decider, or what the caller needs for it, fails: the caller ends the run.
DeciderFails ==
    /\ pc = "boundary" /\ ~IsTerminal(Fold(log)) /\ ~LogEnded(log)
    /\ Fold(log).st # "WaitingForMessage"
    /\ log' = Append(log, Ev("RunFailed"))
    /\ UNCHANGED <<kept, pc, todo, prior, children, sent, crashes>>

\* What an effect's performance records: more events, and the next step when
\* it answered the step.
Record(events) ==
    /\ log' = Advanced(log \o events)
    /\ todo' = <<>> /\ pc' = "boundary"
    /\ UNCHANGED <<kept, prior, crashes>>

PerformNothing ==
    /\ pc = "perform" /\ todo = <<>>
    /\ Record(<<>>)
    /\ UNCHANGED <<children, sent>>

\* deliver_tool_result: the answer to the invocation the step waits on.
ToolAnswer == Of("ToolResult", Fold(log).on)

\* The tool's result, or its error; a tool that is gone fails the run too.
CallTool ==
    /\ pc = "perform" /\ todo # <<>> /\ todo[1].kind = "tool"
    /\ Record(<<ToolAnswer>>) \/ Record(<<Ev("RunFailed")>>)
    /\ UNCHANGED <<children, sent>>

CallModel ==
    /\ pc = "perform" /\ todo # <<>> /\ todo[1].kind = "model"
    /\ Record(<<Ev("ModelResponded")>>) \/ Record(<<Ev("RunFailed")>>)
    /\ UNCHANGED <<children, sent>>

\* fail_unowned, fail_memory: the run ends.
FailMemory == <<Ev("RunFailed")>>

UseMemory ==
    /\ pc = "perform" /\ todo # <<>> /\ todo[1].kind \in {"read", "write"}
    /\ \/ HasOwner(todo[1].arg) /\ Record(<<About("MemoryUsed", todo[1])>>)
       \/ Record(FailMemory)
    /\ UNCHANGED <<children, sent>>

Delegate ==
    LET limits == Carve(log)
        child == Started(ChildId(log, todo[1]), limits)
    IN  /\ pc = "perform" /\ todo # <<>> /\ todo[1].kind = "delegate"
        /\ \/ /\ limits # <<>>
              /\ children' = children \cup {child}
              /\ Record(<<ChildStarted(child)>>)
           \/ Record(<<Ev("DelegateRefused")>>) /\ UNCHANGED children
        /\ UNCHANGED sent

\* The message rows are keyed by the decision; one with other content refuses
\* the message.
Accepts(d, e) == \A i \in DOMAIN sent : sent[i].d = d => sent[i].e = e

SendMessage ==
    LET e == todo[1]
        d == Steps(log)
        limits == Carve(log)
        task == Started(ChildId(log, e), limits)
        said == Of(IF e.kind \in Asking THEN "AskSent" ELSE "MessageSent", <<d>>)
    IN  /\ pc = "perform" /\ todo # <<>> /\ e.kind \in Sending
        /\ \/ /\ Fold(log).st = "Running" /\ Accepts(d, e)
              /\ StartsTask(e) => limits # <<>>
              /\ sent' = IF \E i \in DOMAIN sent : sent[i].d = d THEN sent ELSE Append(sent, [d |-> d, e |-> e])
              /\ children' = IF StartsTask(e) THEN children \cup {task} ELSE children
              /\ Record((IF StartsTask(e) THEN <<ChildStarted(task)>> ELSE <<>>) \o <<said>>)
           \/ Record(<<Ev("MessageRefused")>>) /\ UNCHANGED <<children, sent>>

AskUser ==
    /\ pc = "perform" /\ todo # <<>> /\ todo[1].kind = "question"
    /\ Record(<<IF UserQuestions THEN Of("UserAsked", <<Steps(log)>>) ELSE Ev("UserAskRefused")>>)
    /\ UNCHANGED <<children, sent>>

\* The caller stores what the driver has recorded.
Keep ==
    /\ pc = "boundary" /\ kept < Len(log)
    /\ kept' = Len(log)
    /\ UNCHANGED <<log, pc, todo, prior, children, sent, crashes>>

\* run_until returns, with the run ended or waiting for an answer.
Return ==
    /\ pc = "boundary" /\ kept = Len(log)
    /\ LogEnded(log) \/ IsTerminal(Fold(log)) \/ Fold(log).st = "WaitingForMessage"
    /\ pc' = IF LogEnded(log) THEN "done" ELSE "down"
    /\ UNCHANGED <<log, kept, todo, prior, children, sent, crashes>>

\* The caller asks the driver to cancel at a boundary.
Cancel ==
    /\ pc = "boundary" /\ ~LogEnded(log) /\ ~IsTerminal(Fold(log))
    /\ log' = Append(log, Ev("RunCancelled"))
    /\ UNCHANGED <<kept, pc, todo, prior, children, sent, crashes>>

\* The driver dies; the log is cut somewhere after what the caller kept.
Crash ==
    /\ pc \notin {"down", "done"} /\ crashes < MaxCrashes
    /\ crashes' = crashes + 1
    /\ \E k \in kept..Len(log) : log' = SubSeq(log, 1, k) /\ kept' = k
    /\ pc' = "down" /\ todo' = <<>> /\ prior' = <<>>
    /\ UNCHANGED <<children, sent>>

\* What other writers append to the log of a run nobody drives: the answer it
\* waits for, or its end.
Reply ==
    /\ pc = "down" /\ Fold(log).st = "WaitingForMessage"
    /\ log' = Append(log, Of("Answer", Fold(log).on))
    /\ kept' = Len(log')
    /\ UNCHANGED <<pc, todo, prior, children, sent, crashes>>

EndedByOther ==
    /\ pc = "down" /\ ~LogEnded(log)
    /\ log' = Append(log, Ev("RunCancelled"))
    /\ kept' = Len(log')
    /\ UNCHANGED <<pc, todo, prior, children, sent, crashes>>

Perform == PerformNothing \/ CallTool \/ CallModel \/ UseMemory \/ Delegate \/ SendMessage \/ AskUser

Drive == Resume \/ Finish \/ (\E e \in Effects : Decide(e)) \/ Perform \/ Keep \/ Return

Next == Drive \/ DeciderFails \/ Cancel \/ Crash \/ Reply \/ EndedByOther

Spec == Init /\ [][Next]_vars

\* A driver that is up goes on, and a run that waits for nobody is resumed.
FairSpec == Spec /\ WF_vars(Drive)

(***************************************************************************)
(* Properties                                                              *)
(***************************************************************************)
TypeOK ==
    /\ \A i \in DOMAIN log : log[i].effect \in Effects \cup {Nothing} /\ log[i].limits \in Nat \X Nat
    /\ kept \in 0..Len(log)
    /\ pc \in {"down", "finish", "boundary", "perform", "done"}
    /\ todo \in {<<>>} \cup {<<e>> : e \in Effects}
    /\ \A c \in children : c.limits \in Nat \X Nat
    /\ crashes \in 0..MaxCrashes

\* What an authorized effect may leave in the log next.
Results(e) ==
    CASE e.kind = "tool"     -> {"ToolResult"}
      [] e.kind = "model"    -> {"ModelResponded"}
      [] e.kind \in {"read", "write"} -> {"MemoryUsed"}
      [] e.kind = "delegate" -> {"ChildStarted", "DelegateRefused"}
      [] e.kind \in Sending  -> {"ChildStarted", "AskSent", "MessageSent", "MessageRefused"}
      [] e.kind = "question" -> {"UserAsked", "UserAskRefused"}
      [] OTHER               -> {}

\* Wherever the log was cut and however often the driver died, it reads as if
\* one driver had written it: a decision is followed by its one verdict, an
\* authorized effect by its one result, and neither stands anywhere else
\* (Driver::resume, run_until); only an end may come in between.  Nothing
\* follows an end: whoever resumes a log that another writer ended adds nothing.
OneDriverLog ==
    \A i \in 1..(Len(log) - 1) :
        LET a == log[i]
            b == log[i + 1]
        IN  /\ ~IsRunEnd(a)
            /\ a.type = "EffectDecided" =>
                 \/ b.type \in {"EffectAuthorized", "EffectDenied"} /\ b.effect = a.effect
                 \/ IsRunEnd(b)
            /\ b.type \in {"EffectAuthorized", "EffectDenied"} => a.type = "EffectDecided"
            /\ a.type = "EffectAuthorized" => b.type \in Results(a.effect) \/ IsRunEnd(b)
            /\ b.type \in {"ToolResult", "ModelResponded", "MemoryUsed", "ChildStarted", "UserAsked"} =>
                 a.type = "EffectAuthorized"

\* The run and everything it started stay within its budget, what it decided
\* and what its children were really given taken together (carve; fold.rs
\* given_steps).  A driver that dies between starting a child and naming it
\* does not know what it gave, so this is asked of one that did not die.
GivenIsSpent ==
    crashes = 0 => /\ Steps(log) + SumOf(children, 1) <= MaxSteps
                   /\ ModelCalls(log) + SumOf(children, 2) <= MaxModelCalls

\* Every run ends or waits for an answer: whatever the decider answers, denied
\* or not, its budget runs out.
RunsSettle == <>[](LogEnded(log) \/ Fold(log).st = "WaitingForMessage")

(***************************************************************************)
(* A small instance                                                        *)
(***************************************************************************)
E(kind, arg) == [kind |-> kind, arg |-> arg, fits |-> TRUE, timeout |-> FALSE]

Complete == E("complete", "")
Echo     == E("tool", "echo")
Model    == E("model", "")
Remember == E("write", "user")
Child    == E("delegate", "a")
Child2   == E("delegate", "b")
Ask      == E("ask", "a")
Question == E("question", "")
LongAsk  == [E("ask", "a") EXCEPT !.fits = FALSE]

\* One effect of each kind, and one that is denied.
Some == {Complete, Echo, Model, Remember, Child, Child2, Ask, Question, LongAsk}

AllCaps  == {"model.call", "memory.read", "memory.write", "agent.delegate", "agent.message",
             "user.ask", "tool.echo"}
EchoTool == [tool \in {"echo"} |-> "tool.echo"]
=============================================================================
