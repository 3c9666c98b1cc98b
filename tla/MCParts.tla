------------------------------ MODULE MCParts -------------------------------
(***************************************************************************)
(* The parts that work on their own, side by side: the runtime of a         *)
(* workflow, the compile of a Bend workflow, the line Bend prints, the      *)
(* script front ends and the connections to Redis.  The variable part says  *)
(* which of them a behaviour is about; the variables of the others are Off. *)
(***************************************************************************)
EXTENDS WorkflowProgram

CONSTANTS c1, c2, c3, Off

VARIABLES part,
    file, mode, program, pc, held, children, effects, faults,             \* WorkflowHost
    phase, tries, staged, dir, child, status, fork, pipe, sent, reader,   \* BendCompile
    flag, expired, result,
    read, stack, root,                                                    \* BendLine
    js, rhai, reading, spent, misused,                                    \* ScriptBuilder
    slot, caller, up                                                      \* RedisSlot

\* A name two parts have in common (pc, status, result) is one variable here.
onlyWorkflow == <<file, mode, program, held, children, effects, faults>>
onlyCompile  == <<phase, tries, staged, dir, child, fork, pipe, sent, reader, flag, expired>>
onlyLine     == <<read, stack, root>>
onlyScript   == <<js, rhai, reading, spent, misused>>
onlySlot     == <<slot, caller, up>>
vars == <<part, pc, status, result, onlyWorkflow, onlyCompile, onlyLine, onlyScript, onlySlot>>

(***************************************************************************)
(* The parts                                                               *)
(***************************************************************************)
Counter == Tool("counter")

\* The programs the repository runs.
OwnPrograms == {counter_program, Seq_(<<SpawnAgent("c1"), Complete>>)}

\* They, and the shapes its evaluation tests use: sequences, a branch inside a
\* sequence, a branch that records nothing before its check, a branch under a
\* branch.
AllPrograms == OwnPrograms \cup {
    Counter,
    Seq_(<<Counter, SpawnAgent("c1"), Counter, Complete>>),
    Seq_(<<OnCounter(Counter, SpawnAgent("c1"), SpawnAgent("c2")), Counter, Complete>>),
    Seq_(<<OnCounter(SpawnAgent("c1"), Fail, Complete), Counter,
           OnCounter(Fail, Complete, SpawnAgent("c2"))>>),
    OnCounter(Seq_(<<SpawnAgent("c1"), Counter>>),
              OnCounter(Fail, Seq_(<<Counter, Complete>>), Fail), Complete),
    Seq_(<<Tool("search"), Complete>>)}

Alphabet == {[kind |-> "tool", name |-> "counter", output |-> "0"],
             [kind |-> "tool", name |-> "counter", output |-> "1"],
             [kind |-> "tool", name |-> "search", output |-> "0"],
             [kind |-> "spawned", agent |-> "c1"]}

Workflow == INSTANCE WorkflowHost WITH
    FrameBytes <- 3, Programs <- AllPrograms, Outputs <- {"0", "1"}, MaxFaults <- 3,
    OldRecords <- UNION {[1..n -> Alphabet] : n \in 0..2}

Compile == INSTANCE BendCompile WITH
    Limit <- 2, MaxWrite <- 3, Attempts <- 2, Files <- 2, Forks <- "waited"

Script == INSTANCE ScriptBuilder WITH
    MaxDecisions <- 4, MaxItems <- 2, MaxReads <- 1, MaxMisuses <- 1

Slot == INSTANCE RedisSlot WITH
    Callers <- {c1, c2, c3}, REDIS_TIMEOUT <- 2, IDLE_CONNECTIONS <- 1

leaf(token) == [kind |-> "leaf", token |-> token]
items(s)    == [kind |-> "seq", items |-> s]
branch(a, b, c) == [kind |-> "on_counter", missing |-> a, zero |-> b, other |-> c]

Flat   == {leaf("complete"), leaf("tool"), items(<<>>)}
Nested == Flat \cup {items(<<a>>) : a \in Flat} \cup {items(<<a, b>>) : a, b \in Flat}
               \cup {branch(a, b, c) : a, b, c \in Flat}

Line == INSTANCE BendLine WITH
    Leaves <- {"complete", "tool"}, MaxTokens <- 6

KnownLines == Line!Lines(Nested \cup {items(<<a, b>>) : a, b \in Nested})

ASSUME /\ Workflow!FrameBytesAssumption /\ Workflow!WorkflowAssumption
       /\ Compile!CompileAssumption /\ Script!ScriptAssumption /\ Line!BendAssumption

(***************************************************************************)
(* The specification                                                       *)
(***************************************************************************)
NoWorkflow == /\ file = Off /\ mode = Off /\ program = Off /\ held = Off /\ children = Off /\ effects = Off
              /\ faults = Off
NoCompile  == /\ phase = Off /\ tries = Off /\ staged = Off /\ dir = Off /\ child = Off /\ fork = Off
              /\ pipe = Off /\ sent = Off /\ reader = Off /\ flag = Off /\ expired = Off
NoLine     == read = Off /\ stack = Off /\ root = Off
NoScript   == js = Off /\ rhai = Off /\ reading = Off /\ spent = Off /\ misused = Off
NoSlot     == slot = Off /\ caller = Off /\ up = Off

Init ==
    \/ /\ part = "workflow" /\ Workflow!Init /\ status = Off /\ result = Off
       /\ NoCompile /\ NoLine /\ NoScript /\ NoSlot
    \/ /\ part = "compile" /\ Compile!Init
       /\ NoWorkflow /\ NoLine /\ NoScript /\ NoSlot
    \/ /\ part = "line" /\ Line!Init /\ pc = Off /\ result = Off
       /\ NoWorkflow /\ NoCompile /\ NoScript /\ NoSlot
    \/ /\ part = "script" /\ Script!Init /\ pc = Off /\ status = Off
       /\ NoWorkflow /\ NoCompile /\ NoLine /\ NoSlot
    \/ /\ part = "slot" /\ Slot!Init /\ pc = Off /\ status = Off /\ result = Off
       /\ NoWorkflow /\ NoCompile /\ NoLine /\ NoScript

InWorkflow == part = "workflow" /\ UNCHANGED <<part, status, result, onlyCompile, onlyLine, onlyScript, onlySlot>>
InCompile  == part = "compile" /\ UNCHANGED <<part, onlyWorkflow, onlyLine, onlyScript, onlySlot>>
InLine     == part = "line" /\ UNCHANGED <<part, pc, result, onlyWorkflow, onlyCompile, onlyScript, onlySlot>>
InScript   == part = "script" /\ UNCHANGED <<part, pc, status, onlyWorkflow, onlyCompile, onlyLine, onlySlot>>
InSlot     == part = "slot" /\ UNCHANGED <<part, pc, status, result, onlyWorkflow, onlyCompile, onlyLine, onlyScript>>

Next ==
    \/ InWorkflow /\ Workflow!Next
    \/ InCompile /\ Compile!Next
    \/ InLine /\ Line!Next
    \/ InScript /\ Script!Next
    \/ InSlot /\ Slot!Next

\* The fairness each part states; the decoder and the builders have none.
FairSpec ==
    /\ Init /\ [][Next]_vars
    /\ WF_vars(InWorkflow /\ Workflow!Step)
    /\ WF_vars(InCompile /\ Compile!Main) /\ WF_vars(InCompile /\ Compile!Deadline)
    /\ WF_vars(InCompile /\ Compile!Read("stdout")) /\ WF_vars(InCompile /\ Compile!Read("stderr"))
    /\ WF_vars(InSlot /\ Slot!Tick)
    /\ \A c \in {c1, c2, c3} :
          WF_vars(InSlot /\ (Slot!take(c) \/ Slot!connected(c) \/ Slot!worked(c)))
    /\ SF_vars(InSlot /\ \E c \in {c1, c2, c3} : Slot!connected(c) /\ caller'[c].pc = "working")

(***************************************************************************)
(* Properties                                                              *)
(***************************************************************************)
\* Whatever kills and failed writes left in the file, every record committed
\* before is still there (journal.rs open, commit), and once a workflow has come
\* to its end its journal does not change any more (host.rs replay, join_all).
HistorySurvives ==
    [][part = "workflow" => Workflow!HistoryKept /\ Workflow!EndKept]_vars

\* A spawn starts one child however often it is asked for (host.rs start_child),
\* a recorded output is that of the last call made for it, and calls beyond the
\* recorded ones are paid for by faults (host.rs replay, stand_in).
RecordsAreReal ==
    part = "workflow" => Workflow!OneChildPerSpawn /\ Workflow!RecordedWasPerformed

\* Walking the whole history with a cursor gives, at every point of every run
\* and also over a journal another workflow left, the command that running the
\* workflow forwards would give (workflow-core evaluate_program).
ReplayAgreesWithLive ==
    part = "workflow" /\ mode = "replay" =>
        \A records \in {Workflow!history} :
            evaluate_program(program, records) = LiveCommand(program, records)

\* However the reads, the overrun flag and the exit came, accepted output of
\* Bend is whole and an output that fits is not refused as too long; and, for a
\* Bend that waits for the processes it starts (Forks = "waited") and unless the
\* wait for it failed, when compile returns no process, no unreaped child and no
\* directory of it is left (boundary.rs run_sandboxed, read_capped, kill_group).
CompileIsClean ==
    part = "compile" =>
        Compile!WholeOutput /\ Compile!LimitMeansOverrun /\ Compile!NothingLeft

\* The decoder's stack holds exactly what was read, in order, and the line of
\* every program that fits is accepted and gives that program (workflow-bend
\* parse_encoding).
LinesParse == part = "line" => Line!StackIsRead /\ Line!LinesParse(KnownLines)

\* A script's program is one tree of all the decisions it made, whatever ran
\* while an array was read; a script that broke a rule of a builtin does not
\* compile, also when it caught the error; and the same calls give the same
\* program in JS and in Rhai (workflow-js, workflow-rhai compiled, fault).
ScriptsCompileWhole ==
    part = "script" =>
        Script!EveryDecisionOnce /\ Script!MisuseNeverCompiles /\ Script!FrontendsAgree

\* A Redis that is down costs one wait, not one per caller (queue.rs
\* with_connection).
OneWaitPerTimeout == part = "slot" => Slot!OneWaitPerTimeout

\* The repository's own workflows come to their end, however often they are
\* interrupted (host.rs replay, join_all).
WorkflowsEnd ==
    part = "workflow" /\ program \in OwnPrograms \cup {Counter} /\ file = <<>> => Workflow!Ends

\* A compile returns, also when Bend or a process it waits for never ends
\* (boundary.rs run_sandboxed).
CompileReturns == part = "compile" => Compile!Returns

\* Once Redis stays up some caller gets a connection again and again (queue.rs
\* with_connection).
QueueRecovers ==
    (<>[](part = "slot" /\ up)) =>
        []<>(part = "slot" /\ \E c \in {c1, c2, c3} : caller[c].pc = "working")
=============================================================================
