----------------------------- MODULE WorkflowHost -----------------------------
(***************************************************************************)
(* The runtime of one workflow run (crates/runtime-tokio): a process opens *)
(* the journal, evaluates the workflow over it, carries out the one        *)
(* command, records it, and starts over.  The process may be killed        *)
(* between any two calls and in the middle of a write, and is started      *)
(* again.  What it does outside (children it starts, tools it runs) stays  *)
(* done.  What the workflow does next is a function of the records.        *)
(***************************************************************************)
EXTENDS Journal

CONSTANTS Programs,    \* the workflows
          OldRecords,  \* what a journal may hold when this workflow is first run
          Outputs,     \* what the counter may return
          MaxFaults,   \* kills, failed writes and refused children of a behaviour
          evaluate_program(_, _)  \* the command a workflow gives over some records
WorkflowAssumption == MaxFaults \in Nat /\ "none" \notin Outputs

VARIABLES
    mode,      \* which loop runs: replay, or join_all
    program,
    pc,        \* the call the process is about to make
    held,      \* the record it is about to commit
    children,  \* the child runs started: one per request
    effects,   \* the tools run, oldest first
    faults

vars == <<file, mode, program, pc, held, children, effects, faults>>

None == [kind |-> "none"]
Counter == [kind |-> "tool", name |-> "counter"]
Command == evaluate_program(program, history)

ToolsIn(records) == {i \in DOMAIN records : records[i].kind = "tool"}

Foreign == <<<<[kind |-> "foreign"], 1>>>>

(* A new file, one an earlier run (perhaps of another version of the       *)
(* workflow) left, or one that is not a journal.                           *)
Init == /\ mode \in {"replay", "join"}
        /\ program \in (IF mode = "replay" THEN Programs ELSE {Counter})
        /\ file \in {<<>>, Foreign} \cup {FileOf(old) : old \in OldRecords}
        /\ pc = "down"
        /\ held = None
        /\ children = {[step |-> i - 1, agent |-> history[i].agent] :
                          i \in {j \in DOMAIN history : history[j].kind = "spawned"}}
        /\ effects = [i \in 1..Cardinality(ToolsIn(history)) |->
                        LET at == CHOOSE j \in ToolsIn(history) :
                                     Cardinality(ToolsIn(history) \cap 1..j) = i
                        IN  [step |-> at - 1, output |-> history[at].output]]
        /\ faults = 0

-----------------------------------------------------------------------------
open == /\ pc = "down"
        /\ Readable
        /\ CutTail
        /\ pc' = IF NeedsStart THEN "start" ELSE "ready"
        /\ UNCHANGED <<mode, program, held, children, effects, faults>>

openRefused == /\ pc = "down"
               /\ ~Readable
               /\ pc' = "refused"
               /\ UNCHANGED <<file, mode, program, held, children, effects, faults>>

(* The journal's first frame. *)
writeStart == /\ pc = "start"
              /\ append(StartRecord)
              /\ pc' = "ready"
              /\ UNCHANGED <<mode, program, held, children, effects, faults>>

\* Mutant: the loop ends only when the workflow is complete.
replayUntilComplete ==
          /\ mode = "replay" /\ pc = "ready"
          /\ pc' = CASE Command.kind = "spawn" -> "spawn"
                     [] Command = Counter -> "tool"
                     [] Command.kind = "complete" -> "done"
                     [] OTHER -> "ready"
          /\ UNCHANGED <<file, mode, program, held, children, effects, faults>>

(* Evaluating the workflow: the one command it gives is carried out by the *)
(* next call.  Of the tools only the counter is run.                       *)
replay == /\ mode = "replay" /\ pc = "ready"
          /\ \E command \in {Command} :
                pc' = CASE command.kind = "spawn" -> "spawn"
                        [] command = Counter -> "tool"
                        [] OTHER -> "done"
          /\ UNCHANGED <<file, mode, program, held, children, effects, faults>>

\* Mutant: children are numbered as they are asked for.
start_childNumbered ==
               /\ pc = "spawn"
               /\ children' = children \cup {[step |-> Cardinality(children), agent |-> Command.agent]}
               /\ held' = AgentSpawned(Command.agent)
               /\ pc' = "commit"
               /\ UNCHANGED <<file, mode, program, effects, faults>>

(* The child's request is the journal's length and the agent: asked twice  *)
(* it is the same child.                                                   *)
start_child == /\ pc = "spawn"
               /\ children' = children \cup {[step |-> Len(history), agent |-> Command.agent]}
               /\ held' = AgentSpawned(Command.agent)
               /\ pc' = "commit"
               /\ UNCHANGED <<file, mode, program, effects, faults>>

start_childRefused == /\ pc = "spawn"
                      /\ faults < MaxFaults
                      /\ faults' = faults + 1
                      /\ pc' = "ready"
                      /\ UNCHANGED <<file, mode, program, held, children, effects>>

(* The counter is run for the record at the journal's end; in join_all it  *)
(* is the handle's number that names the call, and the journal's length    *)
(* picks the handle.                                                       *)
stand_in == /\ pc = "tool"
            /\ \E output \in Outputs :
                  /\ effects' = Append(effects, [step |-> Len(history), output |-> output])
                  /\ held' = ToolRecord("counter", output)
            /\ pc' = "commit"
            /\ UNCHANGED <<file, mode, program, children, faults>>

(* join_all runs two counters and stops; a longer journal is an error. *)
join_all == /\ mode = "join" /\ pc = "ready"
            /\ pc' = IF Len(history) < 2 THEN "tool" ELSE "done"
            /\ UNCHANGED <<file, mode, program, held, children, effects, faults>>

commit == /\ pc = "commit"
          /\ append(held)
          /\ held' = None
          /\ pc' = "ready"
          /\ UNCHANGED <<mode, program, children, effects, faults>>

(* A write fails.  Rolled back, the caller may go on with the same journal;*)
(* when the roll-back fails as well, it ends with the error.               *)
commitFailed == /\ pc = "commit"
                /\ faults < MaxFaults
                /\ faults' = faults + 1
                /\ \/ appendFailed /\ pc' = "ready"
                   \/ /\ \E n \in 1..(FrameBytes - 1) : appendTorn(held, n)
                      /\ pc' = "down"
                /\ held' = None
                /\ UNCHANGED <<mode, program, children, effects>>

(* The process is killed, in the middle of a write too. *)
Kill == /\ pc \notin {"down", "refused"}
        /\ faults < MaxFaults
        /\ faults' = faults + 1
        /\ \E n \in 0..(FrameBytes - 1) :
              CASE pc = "start" -> appendTorn(StartRecord, n)
                [] pc = "commit" -> appendTorn(held, n)
                [] OTHER -> n = 0 /\ UNCHANGED file
        /\ held' = None
        /\ pc' = "down"
        /\ UNCHANGED <<mode, program, children, effects>>

(* The workflow is run again after it ended. *)
Rerun == /\ pc \in {"done", "refused"}
         /\ pc' = "down"
         /\ UNCHANGED <<file, mode, program, held, children, effects, faults>>

Step == \/ open \/ openRefused \/ writeStart
        \/ replay \/ start_child \/ stand_in \/ join_all \/ commit
Next == Step \/ start_childRefused \/ commitFailed \/ Kill \/ Rerun

Spec == Init /\ [][Next]_vars

(* A started process goes on, and a run that was killed is started again. *)
FairSpec == Spec /\ WF_vars(Step)

-----------------------------------------------------------------------------
TypeOK ==
    /\ mode \in {"replay", "join"}
    /\ pc \in {"down", "start", "ready", "spawn", "tool", "commit", "done", "refused"}
    /\ (pc = "commit") <=> (held # None)
    /\ \A c \in children : c.step \in Nat
    /\ \A i \in DOMAIN effects : effects[i].step \in Nat /\ effects[i].output \in STRING
    /\ faults \in 0..MaxFaults
    /\ \A i \in DOMAIN history : history[i].kind \in {"tool", "spawned"}

(* A step: whatever the kills and failed writes left in the file, it can   *)
(* be read and every record committed before is still there, in its place; *)
(* a file that is not a journal is never written.                          *)
HistoryKept ==
    IF Readable THEN Readable' /\ IsPrefix(history, history') ELSE UNCHANGED file

(* A spawn of the workflow starts one child however often it is asked for: *)
(* every AgentSpawned record has its child, no two children answer to one  *)
(* step, and only the step at the journal's end has a child not yet        *)
(* recorded.                                                               *)
OneChildPerSpawn ==
    /\ \A i \in DOMAIN history : history[i].kind = "spawned" =>
          [step |-> i - 1, agent |-> history[i].agent] \in children
    /\ \A c, d \in children : c.step = d.step => c = d
    /\ \A c \in children :
          IF c.step < Len(history) THEN history[c.step + 1] = AgentSpawned(c.agent)
          ELSE c.step = Len(history)

(* A recorded output is the output of the last call made for that record,  *)
(* and calls beyond the recorded ones are paid for by faults: without one  *)
(* no tool is run twice for one record.                                    *)
RecordedWasPerformed ==
    /\ \A i \in DOMAIN history : history[i].kind = "tool" =>
          LET calls == {e \in DOMAIN effects : effects[e].step = i - 1}
          IN  calls # {} /\ effects[Max(calls)].output = history[i].output
    /\ Len(effects) <= Cardinality(ToolsIn(history)) + faults
                       + (IF held.kind = "tool" THEN 1 ELSE 0)

(* Once the workflow has come to its end, or both joined tools are         *)
(* recorded, the journal does not change any more.                         *)
EndKept ==
    (IF mode = "join" THEN Len(history) >= 2
     ELSE Command.kind \in {"complete", "fail"}) => history' = history

(* The workflow comes to its end, however it was interrupted. *)
Ends == []<>(pc \in {"done", "refused"})
=============================================================================
