--------------------------- MODULE WorkflowProgram ---------------------------
(***************************************************************************)
(* A workflow as the engines hand it to the runtime (crates/workflow-core):*)
(* a tree of decisions, and the walk that finds the next command from the  *)
(* records of the run so far.  Nothing of the walk is kept between calls:  *)
(* each one starts at the root with the cursor before the first record.    *)
(* The inputs of tools and agents are left out, no decision reads them.    *)
(***************************************************************************)
EXTENDS Naturals, Sequences, FiniteSetsExt

Tool(name) == [kind |-> "tool", name |-> name]
SpawnAgent(agent) == [kind |-> "spawn", agent |-> agent]
Seq_(items) == [kind |-> "seq", items |-> items]
Complete == [kind |-> "complete"]
Fail == [kind |-> "fail"]
OnCounter(missing, zero, other) ==
    [kind |-> "on_counter", missing |-> missing, zero |-> zero, other |-> other]

(* The output of the last `counter` record. *)
counter_in(records) ==
    LET hits == {i \in DOMAIN records :
                    records[i].kind = "tool" /\ records[i].name = "counter"}
    IN  IF hits = {} THEN "none" ELSE records[Max(hits)].output

(* Which arm of on_counter that output selects. *)
path(counter) == CASE counter = "none" -> "unrecorded"
                   [] counter = "0" -> "zero"
                   [] OTHER -> "nonzero"

Next_(command) == [done |-> FALSE, command |-> command]
Done(cursor) == [done |-> TRUE, cursor |-> cursor]

(* A decision that waits for one record: issued without it, done with it,  *)
(* and a failure when another record is in its place.                      *)
Matches(decision, record) ==
    \/ decision.kind = "tool" /\ record.kind = "tool" /\ record.name = decision.name
    \/ decision.kind = "spawn" /\ record.kind = "spawned" /\ record.agent = decision.agent

Leaf(decision, records, cursor) ==
    IF cursor >= Len(records) THEN Next_(decision)
    ELSE IF Matches(decision, records[cursor + 1]) THEN Done(cursor + 1) ELSE Next_(Fail)

RECURSIVE walk(_, _, _)

\* The element of a set of one: a name bound to a value in {e} has TLC evaluate e once.
Only(one) == CHOOSE value \in one : TRUE

(* The items of a sequence, each from where the one before it stopped. *)
RECURSIVE WalkItems(_, _, _)
WalkItems(items, records, cursor) ==
    IF items = <<>> THEN Done(cursor)
    ELSE Only({IF first.done THEN WalkItems(Tail(items), records, first.cursor) ELSE first :
                  first \in {walk(Head(items), records, cursor)}})

Arm(decision, way) == IF way = "zero" THEN decision.zero ELSE decision.other

\* Mutant: the counter that `missing` recorded is not looked at.
WalkCounterOnce(decision, records, cursor) ==
    LET way == path(counter_in(SubSeq(records, 1, cursor)))
    IN  IF way # "unrecorded" THEN walk(Arm(decision, way), records, cursor)
        ELSE walk(decision.missing, records, cursor)

WalkCounter(decision, records, cursor) ==
    LET recorded(at) == path(counter_in(SubSeq(records, 1, at)))
    IN  IF recorded(cursor) # "unrecorded"
        THEN walk(Arm(decision, recorded(cursor)), records, cursor)
        ELSE Only({IF first.done /\ recorded(first.cursor) # "unrecorded"
                   THEN walk(Arm(decision, recorded(first.cursor)), records, first.cursor)
                   ELSE first : first \in {walk(decision.missing, records, cursor)}})

walk(decision, records, cursor) ==
    CASE decision.kind \in {"tool", "spawn"} -> Leaf(decision, records, cursor)
      [] decision.kind = "seq" -> WalkItems(decision.items, records, cursor)
      [] decision.kind = "on_counter" -> WalkCounter(decision, records, cursor)
      [] OTHER -> Next_(decision)

(* The one command of a step; a program that runs out has failed. *)
evaluate_program(program, records) ==
    LET found == walk(program, records, 0)
    IN  IF found.done THEN Fail ELSE found.command

counter_program == OnCounter(Tool("counter"), Complete, Fail)

-----------------------------------------------------------------------------
(* The same program run forwards, as a reference: what is left to do is a  *)
(* stack, each record is consumed as it is met, and the branch on the      *)
(* counter looks at what was consumed.                                     *)
RECURSIVE Live(_, _, _)
Live(todo, past, rest) ==
    IF todo = <<>> THEN Fail
    ELSE LET d == Head(todo)
             after == Tail(todo)
         IN  CASE d.kind \in {"complete", "fail"} -> d
               [] d.kind = "seq" -> Live(d.items \o after, past, rest)
               [] d.kind = "on_counter" /\ counter_in(past) = "none" ->
                     Live(<<d.missing, [d EXCEPT !.kind = "recheck"]>> \o after, past, rest)
               [] d.kind = "recheck" /\ counter_in(past) = "none" -> Live(after, past, rest)
               [] d.kind \in {"on_counter", "recheck"} /\ counter_in(past) # "none" ->
                     Live(<<IF counter_in(past) = "0" THEN d.zero ELSE d.other>> \o after,
                          past, rest)
               [] d.kind \in {"tool", "spawn"} /\ rest = <<>> -> d
               [] d.kind \in {"tool", "spawn"} /\ rest # <<>> ->
                     IF Matches(d, Head(rest)) THEN Live(after, Append(past, Head(rest)), Tail(rest))
                     ELSE Fail

LiveCommand(program, records) == Live(<<program>>, <<>>, records)
=============================================================================
