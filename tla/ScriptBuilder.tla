---------------------------- MODULE ScriptBuilder ----------------------------
(***************************************************************************)
(* The script front ends of the workflow engine (crates/workflow-js,       *)
(* crates/workflow-rhai).  A script calls builtins that each make one      *)
(* decision and may move earlier ones into it; a misused builtin raises an *)
(* error the script may catch, and leaves a fault.  When the script has    *)
(* ended, its program is the one decision no other one consumed.  The two  *)
(* front ends are driven here by the same calls.  Names, inputs and texts  *)
(* of faults are left out: a leaf's arguments are in bounds or not.        *)
(***************************************************************************)
EXTENDS Naturals, Sequences, FiniteSets, SequencesExt

CONSTANTS MaxDecisions,  \* what a builder holds
          MaxItems,      \* of an array given to seq
          MaxReads,      \* seq calls inside one another's reads
          MaxMisuses     \* rules broken by one script
ScriptAssumption == /\ MaxDecisions \in Nat /\ MaxItems \in 0..MaxDecisions
                    /\ MaxReads \in Nat
                    /\ MaxMisuses \in Nat

VARIABLES
    js, rhai,  \* the two builders
    reading,   \* calls of the JS seq that still read their array, innermost last
    spent,     \* the decisions the script has ever passed to a call
    misused,   \* how often the script has broken a rule of a builtin
    result     \* what each compile returned

vars == <<js, rhai, reading, spent, misused, result>>

NotDecision == 0
Handles(b) == DOMAIN b.nodes

(* A script's values.  Both builders number their decisions alike until a  *)
(* fault; after one the script fails in both languages.                    *)
Values == Handles(js) \cup Handles(rhai) \cup {NotDecision}

Running == [ok |-> FALSE, why |-> "running", root |-> 0]
Empty == [nodes |-> <<>>, fault |-> "none", present |-> TRUE]

Init == /\ js = Empty
        /\ rhai = Empty
        /\ reading = <<>>
        /\ spent = {}
        /\ misused = 0
        /\ result = [js |-> Running, rhai |-> Running]

-----------------------------------------------------------------------------
(* Records the first fault; without a builder in the context there is none *)
(* to record it in.                                                        *)
fault(b, why) == IF b.present /\ b.fault = "none" THEN [b EXCEPT !.fault = why] ELSE b

make(b, kind, kids) ==
    IF Len(b.nodes) >= MaxDecisions THEN fault(b, "many")
    ELSE [b EXCEPT !.nodes = Append(@, [kind |-> kind, kids |-> kids, used |-> FALSE])]

(* Moves a decision out of the builder. *)
consume(b, v) ==
    IF v \notin Handles(b) THEN [b |-> b, error |-> "wrong"]
    ELSE IF b.nodes[v].used THEN [b |-> b, error |-> "twice"]
    ELSE [b |-> [b EXCEPT !.nodes[v].used = TRUE], error |-> "none"]

(* Moves the arguments out in order; `all` goes on after an error. *)
Taken(b, values, all) ==
    FoldLeft(LAMBDA acc, v :
                IF acc.error # "none" /\ ~all THEN acc
                ELSE LET one == consume(acc.b, v)
                     IN  [b |-> one.b, error |-> IF acc.error # "none" THEN acc.error ELSE one.error],
             [b |-> b, error |-> "none"], values)

(* A decision made of others. *)
Build(b, kind, values, all) ==
    LET taken == Taken(b, values, all)
    IN  IF taken.error # "none" THEN fault(taken.b, taken.error) ELSE make(taken.b, kind, values)

JsOnCounter(b, values) == IF b.present THEN Build(b, "on_counter", values, TRUE) ELSE b
JsSeq(b, values) == IF b.present THEN Build(b, "seq", values, FALSE) ELSE b
JsLeaf(b) == IF b.present THEN make(b, "leaf", <<>>) ELSE b

(* No overload takes a value that is not a decision: the hook for missing  *)
(* functions leaves the fault.                                             *)
RhaiOnCounter(b, values) ==
    IF \A i \in DOMAIN values : values[i] \in Handles(b) THEN Build(b, "on_counter", values, FALSE)
    ELSE fault(b, "wrong")
RhaiSeq(b, values) == Build(b, "seq", values, FALSE)
RhaiLeaf(b) == make(b, "leaf", <<>>)

(* The rules of a call: the arguments are decisions, each never passed to  *)
(* any call before, and one more decision fits.                            *)
Misuse(values) == \/ \E i \in DOMAIN values : values[i] = NotDecision \/ values[i] \in spent
                  \/ \E i, j \in DOMAIN values : i < j /\ values[i] = values[j]
                  \/ Len(js.nodes) >= MaxDecisions
Break == misused < MaxMisuses /\ misused' = misused + 1
Spend(values) == /\ IF Misuse(values) THEN Break ELSE UNCHANGED misused
                 /\ spent' = spent \cup Range(values)

Scripting == result.js = Running

-----------------------------------------------------------------------------
(* tool, spawn_agent, complete, fail. *)
leaf == /\ Scripting
        /\ js' = JsLeaf(js)
        /\ rhai' = RhaiLeaf(rhai)
        /\ Spend(<<>>)
        /\ UNCHANGED <<reading, result>>

(* A call of a builtin with arguments of the wrong number, type or size. *)
wrongArguments == /\ Scripting
                  /\ js' = fault(js, "wrong")
                  /\ rhai' = fault(rhai, "wrong")
                  /\ Break
                  /\ UNCHANGED <<reading, spent, result>>

on_counter == /\ Scripting
              /\ \E a, b, c \in Values :
                    /\ js' = JsOnCounter(js, <<a, b, c>>)
                    /\ rhai' = RhaiOnCounter(rhai, <<a, b, c>>)
                    /\ Spend(<<a, b, c>>)
              /\ UNCHANGED <<reading, result>>

(* An empty array is refused. *)
seqEmpty == /\ Scripting
            /\ js' = fault(js, "empty")
            /\ rhai' = fault(rhai, "empty")
            /\ Break
            /\ UNCHANGED <<reading, spent, result>>

\* Mutant: the builder leaves the context before the array is read.
seqTaking == /\ Scripting
             /\ Len(reading) < MaxReads
             /\ \E n \in 1..MaxItems : reading' = Append(reading, [left |-> n, items |-> <<>>])
             /\ js' = [js EXCEPT !.present = FALSE]
             /\ UNCHANGED <<rhai, spent, misused, result>>

(* Reading an array element of JS can run script code, so other calls come *)
(* between the start of a seq, the reads and its end.                      *)
seqBegin == /\ Scripting
            /\ Len(reading) < MaxReads
            /\ \E n \in 1..MaxItems : reading' = Append(reading, [left |-> n, items |-> <<>>])
            /\ UNCHANGED <<js, rhai, spent, misused, result>>

seqRead == /\ Scripting
           /\ reading # <<>> /\ Last(reading).left > 0
           /\ \E v \in Values :
                 reading' = [reading EXCEPT ![Len(reading)] =
                               [left |-> @.left - 1, items |-> Append(@.items, v)]]
           /\ UNCHANGED <<js, rhai, spent, misused, result>>

(* A getter threw: the call ends there, with no fault of its own. *)
seqThrown == /\ Scripting
             /\ reading # <<>> /\ Last(reading).left > 0
             /\ reading' = Front(reading)
             /\ UNCHANGED <<js, rhai, spent, misused, result>>

(* All elements are read; Rhai has its array and is called here. *)
seq == /\ Scripting
       /\ reading # <<>> /\ Last(reading).left = 0
       /\ LET items == Last(reading).items
          IN  /\ js' = JsSeq([js EXCEPT !.present = TRUE], items)
              /\ rhai' = RhaiSeq(rhai, items)
              /\ Spend(items)
       /\ reading' = Front(reading)
       /\ UNCHANGED result

Roots(b) == {h \in Handles(b) : ~b.nodes[h].used}

(* A fault comes before the script's own error. *)
compiled(b, threw) ==
    CASE b.fault # "none" -> [ok |-> FALSE, why |-> "invalid", root |-> 0]
      [] b.fault = "none" /\ threw -> [ok |-> FALSE, why |-> "script", root |-> 0]
      [] b.fault = "none" /\ ~threw ->
            IF Cardinality(Roots(b)) = 1
            THEN [ok |-> TRUE, why |-> "", root |-> CHOOSE h \in Roots(b) : TRUE]
            ELSE [ok |-> FALSE, why |-> "invalid", root |-> 0]

(* The script ends: with an error it did not catch, or by itself when no   *)
(* call is open.                                                           *)
compile == /\ Scripting
           /\ \E threw \in BOOLEAN :
                 /\ threw \/ reading = <<>>
                 /\ result' = [js |-> compiled(js, threw), rhai |-> compiled(rhai, threw)]
           /\ reading' = <<>>
           /\ UNCHANGED <<js, rhai, spent, misused>>

Next == \/ leaf \/ wrongArguments \/ on_counter
        \/ seqEmpty \/ seqBegin \/ seqRead \/ seqThrown \/ seq
        \/ compile

Spec == Init /\ [][Next]_vars

-----------------------------------------------------------------------------
BuilderOK(b) == /\ Len(b.nodes) <= MaxDecisions
                /\ \A h \in Handles(b) : \A k \in DOMAIN b.nodes[h].kids : b.nodes[h].kids[k] < h
                /\ b.fault \in {"none", "wrong", "twice", "many", "empty"}

TypeOK == /\ BuilderOK(js) /\ BuilderOK(rhai)
          /\ spent \subseteq Values
          /\ misused \in 0..MaxMisuses
          /\ Len(reading) <= MaxReads

(* The parents of a decision. *)
Uses(b, h) == {p \in Handles(b) \X (1..(MaxItems + 3)) :
                  p[2] \in DOMAIN b.nodes[p[1]].kids /\ b.nodes[p[1]].kids[p[2]] = h}

(* A program that compiles is one tree of all the decisions the script     *)
(* made: the root is in no other, and every other decision is in exactly   *)
(* one place, whatever calls ran while an array was read.                  *)
EveryDecisionOnce ==
    \A side \in {"js", "rhai"} : result[side].ok =>
        LET b == IF side = "js" THEN js ELSE rhai
        IN  \A h \in Handles(b) :
               Cardinality(Uses(b, h)) = IF h = result[side].root THEN 0 ELSE 1

(* A script that broke a rule of a builtin does not compile, also when it  *)
(* caught the error and went on to a proper end.                           *)
MisuseNeverCompiles ==
    misused > 0 => ~result.js.ok /\ ~result.rhai.ok

(* The same calls give the same program in both languages, or none. *)
FrontendsAgree ==
    /\ result.js = result.rhai
    /\ result.js.ok => js.nodes = rhai.nodes
=============================================================================
