------------------------------- MODULE BendLine -------------------------------
(***************************************************************************)
(* The line Bend prints for a workflow and its decoder (parse_encoding of  *)
(* crates/workflow-bend): the program in postfix, read token by token onto *)
(* a stack.  A well formed tool or spawn token is one of Leaves; "bad"     *)
(* stands for every token the decoder does not know or whose texts are out *)
(* of bounds.                                                              *)
(***************************************************************************)
EXTENDS Naturals, Sequences, SequencesExt

CONSTANTS Leaves, MaxTokens
BendAssumption == MaxTokens \in Nat /\ {"bad", "seq", "end", "on_counter"} \cap Leaves = {}

VARIABLES read, stack, status, root
vars == <<read, stack, status, root>>

Leaf(token) == [kind |-> "leaf", token |-> token]
Sequence(items) == [kind |-> "seq", items |-> items]
OnCounter(missing, zero, other) ==
    [kind |-> "on_counter", missing |-> missing, zero |-> zero, other |-> other]
NoProgram == [kind |-> "none"]

(* A value of the stack: a decision, or the items of a sequence being      *)
(* built.                                                                  *)
Decision(d) == [open |-> FALSE, decision |-> d]
Items(items) == [open |-> TRUE, items |-> items]
into_decision(item) == IF item.open THEN Sequence(item.items) ELSE item.decision

Init == read = <<>> /\ stack = <<>> /\ status = "reading" /\ root = NoProgram

-----------------------------------------------------------------------------
Top(n) == stack[Len(stack) - n]
Below(n) == SubSeq(stack, 1, Len(stack) - n)

(* What a token leaves on the stack, or NoStack when it is refused. *)
NoStack == <<Decision(NoProgram)>>

PushSeq(token) ==
    IF Len(stack) < 2 \/ ~Top(0).open THEN NoStack
    ELSE Append(Below(2), Items(<<into_decision(Top(1))>> \o Top(0).items))

\* Mutant: on_counter takes a sequence still being built for a decision only.
PushOnCounterClosed(token) ==
    IF Len(stack) < 3 \/ \E n \in 0..2 : Top(n).open THEN NoStack
    ELSE Append(Below(3), Decision(OnCounter(Top(2).decision, Top(1).decision, Top(0).decision)))

PushOnCounter(token) ==
    IF Len(stack) < 3 THEN NoStack
    ELSE Append(Below(3), Decision(OnCounter(into_decision(Top(2)), into_decision(Top(1)),
                                             into_decision(Top(0)))))

Pushed(token) ==
    CASE token \in Leaves -> Append(stack, Decision(Leaf(token)))
      [] token = "end" -> Append(stack, Items(<<>>))
      [] token = "seq" -> PushSeq(token)
      [] token = "on_counter" -> PushOnCounter(token)
      [] OTHER -> NoStack

Tokens == Leaves \cup {"end", "seq", "on_counter", "bad"}

take(token) == /\ status = "reading"
               /\ read' = Append(read, token)
               /\ LET after == IF Len(read) >= MaxTokens THEN NoStack ELSE Pushed(token)
                  IN  IF after = NoStack THEN status' = "refused" /\ UNCHANGED stack
                      ELSE stack' = after /\ UNCHANGED status
               /\ UNCHANGED root

(* The line must leave exactly one value. *)
end == /\ status = "reading"
       /\ IF Len(stack) = 1 THEN status' = "accepted" /\ root' = into_decision(Top(0))
          ELSE status' = "refused" /\ UNCHANGED root
       /\ UNCHANGED <<read, stack>>

Next == end \/ \E token \in Tokens : take(token)
Spec == Init /\ [][Next]_vars

-----------------------------------------------------------------------------
(* The encoder: what Bend prints for a program. *)
RECURSIVE Encode(_)
RECURSIVE EncodeItems(_)
EncodeItems(items) ==
    IF items = <<>> THEN <<"end">>
    ELSE Encode(Head(items)) \o EncodeItems(Tail(items)) \o <<"seq">>
Encode(d) == CASE d.kind = "leaf" -> <<d.token>>
               [] d.kind = "seq" -> EncodeItems(d.items)
               [] d.kind = "on_counter" ->
                     Encode(d.missing) \o Encode(d.zero) \o Encode(d.other) \o <<"on_counter">>

TypeOK == /\ read \in Seq(Tokens) /\ Len(read) <= MaxTokens + 1
          /\ status \in {"reading", "refused", "accepted"}
          /\ (status = "accepted") <=> (root # NoProgram)
          /\ stack # NoStack

(* While a line is read, the values on the stack are the encodings read so *)
(* far, in order: nothing is dropped, reordered or read twice; so an       *)
(* accepted program has one line, and it is the one read.                  *)
StackIsRead ==
    /\ status = "reading" => FlattenSeq([i \in DOMAIN stack |-> Encode(into_decision(stack[i]))]) = read
    /\ status = "accepted" => Encode(root) = read /\ Len(read) <= MaxTokens

Lines(programs) == {<<d, Encode(d)>> : d \in programs}

(* The line of every program that fits is accepted and gives that program. *)
LinesParse(lines) ==
    \A known \in lines :
        known[2] = read /\ Len(read) <= MaxTokens =>
            /\ status = "reading" => Len(stack) = 1 /\ into_decision(stack[1]) = known[1]
            /\ status # "reading" => status = "accepted" /\ root = known[1]
=============================================================================
