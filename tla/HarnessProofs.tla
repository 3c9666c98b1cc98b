--------------------------- MODULE HarnessProofs ----------------------------
(***************************************************************************)
(* Proofs about the harness driver: wherever a log is cut and however      *)
(* often the driver dies, the log reads as if one driver had written it,   *)
(* for any effects the decider may answer, any budget and any spec; and    *)
(* until it dies, it and its children stay within that budget.             *)
(*                                                                         *)
(* The invariant relates each event to the state that the fold of the log  *)
(* up to it gives, since a resumed driver has nothing else to go by.       *)
(***************************************************************************)
EXTENDS Harness, TLAPS, SequenceTheorems, FiniteSetTheorems, WellFoundedInduction

(***************************************************************************)
(* The invariant                                                           *)
(***************************************************************************)
\* A log is a sequence of whatever events it has.
Elements(l) == {l[i] : i \in DOMAIN l}
IsLog(l) == l \in Seq(Elements(l)) /\ l # <<>>

\* What b may follow a, as OneDriverLog has it.
Follows(a, b) ==
    /\ ~IsRunEnd(a)
    /\ a.type = "EffectDecided" =>
         \/ b.type \in {"EffectAuthorized", "EffectDenied"} /\ b.effect = a.effect
         \/ IsRunEnd(b)
    /\ b.type \in {"EffectAuthorized", "EffectDenied"} => a.type = "EffectDecided"
    /\ a.type = "EffectAuthorized" => b.type \in Results(a.effect) \/ IsRunEnd(b)
    /\ b.type \in {"ToolResult", "ModelResponded", "MemoryUsed", "ChildStarted", "UserAsked"} =>
         a.type = "EffectAuthorized"

\* The harness h that an event leaves behind.  A run waits for a message only
\* when neither a verdict nor a result is owed; an authorized effect is still to
\* be performed, or it has completed the run.
Leaves(h, event) ==
    /\ "st" \in DOMAIN h
    /\ event.type = "EffectDecided" => h.st # "WaitingForMessage"
    /\ event.type = "EffectAuthorized" =>
         \/ Performs(event.effect) /\ h.st \in {"Running", "WaitingForTool"}
         \/ event.effect.kind = "complete" /\ h.st = "Completed"
    /\ IsRunEnd(event) => h.st # "WaitingForMessage"

\* Decisions and verdicts come after the start.
GoodLog(l) ==
    /\ IsLog(l)
    /\ \A i \in 1..Len(l) : l[i].type \in {"EffectDecided", "EffectAuthorized"} =>
         \E j \in 1..i : l[j].type = "RunStarted"
    /\ \A i \in 1..(Len(l) - 1) : Follows(l[i], l[i + 1])
    /\ \A i \in 1..Len(l) : Leaves(Fold(SubSeq(l, 1, i)), l[i])

\* The log owes no verdict and no result.
Quiet(l) ==
    LogEnded(l) \/ (HasStarted(l) /\ Last(l).type \notin {"EffectDecided", "EffectAuthorized"})

\* Where run_until stands, the end of the log says what it has to do.
Position ==
    /\ pc = "boundary" => Quiet(log)
    /\ pc = "finish" =>
         /\ HasStarted(log) /\ ~LogEnded(log) /\ Fold(log).st # "Completed"
         /\ IF Last(log).type = "EffectDecided"
            THEN prior = <<Fold(log), Last(log).effect>>
            ELSE prior = <<>> /\ todo = EffectsOfLast(log)
    /\ pc = "perform" =>
         /\ HasStarted(log) /\ Last(log).type # "EffectDecided" /\ todo = EffectsOfLast(log)
         /\ Last(log).type = "EffectAuthorized" => Performs(Last(log).effect)
         /\ LogEnded(log) => Fold(log).st = "Completed"

DriverInv == GoodLog(log) /\ kept \in 1..Len(log) /\ Position

(***************************************************************************)
(* Facts about sets of numbers and sequences                               *)
(***************************************************************************)
\* A set of naturals that is not empty has a least element.
LEMMA LeastNatural ==
    ASSUME NEW T, T \subseteq Nat, T # {}
    PROVE  \E n \in T : \A m \in T : n <= m
<1> DEFINE R == {ss \in Nat \X Nat : ss[1] < ss[2]}
<1>1. IsWellFoundedOn(R, Nat)
  BY NatLessThanWellFounded DEF OpToRel
<1>2. PICK n \in T : \A m \in T : ~(<<m, n>> \in R)
  <2> HIDE DEF R
  <2> QED BY <1>1, WFMin
<1>3. ASSUME NEW m \in T PROVE n <= m
  <2>1. <<m, n>> \notin R
    BY <1>2
  <2>2. m \in Nat /\ n \in Nat
    OBVIOUS
  <2>3. ~(m < n)
    BY <2>1, <2>2
  <2> QED BY <2>2, <2>3
<1> QED BY <1>3

\* A sequence of anything is a sequence of its own elements.
LEMMA SeqOfElements ==
    ASSUME NEW S, NEW l \in Seq(S)
    PROVE  l \in Seq(Elements(l)) /\ Elements(l) \subseteq S /\ Len(l) \in Nat /\ DOMAIN l = 1..Len(l)
<1>1. Len(l) \in Nat /\ DOMAIN l = 1..Len(l) /\ l = SubSeq(l, 1, Len(l))
  BY LenProperties, SubSeqFull
<1>2. \A i \in 1..Len(l) : l[i] \in Elements(l) /\ l[i] \in S
  BY <1>1, ElementOfSeq DEF Elements
<1>3. SubSeq(l, 1, Len(l)) \in Seq(Elements(l))
  BY <1>1, <1>2, SubSeqProperties
<1> QED BY <1>1, <1>2, <1>3 DEF Elements

\* One more event: the log before, and the event.
LEMMA AppendedLog ==
    ASSUME NEW l, l \in Seq(Elements(l)), NEW e
    PROVE  /\ IsLog(Append(l, e))
           /\ Len(l) \in Nat /\ Len(Append(l, e)) = Len(l) + 1
           /\ \A i \in 1..Len(l) : Append(l, e)[i] = l[i]
           /\ Append(l, e)[Len(l) + 1] = e
           /\ Last(Append(l, e)) = e
           /\ \A i \in 0..Len(l) : SubSeq(Append(l, e), 1, i) = SubSeq(l, 1, i)
<1> DEFINE S == Elements(l) \cup {e}
           k == Append(l, e)
<1>1. l \in Seq(S) /\ e \in S
  BY SeqMonotonic
<1> HIDE DEF S
<1>2. k \in Seq(S) /\ Len(k) = Len(l) + 1 /\ Len(l) \in Nat
      /\ (\A i \in 1..Len(l) : k[i] = l[i]) /\ k[Len(l) + 1] = e
  BY <1>1, AppendProperties, LenProperties
<1>3. IsLog(k)
  <2>1. k \in Seq(Elements(k))
    BY <1>2, SeqOfElements
  <2>2. k # <<>>
    BY <1>2, EmptySeq
  <2> QED BY <2>1, <2>2 DEF IsLog
<1>4. Last(k) = e
  BY <1>2 DEF Last
<1>5. ASSUME NEW i \in 0..Len(l) PROVE SubSeq(k, 1, i) = SubSeq(l, 1, i)
  <2>1. \A j \in 1..i : k[j] \in S /\ l[j] \in S /\ k[j] = l[j]
    BY <1>1, <1>2, ElementOfSeq
  <2>2. SubSeq(k, 1, i) \in Seq(S) /\ Len(SubSeq(k, 1, i)) = i /\ \A j \in 1..i : SubSeq(k, 1, i)[j] = k[j]
    BY <1>2, <2>1, SubSeqProperties
  <2>3. SubSeq(l, 1, i) \in Seq(S) /\ Len(SubSeq(l, 1, i)) = i /\ \A j \in 1..i : SubSeq(l, 1, i)[j] = l[j]
    BY <1>2, <2>1, SubSeqProperties
  <2> QED BY <2>1, <2>2, <2>3, SeqEqual
<1> QED BY <1>2, <1>3, <1>4, <1>5

\* A log cut after k events.
LEMMA CutLog ==
    ASSUME NEW l, l \in Seq(Elements(l)), NEW k \in 0..Len(l)
    PROVE  /\ SubSeq(l, 1, k) \in Seq(Elements(SubSeq(l, 1, k)))
           /\ Len(SubSeq(l, 1, k)) = k
           /\ \A i \in 1..k : SubSeq(l, 1, k)[i] = l[i]
           /\ \A i \in 0..k : SubSeq(SubSeq(l, 1, k), 1, i) = SubSeq(l, 1, i)
<1> DEFINE S == Elements(l)
           c == SubSeq(l, 1, k)
<1> HIDE DEF S
<1>1. l \in Seq(S) /\ Len(l) \in Nat
  BY LenProperties DEF S
<1>2. \A j \in 1..k : l[j] \in S
  BY <1>1, ElementOfSeq
<1>3. c \in Seq(S) /\ Len(c) = k /\ \A j \in 1..k : c[j] = l[j]
  BY <1>1, <1>2, SubSeqProperties
<1>4. ASSUME NEW i \in 0..k PROVE SubSeq(c, 1, i) = SubSeq(l, 1, i)
  <2>1. \A j \in 1..i : c[j] \in S /\ l[j] \in S /\ c[j] = l[j]
    BY <1>2, <1>3
  <2>2. SubSeq(c, 1, i) \in Seq(S) /\ Len(SubSeq(c, 1, i)) = i /\ \A j \in 1..i : SubSeq(c, 1, i)[j] = c[j]
    BY <2>1, SubSeqProperties
  <2>3. SubSeq(l, 1, i) \in Seq(S) /\ Len(SubSeq(l, 1, i)) = i /\ \A j \in 1..i : SubSeq(l, 1, i)[j] = l[j]
    BY <2>1, SubSeqProperties
  <2> QED BY <2>1, <2>2, <2>3, SeqEqual
<1>5. c \in Seq(Elements(c))
  BY <1>3, SeqOfElements
<1> QED BY <1>3, <1>4, <1>5

(***************************************************************************)
(* The fold                                                                *)
(***************************************************************************)
\* f has the state after each number of events of l.
IsTrail(f, l) ==
    f = [i \in 0..Len(l) |-> IF i = 0 THEN State("Idle") ELSE Reduce(f[i - 1], l[i])]

\* There is such a function for every log: take the least length without one.
LEMMA TrailExists ==
    ASSUME NEW l, Len(l) \in Nat
    PROVE  \E f : IsTrail(f, l)
<1> DEFINE Upto(f, n) == f = [i \in 0..n |-> IF i = 0 THEN State("Idle") ELSE Reduce(f[i - 1], l[i])]
           T == {n \in Nat : ~\E f : Upto(f, n)}
<1>1. SUFFICES ASSUME T # {} PROVE FALSE
  BY DEF IsTrail
<1>2. PICK n \in T : \A m \in T : n <= m
  <2> HIDE DEF T
  <2>1. T \subseteq Nat
    BY DEF T
  <2> QED BY <1>1, <2>1, LeastNatural
<1>3. n # 0
  <2>1. Upto([i \in 0..0 |-> State("Idle")], 0)
    OBVIOUS
  <2> QED BY <2>1
<1>4. n - 1 \in Nat /\ n - 1 \notin T
  <2>1. n \in Nat
    OBVIOUS
  <2> HIDE DEF T
  <2>2. n - 1 \in Nat /\ ~(n <= n - 1)
    BY <1>3, <2>1
  <2> QED BY <1>2, <2>2
<1>5. PICK g : Upto(g, n - 1)
  BY <1>4
<1> DEFINE f == [i \in 0..n |-> IF i = n THEN Reduce(g[n - 1], l[n]) ELSE g[i]]
<1>6. ASSUME NEW i \in 0..n PROVE f[i] = IF i = 0 THEN State("Idle") ELSE Reduce(f[i - 1], l[i])
  <2>1. CASE i = n
    BY <1>3, <1>4, <2>1
  <2>2. CASE i # n
    <3>1. i \in 0..(n - 1) /\ (i # 0 => i - 1 \in 0..n /\ i - 1 # n)
      BY <1>4, <2>2
    <3>2. g[i] = IF i = 0 THEN State("Idle") ELSE Reduce(g[i - 1], l[i])
      BY <1>5, <3>1
    <3> QED BY <2>2, <3>1, <3>2
  <2> QED BY <2>1, <2>2
<1>7. f = [i \in 0..n |-> f[i]]
  OBVIOUS
<1>8. Upto(f, n)
  <2> HIDE DEF f
  <2> QED BY <1>6, <1>7
<1> QED BY <1>8

\* Two trails agree as far as their logs do.
LEMMA TrailsAgree ==
    ASSUME NEW k, NEW l, Len(k) \in Nat, Len(l) \in Nat, Len(k) <= Len(l),
           \A i \in 1..Len(k) : k[i] = l[i],
           NEW f, NEW g, IsTrail(f, k), IsTrail(g, l)
    PROVE  f[Len(k)] = g[Len(k)]
<1> DEFINE T == {n \in 0..Len(k) : f[n] # g[n]}
<1>1. SUFFICES ASSUME T # {} PROVE FALSE
  OBVIOUS
<1>2. PICK n \in T : \A m \in T : n <= m
  <2> HIDE DEF T
  <2>1. T \subseteq Nat
    BY DEF T
  <2> QED BY <1>1, <2>1, LeastNatural
<1>3. n \in 0..Len(k) /\ n \in 0..Len(l) /\ f[n] # g[n]
  BY <1>2
<1>4. f[n] = (IF n = 0 THEN State("Idle") ELSE Reduce(f[n - 1], k[n]))
  BY <1>3 DEF IsTrail
<1>5. g[n] = (IF n = 0 THEN State("Idle") ELSE Reduce(g[n - 1], l[n]))
  BY <1>3 DEF IsTrail
<1>6. n # 0
  BY <1>3, <1>4, <1>5
<1>7. n - 1 \notin T /\ n - 1 \in 0..Len(k) /\ n \in 1..Len(k)
  BY <1>2, <1>3, <1>6
<1>8. f[n - 1] = g[n - 1] /\ k[n] = l[n]
  BY <1>7
<1> QED BY <1>3, <1>4, <1>5, <1>6, <1>8

\* Fold gives the end of a trail.
LEMMA FoldEnds ==
    ASSUME NEW l, Len(l) \in Nat
    PROVE  \E f : IsTrail(f, l) /\ Fold(l) = f[Len(l)]
<1> DEFINE Body(g) == [i \in 0..Len(l) |-> IF i = 0 THEN State("Idle")
                                 ELSE CHOOSE n \in {Reduce(h, l[i]) : h \in {g[i - 1]}} : TRUE]
           c == CHOOSE g : g = Body(g)
<1>1. \A g : Body(g) = [i \in 0..Len(l) |-> IF i = 0 THEN State("Idle") ELSE Reduce(g[i - 1], l[i])]
  <2> TAKE g
  <2>1. \A i : {Reduce(h, l[i]) : h \in {g[i - 1]}} = {Reduce(g[i - 1], l[i])}
    OBVIOUS
  <2>2. \A x : (CHOOSE n \in {x} : TRUE) = x
    OBVIOUS
  <2> QED BY <2>1, <2>2
<1>2. PICK f : IsTrail(f, l)
  BY TrailExists
<1>3. f = Body(f)
  BY <1>1, <1>2 DEF IsTrail
<1>4. c = Body(c)
  <2> HIDE DEF Body
  <2> QED BY <1>3
<1>5. Fold(l) = c[Len(l)]
  BY DEF Fold
<1>6. IsTrail(c, l)
  BY <1>1, <1>4 DEF IsTrail
<1> QED BY <1>5, <1>6

\* Another event is reduced onto the state before it.
LEMMA FoldAppend ==
    ASSUME NEW l, l \in Seq(Elements(l)), NEW e
    PROVE  Fold(Append(l, e)) = Reduce(Fold(l), e)
<1> DEFINE k == Append(l, e)
<1>1. Len(l) \in Nat /\ Len(k) = Len(l) + 1 /\ (\A i \in 1..Len(l) : l[i] = k[i]) /\ k[Len(k)] = e
  BY AppendedLog
<1> HIDE DEF k
<1>2. PICK f : IsTrail(f, l) /\ Fold(l) = f[Len(l)]
  BY <1>1, FoldEnds
<1>3. PICK g : IsTrail(g, k) /\ Fold(k) = g[Len(k)]
  BY <1>1, FoldEnds
<1>4. f[Len(l)] = g[Len(l)]
  BY <1>1, <1>2, <1>3, TrailsAgree
<1>5. g[Len(k)] = Reduce(g[Len(k) - 1], k[Len(k)])
  BY <1>1, <1>3 DEF IsTrail
<1>6. Len(k) - 1 = Len(l)
  BY <1>1
<1> QED BY <1>1, <1>2, <1>3, <1>4, <1>5, <1>6 DEF k

\* The state after a log is its last event's, on the state before it.
LEMMA FoldLast ==
    ASSUME NEW l, IsLog(l)
    PROVE  /\ Len(l) \in Nat \ {0}
           /\ Fold(l) = Reduce(Fold(SubSeq(l, 1, Len(l) - 1)), Last(l))
           /\ Fold(SubSeq(l, 1, Len(l))) = Fold(l)
<1>1. l \in Seq(Elements(l)) /\ Len(l) \in Nat \ {0}
  BY EmptySeq DEF IsLog
<1> DEFINE c == SubSeq(l, 1, Len(l) - 1)
<1>2. c \in Seq(Elements(c)) /\ Len(c) = Len(l) - 1 /\ \A i \in 1..(Len(l) - 1) : c[i] = l[i]
  <2>1. Len(l) - 1 \in 0..Len(l)
    BY <1>1
  <2> QED BY <1>1, <2>1, CutLog
<1>3. /\ IsLog(Append(c, Last(l))) /\ Len(Append(c, Last(l))) = Len(l)
      /\ \A i \in 1..(Len(l) - 1) : Append(c, Last(l))[i] = c[i]
      /\ Append(c, Last(l))[Len(l)] = l[Len(l)]
  <2> HIDE DEF c
  <2> QED BY <1>1, <1>2, AppendedLog DEF Last
<1>4. l = Append(c, Last(l))
  <2> DEFINE k == Append(c, Last(l))
             S == Elements(l) \cup Elements(k)
  <2>1. l \in Seq(S) /\ k \in Seq(S)
    BY <1>1, <1>3, SeqMonotonic DEF IsLog
  <2>2. \A i \in 1..Len(l) : l[i] = k[i]
    BY <1>1, <1>2, <1>3
  <2> HIDE DEF k, S
  <2>3. Len(l) = Len(k)
    BY <1>3 DEF k
  <2> QED BY <2>1, <2>2, <2>3, SeqEqual DEF k
<1>5. Fold(Append(c, Last(l))) = Reduce(Fold(c), Last(l))
  BY <1>2, FoldAppend
<1>6. SubSeq(l, 1, Len(l)) = l
  BY <1>1, SubSeqFull
<1> QED BY <1>1, <1>4, <1>5, <1>6

(***************************************************************************)
(* The reducer                                                             *)
(***************************************************************************)
LEMMA ReduceHasState ==
    ASSUME NEW h, "st" \in DOMAIN h, NEW e
    PROVE  "st" \in DOMAIN Reduce(h, e)
<1>1. \A x : "st" \in DOMAIN State(x)
  BY DEF State
<1>2. \A n, a : "st" \in DOMAIN Running(n, a)
  <2> TAKE n, a
  <2> DEFINE r == State("Running")
  <2>1. "st" \in DOMAIN r
    BY <1>1
  <2> HIDE DEF r
  <2>2. "st" \in DOMAIN [r EXCEPT !.step = n, !.answered = a]
    BY <2>1
  <2> QED BY <2>2 DEF Running, r
<1>3. \A id : "st" \in DOMAIN OnAuthorized(h, e.effect, id)
  BY <1>1 DEF OnAuthorized
<1>4. \A st, id : "st" \in DOMAIN Answered(h, st, id)
  BY <1>2 DEF Answered
<1>5. \A id : "st" \in DOMAIN Asked(h, id)
  BY DEF Asked
<1>6. Reduce(h, e) \in {h, Running(1, FALSE), OnAuthorized(h, e.effect, e.id),
                        Answered(h, "WaitingForTool", e.id), Asked(h, e.id),
                        Answered(h, "WaitingForMessage", e.id), Running(h.step + 1, FALSE),
                        State("Completed"), State("Failed"), State("Cancelled")}
  BY DEF Reduce
<1> QED BY <1>1, <1>2, <1>3, <1>4, <1>5, <1>6

\* Decisions and refusals leave the state alone.
LEMMA ReduceDecided ==
    ASSUME NEW h, NEW e, e.type \in {"EffectDecided", "EffectDenied"}
    PROVE  Reduce(h, e) = h
BY DEF Reduce

\* An end closes what is open, and what is closed stays.
LEMMA ReduceEnd ==
    ASSUME NEW h, "st" \in DOMAIN h, NEW e, IsRunEnd(e),
           e.type = "RunCompleted" => h.st = "Completed"
    PROVE  /\ Reduce(h, e).st # "WaitingForMessage"
           /\ Open(h) => Reduce(h, e).st # "Running"
           /\ h.st = "Completed" => Reduce(h, e).st = "Completed"
<1>1. CASE IsTerminal(h)
  BY <1>1 DEF Reduce, IsTerminal, Open
<1>2. CASE ~IsTerminal(h)
  <2>1. e.type \in {"RunFailed", "RunCancelled"}
    BY <1>2 DEF IsRunEnd, RunEnds, IsTerminal
  <2>2. Reduce(h, e) \in {h, State("Failed"), State("Cancelled")}
    BY <1>2, <2>1 DEF Reduce
  <2>3. Open(h) => Reduce(h, e) \in {State("Failed"), State("Cancelled")}
    BY <1>2, <2>1 DEF Reduce
  <2>4. State("Failed").st = "Failed" /\ State("Cancelled").st = "Cancelled"
    BY DEF State
  <2> QED BY <1>2, <2>2, <2>3, <2>4 DEF Open, IsTerminal
<1> QED BY <1>1, <1>2

\* An authorized effect is waited for, still to be performed, or the end.
LEMMA ReduceAuthorized ==
    ASSUME NEW h, "st" \in DOMAIN h, NEW e, e.type = "EffectAuthorized",
           Applicable(h, e.effect), Authorize(e.effect)
    PROVE  Leaves(Reduce(h, e), e)
<1>1. h.st = "Running" /\ ~IsTerminal(h)
  BY DEF Applicable, IsTerminal
<1>2. Reduce(h, e) = OnAuthorized(h, e.effect, e.id)
  BY <1>1 DEF Reduce
<1>3. e.effect.kind # "other"
  BY DEF Authorize, Sending, Asking
<1>4. CASE e.effect.kind = "tool"
  BY <1>1, <1>2, <1>4 DEF OnAuthorized, Leaves, Performs, IsRunEnd, RunEnds
<1>5. CASE e.effect.kind = "complete"
  BY <1>1, <1>2, <1>5 DEF OnAuthorized, Leaves, State, IsRunEnd, RunEnds
<1>6. CASE e.effect.kind \notin {"tool", "complete"}
  BY <1>1, <1>2, <1>3, <1>6 DEF OnAuthorized, Leaves, Performs, IsRunEnd, RunEnds
<1> QED BY <1>4, <1>5, <1>6

(***************************************************************************)
(* Good logs                                                               *)
(***************************************************************************)
\* What goes well with a state at the end of a log.
LEMMA GoodLast ==
    ASSUME NEW l, GoodLog(l)
    PROVE  /\ IsLog(l) /\ l \in Seq(Elements(l)) /\ Len(l) \in Nat \ {0}
           /\ Leaves(Fold(l), Last(l)) /\ "st" \in DOMAIN Fold(l)
           /\ LogEnded(l) <=> IsRunEnd(Last(l))
           /\ Last(l).type \in {"EffectDecided", "EffectAuthorized"} => HasStarted(l)
<1>1. IsLog(l) /\ l \in Seq(Elements(l)) /\ Len(l) \in Nat \ {0} /\ Fold(SubSeq(l, 1, Len(l))) = Fold(l)
  BY FoldLast DEF GoodLog, IsLog
<1>2. Len(l) \in 1..Len(l) /\ DOMAIN l = 1..Len(l)
  BY <1>1, LenProperties
<1>3. Leaves(Fold(l), Last(l))
  BY <1>1, <1>2 DEF GoodLog, Last
<1>4. ASSUME LogEnded(l) PROVE IsRunEnd(Last(l))
  <2>1. PICK i \in 1..Len(l) : IsRunEnd(l[i])
    BY <1>2, <1>4 DEF LogEnded
  <2>2. i = Len(l)
    <3>1. \A j \in 1..(Len(l) - 1) : ~IsRunEnd(l[j])
      BY DEF GoodLog, Follows
    <3> QED BY <1>1, <2>1, <3>1
  <2> QED BY <2>1, <2>2 DEF Last
<1>5. IsRunEnd(Last(l)) => LogEnded(l)
  BY <1>2 DEF LogEnded, Last
<1>6. Last(l).type \in {"EffectDecided", "EffectAuthorized"} => HasStarted(l)
  BY <1>2 DEF GoodLog, Last, HasStarted
<1> QED BY <1>1, <1>3, <1>4, <1>5, <1>6 DEF Leaves

LEMMA GoodAppend ==
    ASSUME NEW l, GoodLog(l), NEW e, Follows(Last(l), e), Leaves(Reduce(Fold(l), e), e),
           e.type \in {"EffectDecided", "EffectAuthorized"} => HasStarted(l)
    PROVE  /\ GoodLog(Append(l, e)) /\ Last(Append(l, e)) = e
           /\ HasStarted(l) \/ e.type = "RunStarted" => HasStarted(Append(l, e))
           /\ Fold(Append(l, e)) = Reduce(Fold(l), e)
           /\ Len(Append(l, e)) = Len(l) + 1
<1> DEFINE k == Append(l, e)
<1>1. l \in Seq(Elements(l)) /\ Len(l) \in Nat \ {0}
  BY GoodLast
<1>2. /\ IsLog(k) /\ Len(k) = Len(l) + 1 /\ k[Len(l) + 1] = e /\ Last(k) = e
      /\ \A i \in 1..Len(l) : k[i] = l[i]
      /\ \A i \in 0..Len(l) : SubSeq(k, 1, i) = SubSeq(l, 1, i)
  BY <1>1, AppendedLog
<1>3. Fold(k) = Reduce(Fold(l), e)
  BY <1>1, FoldAppend
<1> HIDE DEF k
<1>4. ASSUME NEW i \in 1..(Len(k) - 1) PROVE Follows(k[i], k[i + 1])
  <2>1. CASE i = Len(l)
    BY <1>1, <1>2, <2>1 DEF Last
  <2>2. CASE i # Len(l)
    <3>1. i \in 1..(Len(l) - 1) /\ k[i] = l[i] /\ k[i + 1] = l[i + 1]
      BY <1>1, <1>2, <2>2
    <3> QED BY <3>1 DEF GoodLog
  <2> QED BY <2>1, <2>2
<1>5. ASSUME NEW i \in 1..Len(k) PROVE Leaves(Fold(SubSeq(k, 1, i)), k[i])
  <2>1. CASE i = Len(k)
    BY <1>2, <1>3, <2>1, FoldLast
  <2>2. CASE i # Len(k)
    <3>1. i \in 1..Len(l) /\ k[i] = l[i] /\ SubSeq(k, 1, i) = SubSeq(l, 1, i)
      BY <1>1, <1>2, <2>2
    <3> QED BY <3>1 DEF GoodLog
  <2> QED BY <2>1, <2>2
<1>6. DOMAIN l = 1..Len(l) /\ DOMAIN k = 1..Len(k)
  BY <1>1, <1>2, LenProperties DEF IsLog
<1>7. HasStarted(l) \/ e.type = "RunStarted" => HasStarted(k)
  <2>1. CASE e.type = "RunStarted"
    BY <1>1, <1>2, <1>6, <2>1 DEF HasStarted
  <2>2. CASE HasStarted(l)
    BY <1>1, <1>2, <1>6, <2>2 DEF HasStarted
  <2> QED BY <2>1, <2>2
<1>8. ASSUME NEW i \in 1..Len(k), k[i].type \in {"EffectDecided", "EffectAuthorized"}
      PROVE  \E j \in 1..i : k[j].type = "RunStarted"
  <2>1. CASE i = Len(k)
    <3>1. PICK j \in 1..Len(l) : l[j].type = "RunStarted"
      BY <1>2, <1>6, <1>8, <2>1 DEF HasStarted
    <3> QED BY <1>1, <1>2, <2>1, <3>1
  <2>2. CASE i # Len(k)
    <3>1. i \in 1..Len(l) /\ k[i] = l[i]
      BY <1>1, <1>2, <2>2
    <3>2. PICK j \in 1..i : l[j].type = "RunStarted"
      BY <1>8, <3>1 DEF GoodLog
    <3>3. j \in 1..Len(l) /\ k[j] = l[j]
      BY <1>1, <1>2, <3>1
    <3> QED BY <3>2, <3>3
  <2> QED BY <2>1, <2>2
<1>9. GoodLog(k)
  BY <1>2, <1>4, <1>5, <1>8 DEF GoodLog
<1> QED BY <1>2, <1>3, <1>7, <1>9 DEF k

\* However a good log is cut, it is good.
LEMMA GoodCut ==
    ASSUME NEW l, GoodLog(l), NEW k \in 1..Len(l)
    PROVE  GoodLog(SubSeq(l, 1, k)) /\ Len(SubSeq(l, 1, k)) = k
<1> DEFINE c == SubSeq(l, 1, k)
<1>1. l \in Seq(Elements(l)) /\ Len(l) \in Nat \ {0}
  BY GoodLast
<1>2. /\ c \in Seq(Elements(c)) /\ Len(c) = k /\ \A i \in 1..k : c[i] = l[i]
      /\ \A i \in 0..k : SubSeq(c, 1, i) = SubSeq(l, 1, i)
  <2>1. k \in 0..Len(l)
    OBVIOUS
  <2> QED BY <1>1, <2>1, CutLog
<1> HIDE DEF c
<1>3. IsLog(c)
  BY <1>2, EmptySeq DEF IsLog
<1>4. ASSUME NEW i \in 1..(Len(c) - 1) PROVE Follows(c[i], c[i + 1])
  <2>1. i \in 1..(Len(l) - 1) /\ c[i] = l[i] /\ c[i + 1] = l[i + 1]
    BY <1>1, <1>2
  <2> QED BY <2>1 DEF GoodLog
<1>5. ASSUME NEW i \in 1..Len(c) PROVE Leaves(Fold(SubSeq(c, 1, i)), c[i])
  <2>1. i \in 1..Len(l) /\ c[i] = l[i] /\ SubSeq(c, 1, i) = SubSeq(l, 1, i)
    BY <1>1, <1>2
  <2> QED BY <2>1 DEF GoodLog
<1>6. ASSUME NEW i \in 1..Len(c), c[i].type \in {"EffectDecided", "EffectAuthorized"}
      PROVE  \E j \in 1..i : c[j].type = "RunStarted"
  <2>1. i \in 1..Len(l) /\ c[i] = l[i]
    BY <1>1, <1>2
  <2>2. PICK j \in 1..i : l[j].type = "RunStarted"
    BY <1>6, <2>1 DEF GoodLog
  <2>3. j \in 1..k /\ c[j] = l[j]
    BY <1>1, <1>2
  <2> QED BY <2>2, <2>3
<1> QED BY <1>2, <1>3, <1>4, <1>5, <1>6 DEF GoodLog, c

\* Events after which nothing is owed.
Plain(e) == e.type \notin {"EffectDecided", "EffectAuthorized"} /\ ~IsRunEnd(e)

LEMMA PlainLeaves ==
    ASSUME NEW h, "st" \in DOMAIN h, NEW e, Plain(e)
    PROVE  Leaves(Reduce(h, e), e)
BY ReduceHasState DEF Leaves, Plain

\* An end may follow anything but an end.
LEMMA EndAppended ==
    ASSUME NEW l, GoodLog(l), ~LogEnded(l), NEW e, IsRunEnd(e),
           e.type = "RunCompleted" => Fold(l).st = "Completed"
    PROVE  /\ GoodLog(Append(l, e)) /\ LogEnded(Append(l, e)) /\ Len(Append(l, e)) = Len(l) + 1
           /\ Quiet(Append(l, e))
           /\ Open(Fold(l)) => Fold(Append(l, e)).st # "Running"
           /\ Fold(l).st = "Completed" => Fold(Append(l, e)).st = "Completed"
           /\ Last(Append(l, e)) = e
           /\ HasStarted(l) => HasStarted(Append(l, e))
<1>1. ~IsRunEnd(Last(l)) /\ "st" \in DOMAIN Fold(l)
  BY GoodLast
<1>2. e.type \in {"RunCompleted", "RunFailed", "RunCancelled"}
  BY DEF IsRunEnd, RunEnds
<1>3. Follows(Last(l), e)
  BY <1>1, <1>2 DEF Follows
<1>4. Leaves(Reduce(Fold(l), e), e)
  BY <1>1, <1>2, ReduceHasState, ReduceEnd DEF Leaves
<1>5. GoodLog(Append(l, e)) /\ Last(Append(l, e)) = e /\ Fold(Append(l, e)) = Reduce(Fold(l), e)
      /\ Len(Append(l, e)) = Len(l) + 1
  BY <1>2, <1>3, <1>4, GoodAppend
<1>6. LogEnded(Append(l, e))
  BY <1>5, GoodLast
<1>7. HasStarted(l) => HasStarted(Append(l, e))
  BY <1>2, <1>3, <1>4, GoodAppend
<1> QED BY <1>1, <1>5, <1>6, <1>7, ReduceEnd DEF Quiet

LEMMA PlainAppended ==
    ASSUME NEW l, GoodLog(l), NEW e, Plain(e), Follows(Last(l), e)
    PROVE  /\ GoodLog(Append(l, e)) /\ ~LogEnded(Append(l, e))
           /\ Last(Append(l, e)) = e /\ Len(Append(l, e)) = Len(l) + 1
           /\ HasStarted(l) \/ e.type = "RunStarted" =>
                HasStarted(Append(l, e)) /\ Quiet(Append(l, e))
<1>1. "st" \in DOMAIN Fold(l)
  BY GoodLast
<1>2. /\ GoodLog(Append(l, e)) /\ Last(Append(l, e)) = e /\ Len(Append(l, e)) = Len(l) + 1
      /\ HasStarted(l) \/ e.type = "RunStarted" => HasStarted(Append(l, e))
  <2>1. Leaves(Reduce(Fold(l), e), e)
    BY <1>1, PlainLeaves
  <2> QED BY <2>1, GoodAppend DEF Plain
<1> QED BY <1>2, GoodLast DEF Quiet, Plain

\* What the events' constructors give.
LEMMA EvTypes ==
    ASSUME NEW t, NEW e, NEW id
    PROVE  /\ Ev(t).type = t /\ About(t, e).type = t /\ About(t, e).effect = e
           /\ Of(t, id).type = t
BY DEF Ev, About, Of

\* The verdict on a decision, event by event.
LEMMA VerdictIs ==
    ASSUME NEW l, l \in Seq(Elements(l)), NEW h, NEW e
    PROVE  \/ /\ Authorize(e) /\ Applicable(h, e)
              /\ \E a : /\ a.type = "EffectAuthorized" /\ a.effect = e
                        /\ l \o Verdict(l, h, e) =
                             IF e.kind = "complete" THEN Append(Append(l, a), Ev("RunCompleted"))
                             ELSE Append(l, a)
           \/ /\ ~(Authorize(e) /\ Applicable(h, e))
              /\ l \o Verdict(l, h, e) = Append(l, About("EffectDenied", e))
<1> DEFINE a == [About("EffectAuthorized", e) EXCEPT !.id = <<Steps(l)>>]
           d == About("EffectDenied", e)
           c == Ev("RunCompleted")
<1>1. a.type = "EffectAuthorized" /\ a.effect = e
  BY DEF About, Ev
<1>2. Verdict(l, h, e) = IF Authorize(e) /\ Applicable(h, e)
                         THEN <<a>> \o (IF e.kind = "complete" THEN <<c>> ELSE <<>>)
                         ELSE <<d>>
  BY DEF Verdict
<1> HIDE DEF a, c, d
<1>3. l \o <<a>> = Append(l, a) /\ l \o <<d>> = Append(l, d) /\ Append(l, a) \in Seq(Elements(Append(l, a)))
  BY AppendedLog DEF IsLog
<1>4. <<a>> \o <<>> = <<a>>
  OBVIOUS
<1>5. l \o (<<a>> \o <<c>>) = Append(Append(l, a), c)
  BY <1>3
<1>6. CASE ~(Authorize(e) /\ Applicable(h, e))
  BY <1>2, <1>3, <1>6 DEF d
<1>7. CASE Authorize(e) /\ Applicable(h, e) /\ e.kind = "complete"
  BY <1>1, <1>2, <1>5, <1>7 DEF c
<1>8. CASE Authorize(e) /\ Applicable(h, e) /\ e.kind # "complete"
  BY <1>1, <1>2, <1>3, <1>4, <1>8
<1> QED BY <1>6, <1>7, <1>8

\* A log that ends with a decision stays good with the verdict.
LEMMA VerdictAppended ==
    ASSUME NEW l, GoodLog(l), NEW e, Last(l).type = "EffectDecided", Last(l).effect = e, ~LogEnded(l)
    PROVE  LET k == l \o Verdict(l, Fold(l), e)
           IN  /\ GoodLog(k) /\ Len(k) >= Len(l) /\ HasStarted(k)
               /\ Last(k).type # "EffectDecided"
               /\ Last(k).type = "EffectAuthorized" => Performs(Last(k).effect)
               /\ LogEnded(k) => Fold(k).st = "Completed"
<1>1. l \in Seq(Elements(l)) /\ Len(l) \in Nat \ {0} /\ "st" \in DOMAIN Fold(l) /\ HasStarted(l)
  BY GoodLast
<1> DEFINE d == About("EffectDenied", e)
           c == Ev("RunCompleted")
           k == l \o Verdict(l, Fold(l), e)
<1>2. d.type = "EffectDenied" /\ d.effect = e /\ c.type = "RunCompleted"
  BY EvTypes
<1>3. \/ /\ Authorize(e) /\ Applicable(Fold(l), e)
         /\ \E a : /\ a.type = "EffectAuthorized" /\ a.effect = e
                   /\ k = IF e.kind = "complete" THEN Append(Append(l, a), c) ELSE Append(l, a)
      \/ k = Append(l, d)
  BY <1>1, VerdictIs
<1> HIDE DEF c, d, k
<1>4. CASE k = Append(l, d)
  <2>1. Plain(d) /\ Follows(Last(l), d)
    BY <1>2, GoodLast DEF Plain, Follows, IsRunEnd, RunEnds
  <2>2. /\ GoodLog(Append(l, d)) /\ ~LogEnded(Append(l, d)) /\ HasStarted(Append(l, d))
        /\ Last(Append(l, d)) = d /\ Len(Append(l, d)) = Len(l) + 1
    BY <1>1, <2>1, PlainAppended
  <2>3. Len(Append(l, d)) >= Len(l)
    BY <1>1, <2>2
  <2> QED BY <1>2, <1>4, <2>2, <2>3 DEF k
<1>5. ASSUME Authorize(e), Applicable(Fold(l), e), NEW a, a.type = "EffectAuthorized", a.effect = e,
             k = IF e.kind = "complete" THEN Append(Append(l, a), c) ELSE Append(l, a)
      PROVE  /\ GoodLog(k) /\ Len(k) >= Len(l) /\ HasStarted(k)
             /\ Last(k).type # "EffectDecided"
             /\ Last(k).type = "EffectAuthorized" => Performs(Last(k).effect)
             /\ LogEnded(k) => Fold(k).st = "Completed"
  <2>1. Follows(Last(l), a) /\ Leaves(Reduce(Fold(l), a), a)
    <3>1. Follows(Last(l), a)
      BY <1>5, GoodLast DEF Follows, IsRunEnd, RunEnds
    <3> QED BY <1>1, <1>5, <3>1, ReduceAuthorized
  <2>2. /\ GoodLog(Append(l, a)) /\ Last(Append(l, a)) = a /\ Len(Append(l, a)) = Len(l) + 1
        /\ ~LogEnded(Append(l, a)) /\ Leaves(Fold(Append(l, a)), a) /\ HasStarted(Append(l, a))
    <3>1. ~IsRunEnd(a)
      BY <1>5 DEF IsRunEnd, RunEnds
    <3> QED BY <1>1, <2>1, <3>1, GoodAppend, GoodLast
  <2>3. CASE e.kind # "complete"
    <3>1. Performs(a.effect) /\ Len(Append(l, a)) >= Len(l)
      BY <1>1, <1>5, <2>2, <2>3 DEF Leaves
    <3> QED BY <1>5, <2>2, <2>3, <3>1
  <2>4. CASE e.kind = "complete"
    <3>1. Fold(Append(l, a)).st = "Completed"
      BY <1>5, <2>2, <2>4 DEF Leaves, Performs
    <3>2. /\ GoodLog(Append(Append(l, a), c)) /\ LogEnded(Append(Append(l, a), c))
          /\ HasStarted(Append(Append(l, a), c))
          /\ Len(Append(Append(l, a), c)) = Len(l) + 2
          /\ Fold(Append(Append(l, a), c)).st = "Completed"
      <4>1. IsRunEnd(c)
        BY <1>2 DEF IsRunEnd, RunEnds
      <4> QED BY <1>1, <2>2, <3>1, <4>1, EndAppended
    <3>3. Last(Append(Append(l, a), c)).type \notin {"EffectDecided", "EffectAuthorized"}
      BY <3>2, GoodLast DEF IsRunEnd, RunEnds
    <3>4. Len(Append(Append(l, a), c)) >= Len(l)
      BY <1>1, <3>2
    <3> QED BY <1>5, <2>4, <3>2, <3>3, <3>4
  <2> QED BY <2>3, <2>4
<1> QED BY <1>3, <1>4, <1>5 DEF k

\* The next step of an answered log.
LEMMA AdvancedIsGood ==
    ASSUME NEW l, GoodLog(l), Quiet(l), LogEnded(l) => Fold(l).st # "Running"
    PROVE  GoodLog(Advanced(l)) /\ Quiet(Advanced(l)) /\ Len(Advanced(l)) >= Len(l)
<1> DEFINE s == Ev("StepAdvanced")
<1>1. s.type = "StepAdvanced"
  BY DEF Ev
<1> HIDE DEF s
<1>2. Len(l) \in Nat \ {0} /\ (LogEnded(l) <=> IsRunEnd(Last(l)))
  BY GoodLast
<1>3. CASE Fold(l).st # "Running"
  BY <1>2, <1>3 DEF Advanced
<1>4. CASE Fold(l).st = "Running"
  <2>1. Plain(s) /\ Follows(Last(l), s)
    BY <1>1, <1>2, <1>4 DEF Plain, Follows, IsRunEnd, RunEnds, Quiet
  <2>2. GoodLog(Append(l, s)) /\ Quiet(Append(l, s)) /\ Len(Append(l, s)) = Len(l) + 1
    BY <1>2, <1>4, <2>1, PlainAppended DEF Quiet
  <2>3. Advanced(l) = l \/ Advanced(l) = Append(l, s)
    BY Zenon DEF Advanced, s
  <2>4. Len(l) >= Len(l) /\ Len(Append(l, s)) >= Len(l)
    BY <1>2, <2>2
  <2>5. CASE Advanced(l) = l
    BY <2>4, <2>5
  <2>6. CASE Advanced(l) = Append(l, s)
    BY <2>2, <2>4, <2>6
  <2> QED BY <2>3, <2>5, <2>6
<1> QED BY <1>3, <1>4
(***************************************************************************)
(* The steps                                                               *)
(***************************************************************************)
\* An effect that is to be performed was authorized last, in an open run.
LEMMA Performing ==
    ASSUME DriverInv, pc = "perform", todo # <<>>
    PROVE  /\ Last(log).type = "EffectAuthorized" /\ todo[1] = Last(log).effect
           /\ Performs(todo[1]) /\ ~LogEnded(log) /\ Open(Fold(log)) /\ HasStarted(log)
<1>1. GoodLog(log) /\ todo = EffectsOfLast(log) /\ HasStarted(log)
  BY DEF DriverInv, Position
<1>2. Last(log).type = "EffectAuthorized" /\ Performs(Last(log).effect) /\ todo = <<Last(log).effect>>
  BY <1>1 DEF EffectsOfLast
<1>3. ~LogEnded(log)
  BY <1>1, <1>2, GoodLast DEF IsRunEnd, RunEnds
<1>4. Leaves(Fold(log), Last(log))
  BY <1>1, GoodLast
<1>5. Open(Fold(log))
  BY <1>2, <1>4 DEF Leaves, Open, Performs
<1> QED BY <1>1, <1>2, <1>3, <1>5

\* What a performance records: a good log m that owes nothing, advanced.
LEMMA RecordKeeps ==
    ASSUME DriverInv, NEW m, GoodLog(m), Quiet(m), Len(m) >= Len(log),
           LogEnded(m) => Fold(m).st # "Running",
           log' = Advanced(m), pc' = "boundary", kept' = kept
    PROVE  DriverInv'
<1>1. GoodLog(log) /\ kept \in 1..Len(log)
  BY DEF DriverInv
<1>2. Len(log) \in Nat /\ Len(m) \in Nat
  BY <1>1, GoodLast
<1>3. GoodLog(log') /\ Quiet(log') /\ Len(log') >= Len(m)
  BY AdvancedIsGood
<1>4. Len(log') \in Nat
  BY <1>3, GoodLast
<1>5. kept' \in 1..Len(log')
  BY <1>1, <1>2, <1>3, <1>4
<1>6. Position'
  BY <1>3 DEF Position
<1> QED BY <1>3, <1>5, <1>6 DEF DriverInv

\* One event of a kind the effect may leave.
LEMMA ResultRecorded ==
    ASSUME DriverInv, pc = "perform", todo # <<>>, NEW x, Record(<<x>>),
           x.type \in Results(todo[1]), x.type # "EffectDenied", Plain(x)
    PROVE  DriverInv'
<1>1. /\ Last(log).type = "EffectAuthorized" /\ todo[1] = Last(log).effect
      /\ ~LogEnded(log) /\ HasStarted(log) /\ GoodLog(log)
  BY Performing DEF DriverInv
<1>2. ~IsRunEnd(Last(log)) /\ log \in Seq(Elements(log)) /\ Len(log) \in Nat
  BY <1>1, GoodLast
<1>3. Follows(Last(log), x)
  BY <1>1, <1>2 DEF Follows, Plain
<1> DEFINE m == Append(log, x)
<1>4. GoodLog(m) /\ ~LogEnded(m) /\ Quiet(m) /\ Len(m) = Len(log) + 1
  BY <1>1, <1>3, PlainAppended
<1>5. log \o <<x>> = m
  BY <1>2
<1>6. log' = Advanced(m) /\ pc' = "boundary" /\ kept' = kept
  BY <1>5 DEF Record
<1>7. Len(m) >= Len(log)
  BY <1>2, <1>4
<1> HIDE DEF m
<1> QED BY <1>4, <1>6, <1>7, RecordKeeps

\* The run fails in the middle of an effect.
LEMMA FailureRecorded ==
    ASSUME DriverInv, pc = "perform", todo # <<>>, Record(<<Ev("RunFailed")>>)
    PROVE  DriverInv'
<1> DEFINE x == Ev("RunFailed")
           m == Append(log, x)
<1>1. ~LogEnded(log) /\ Open(Fold(log)) /\ GoodLog(log)
  BY Performing DEF DriverInv
<1>2. log \in Seq(Elements(log)) /\ Len(log) \in Nat
  BY <1>1, GoodLast
<1>3. IsRunEnd(x) /\ x.type # "RunCompleted"
  BY DEF Ev, IsRunEnd, RunEnds
<1>4. log \o <<x>> = m
  BY <1>2
<1>5. log' = Advanced(m) /\ pc' = "boundary" /\ kept' = kept
  BY <1>4 DEF Record
<1> HIDE DEF x
<1>6. GoodLog(m) /\ LogEnded(m) /\ Quiet(m) /\ Len(m) = Len(log) + 1 /\ Fold(m).st # "Running"
  BY <1>1, <1>3, EndAppended
<1>7. Len(m) >= Len(log)
  BY <1>2, <1>6
<1> HIDE DEF m
<1> QED BY <1>5, <1>6, <1>7, RecordKeeps

LEMMA PerformNothingKeeps ==
    ASSUME DriverInv, PerformNothing
    PROVE  DriverInv'
<1>1. GoodLog(log) /\ pc = "perform" /\ todo = <<>> /\ todo = EffectsOfLast(log)
      /\ HasStarted(log) /\ Last(log).type # "EffectDecided"
      /\ (Last(log).type = "EffectAuthorized" => Performs(Last(log).effect))
      /\ (LogEnded(log) => Fold(log).st = "Completed")
  BY DEF DriverInv, Position, PerformNothing
<1>2. log \in Seq(Elements(log)) /\ Len(log) \in Nat /\ log # <<>>
  BY <1>1, GoodLast DEF IsLog
<1>3. Last(log).type # "EffectAuthorized"
  BY <1>1, <1>2 DEF EffectsOfLast
<1>4. log \o <<>> = log
  BY <1>2, ConcatEmptySeq
<1>5. log' = Advanced(log) /\ pc' = "boundary" /\ kept' = kept
  BY <1>4 DEF PerformNothing, Record
<1>6. Quiet(log)
  BY <1>1, <1>3 DEF Quiet
<1>7. Len(log) >= Len(log) /\ (LogEnded(log) => Fold(log).st # "Running")
  BY <1>1, <1>2
<1> QED BY <1>1, <1>5, <1>6, <1>7, RecordKeeps

LEMMA CallToolKeeps ==
    ASSUME DriverInv, CallTool
    PROVE  DriverInv'
<1>1. pc = "perform" /\ todo # <<>> /\ todo[1].kind = "tool"
  BY DEF CallTool
<1>2. ToolAnswer.type \in Results(todo[1]) /\ ToolAnswer.type # "EffectDenied" /\ Plain(ToolAnswer)
  BY <1>1, EvTypes DEF ToolAnswer, Results, Plain, IsRunEnd, RunEnds, Sending, Asking
<1>3. Record(<<ToolAnswer>>) \/ Record(<<Ev("RunFailed")>>)
  BY DEF CallTool
<1> QED BY <1>1, <1>2, <1>3, ResultRecorded, FailureRecorded

LEMMA CallModelKeeps ==
    ASSUME DriverInv, CallModel
    PROVE  DriverInv'
<1> DEFINE x == Ev("ModelResponded")
<1>1. pc = "perform" /\ todo # <<>> /\ todo[1].kind = "model"
  BY DEF CallModel
<1>2. x.type \in Results(todo[1]) /\ x.type # "EffectDenied" /\ Plain(x)
  BY <1>1, EvTypes DEF Results, Plain, IsRunEnd, RunEnds, Sending, Asking
<1>3. Record(<<x>>) \/ Record(<<Ev("RunFailed")>>)
  BY DEF CallModel
<1> HIDE DEF x
<1> QED BY <1>1, <1>2, <1>3, ResultRecorded, FailureRecorded

LEMMA UseMemoryKeeps ==
    ASSUME DriverInv, UseMemory
    PROVE  DriverInv'
<1> DEFINE x == About("MemoryUsed", todo[1])
<1>1. pc = "perform" /\ todo # <<>> /\ todo[1].kind \in {"read", "write"}
  BY DEF UseMemory
<1>2. x.type \in Results(todo[1]) /\ x.type # "EffectDenied" /\ Plain(x)
  BY <1>1, EvTypes DEF Results, Plain, IsRunEnd, RunEnds, Sending, Asking
<1>3. Record(<<x>>) \/ Record(<<Ev("RunFailed")>>)
  BY DEF UseMemory, FailMemory
<1> HIDE DEF x
<1> QED BY <1>1, <1>2, <1>3, ResultRecorded, FailureRecorded

LEMMA DelegateKeeps ==
    ASSUME DriverInv, Delegate
    PROVE  DriverInv'
<1>1. pc = "perform" /\ todo # <<>> /\ todo[1].kind = "delegate"
  BY DEF Delegate
<1>2. \A c : ChildStarted(c).type = "ChildStarted"
  BY EvTypes DEF ChildStarted, Of, Ev
<1>3. \E x : Record(<<x>>) /\ x.type \in {"ChildStarted", "DelegateRefused"}
  <2> DEFINE none == Ev("DelegateRefused")
  <2>1. (\E c : Record(<<ChildStarted(c)>>)) \/ Record(<<none>>)
    BY DEF Delegate
  <2>2. none.type = "DelegateRefused"
    BY EvTypes
  <2> HIDE DEF none
  <2> QED BY <1>2, <2>1, <2>2
<1>4. PICK x : Record(<<x>>) /\ x.type \in {"ChildStarted", "DelegateRefused"}
  BY <1>3
<1>5. x.type \in Results(todo[1]) /\ x.type # "EffectDenied" /\ Plain(x)
  BY <1>1, <1>4 DEF Results, Plain, IsRunEnd, RunEnds, Sending, Asking
<1> QED BY <1>1, <1>4, <1>5, ResultRecorded

\* A message that starts a task records the child, then the message.
LEMMA SendMessageKeeps ==
    ASSUME DriverInv, SendMessage
    PROVE  DriverInv'
<1>1. pc = "perform" /\ todo # <<>> /\ todo[1].kind \in Sending
  BY DEF SendMessage
<1>2. \A c : ChildStarted(c).type = "ChildStarted"
  BY EvTypes DEF ChildStarted, Of, Ev
<1>3. Results(todo[1]) = {"ChildStarted", "AskSent", "MessageSent", "MessageRefused"}
  BY <1>1 DEF Results, Sending, Asking
<1>4. \/ \E x : Record(<<x>>) /\ x.type \in {"AskSent", "MessageSent", "MessageRefused"}
      \/ \E x, y : Record(<<x>> \o <<y>>) /\ x.type = "ChildStarted" /\ y.type \in {"AskSent", "MessageSent"}
  <2> DEFINE said == Of(IF todo[1].kind \in Asking THEN "AskSent" ELSE "MessageSent", <<Steps(log)>>)
             none == Ev("MessageRefused")
  <2>1. said.type \in {"AskSent", "MessageSent"} /\ none.type = "MessageRefused"
    BY EvTypes
  <2>2. \/ Record(<<none>>)
        \/ Record(<<>> \o <<said>>)
        \/ \E c : Record(<<ChildStarted(c)>> \o <<said>>)
    BY DEF SendMessage
  <2>3. <<>> \o <<said>> = <<said>>
    OBVIOUS
  <2> HIDE DEF said, none
  <2> QED BY <1>2, <2>1, <2>2, <2>3
<1>5. CASE \E x : Record(<<x>>) /\ x.type \in {"AskSent", "MessageSent", "MessageRefused"}
  <2>1. PICK x : Record(<<x>>) /\ x.type \in {"AskSent", "MessageSent", "MessageRefused"}
    BY <1>5
  <2>2. x.type \in Results(todo[1]) /\ x.type # "EffectDenied" /\ Plain(x)
    BY <1>3, <2>1 DEF Plain, IsRunEnd, RunEnds
  <2> QED BY <1>1, <2>1, <2>2, ResultRecorded
<1>6. CASE \E x, y : Record(<<x>> \o <<y>>) /\ x.type = "ChildStarted" /\ y.type \in {"AskSent", "MessageSent"}
  <2>1. PICK x, y : Record(<<x>> \o <<y>>) /\ x.type = "ChildStarted" /\ y.type \in {"AskSent", "MessageSent"}
    BY <1>6
  <2>2. /\ Last(log).type = "EffectAuthorized" /\ todo[1] = Last(log).effect
        /\ ~LogEnded(log) /\ HasStarted(log) /\ GoodLog(log)
    BY <1>1, Performing DEF DriverInv
  <2>3. ~IsRunEnd(Last(log)) /\ log \in Seq(Elements(log)) /\ Len(log) \in Nat
    BY <2>2, GoodLast
  <2>4. Plain(x) /\ Plain(y) /\ Follows(Last(log), x) /\ Follows(x, y)
    BY <1>3, <2>1, <2>2, <2>3 DEF Follows, Plain, IsRunEnd, RunEnds
  <2>5. /\ GoodLog(Append(log, x)) /\ HasStarted(Append(log, x)) /\ Last(Append(log, x)) = x
        /\ Len(Append(log, x)) = Len(log) + 1
    BY <2>2, <2>4, PlainAppended
  <2> DEFINE m == Append(Append(log, x), y)
  <2>6. GoodLog(m) /\ ~LogEnded(m) /\ Quiet(m) /\ Len(m) = Len(log) + 1 + 1
    BY <2>4, <2>5, PlainAppended
  <2>7. log \o (<<x>> \o <<y>>) = m
    BY <2>3
  <2>8. log' = Advanced(m) /\ pc' = "boundary" /\ kept' = kept
    BY <2>1, <2>7 DEF Record
  <2>9. Len(m) >= Len(log)
    BY <2>3, <2>6
  <2> HIDE DEF m
  <2> QED BY <2>6, <2>8, <2>9, RecordKeeps
<1> QED BY <1>4, <1>5, <1>6

LEMMA AskUserKeeps ==
    ASSUME DriverInv, AskUser
    PROVE  DriverInv'
<1> DEFINE x == IF UserQuestions THEN Of("UserAsked", <<Steps(log)>>) ELSE Ev("UserAskRefused")
<1>1. pc = "perform" /\ todo # <<>> /\ todo[1].kind = "question" /\ Record(<<x>>)
  BY DEF AskUser
<1>2. x.type \in {"UserAsked", "UserAskRefused"}
  BY EvTypes
<1> HIDE DEF x
<1>3. x.type \in Results(todo[1]) /\ x.type # "EffectDenied" /\ Plain(x)
  BY <1>1, <1>2 DEF Results, Plain, IsRunEnd, RunEnds, Sending, Asking
<1> QED BY <1>1, <1>3, ResultRecorded

\* A driver that is resumed takes up what the log it was given owes.
LEMMA ResumeKeeps ==
    ASSUME DriverInv, Resume
    PROVE  DriverInv'
<1>1. GoodLog(log) /\ kept \in 1..Len(log) /\ kept' = kept
  BY DEF DriverInv, Resume
<1>2. Len(log) \in Nat \ {0} /\ (LogEnded(log) <=> IsRunEnd(Last(log))) /\ Leaves(Fold(log), Last(log))
      /\ (Last(log).type \in {"EffectDecided", "EffectAuthorized"} => HasStarted(log))
      /\ IsLog(log)
  BY <1>1, GoodLast
<1>3. CASE LogEnded(log)
  <2>1. pc' = "boundary" /\ log' = log
    BY <1>3 DEF Resume
  <2> QED BY <1>1, <1>3, <2>1 DEF DriverInv, Position, Quiet
<1>4. CASE ~LogEnded(log) /\ ~HasStarted(log)
  <2> DEFINE x == Ev("RunStarted")
  <2>1. pc' = "boundary" /\ log' = Append(log, x)
    BY <1>4 DEF Resume, Add
  <2>2. x.type = "RunStarted"
    BY EvTypes
  <2> HIDE DEF x
  <2>3. Plain(x) /\ Follows(Last(log), x)
    BY <1>2, <1>4, <2>2 DEF Plain, Follows, IsRunEnd, RunEnds
  <2>4. GoodLog(log') /\ Quiet(log') /\ Len(log') = Len(log) + 1
    BY <1>1, <2>1, <2>2, <2>3, PlainAppended
  <2> QED BY <1>1, <1>2, <2>1, <2>4 DEF DriverInv, Position
<1>5. CASE ~LogEnded(log) /\ HasStarted(log) /\ Fold(log).st = "Completed"
  <2> DEFINE x == Ev("RunCompleted")
  <2>1. pc' = "boundary" /\ log' = Append(log, x)
    BY <1>5 DEF Resume, Add
  <2>2. IsRunEnd(x)
    BY EvTypes DEF IsRunEnd, RunEnds
  <2> HIDE DEF x
  <2>3. GoodLog(log') /\ Quiet(log') /\ Len(log') = Len(log) + 1
    BY <1>1, <1>5, <2>1, <2>2, EndAppended
  <2> QED BY <1>1, <1>2, <2>1, <2>3 DEF DriverInv, Position
<1>6. CASE ~LogEnded(log) /\ HasStarted(log) /\ Fold(log).st # "Completed"
  <2>1. TakeUp
    BY <1>6 DEF Resume
  <2>2. pc' = "finish" /\ log' = log
    BY <2>1 DEF TakeUp
  <2>3. CASE Last(log).type = "EffectDecided"
    <3>1. prior' = <<Fold(SubSeq(log, 1, Len(log) - 1)), Last(log).effect>>
      BY <2>1, <2>3 DEF TakeUp
    <3>2. Fold(log) = Fold(SubSeq(log, 1, Len(log) - 1))
      BY <1>2, <2>3, FoldLast, ReduceDecided
    <3>3. prior' = <<Fold(log), Last(log).effect>>
      BY <3>1, <3>2
    <3> QED BY <1>1, <1>6, <2>2, <2>3, <3>3 DEF DriverInv, Position
  <2>4. CASE Last(log).type # "EffectDecided"
    <3>1. prior' = <<>> /\ todo' = EffectsOfLast(log)
      BY <2>1, <2>4 DEF TakeUp
    <3> QED BY <1>1, <1>6, <2>2, <2>4, <3>1 DEF DriverInv, Position
  <2> QED BY <2>3, <2>4
<1> QED BY <1>3, <1>4, <1>5, <1>6

LEMMA FinishKeeps ==
    ASSUME DriverInv, Finish
    PROVE  DriverInv'
<1>1. /\ GoodLog(log) /\ kept \in 1..Len(log) /\ kept' = kept /\ pc' = "perform"
      /\ HasStarted(log) /\ ~LogEnded(log) /\ Fold(log).st # "Completed"
  BY DEF DriverInv, Finish, Position
<1>2. Len(log) \in Nat \ {0} /\ Leaves(Fold(log), Last(log))
  BY <1>1, GoodLast
<1>3. CASE Last(log).type = "EffectDecided"
  <2> DEFINE e == Last(log).effect
             k == log \o Verdict(log, Fold(log), e)
  <2>1. prior = <<Fold(log), e>>
    BY <1>3 DEF DriverInv, Finish, Position
  <2>2. prior # <<>> /\ prior[1] = Fold(log) /\ prior[2] = e
    BY <2>1
  <2>3. log' = k /\ todo' = EffectsOfLast(log')
    BY <2>2 DEF Finish
  <2>4. /\ GoodLog(k) /\ Len(k) >= Len(log) /\ HasStarted(k)
        /\ Last(k).type # "EffectDecided"
        /\ Last(k).type = "EffectAuthorized" => Performs(Last(k).effect)
        /\ LogEnded(k) => Fold(k).st = "Completed"
    BY <1>1, <1>3, VerdictAppended
  <2> HIDE DEF k
  <2>5. Len(k) \in Nat
    BY <2>4, GoodLast
  <2>6. kept' \in 1..Len(log')
    BY <1>1, <1>2, <2>3, <2>4, <2>5
  <2> QED BY <1>1, <2>3, <2>4, <2>6 DEF DriverInv, Position
<1>4. CASE Last(log).type # "EffectDecided"
  <2>1. prior = <<>> /\ todo = EffectsOfLast(log)
    BY <1>4 DEF DriverInv, Finish, Position
  <2>2. log' = log /\ todo' = todo
    BY <2>1 DEF Finish
  <2>3. Last(log).type = "EffectAuthorized" => Performs(Last(log).effect)
    BY <1>1, <1>2 DEF Leaves
  <2> QED BY <1>1, <1>4, <2>1, <2>2, <2>3 DEF DriverInv, Position
<1> QED BY <1>3, <1>4

LEMMA DecideKeeps ==
    ASSUME DriverInv, NEW e \in Effects, Decide(e)
    PROVE  DriverInv'
<1>1. /\ GoodLog(log) /\ kept \in 1..Len(log) /\ kept' = kept
      /\ pc = "boundary" /\ ~IsTerminal(Fold(log)) /\ ~LogEnded(log)
      /\ Fold(log).st # "WaitingForMessage" /\ Quiet(log)
  BY DEF DriverInv, Decide, Position
<1>2. /\ Len(log) \in Nat \ {0} /\ HasStarted(log)
      /\ Last(log).type \notin {"EffectDecided", "EffectAuthorized"}
      /\ ~IsRunEnd(Last(log)) /\ "st" \in DOMAIN Fold(log)
  BY <1>1, GoodLast DEF Quiet
<1> DEFINE x == About("EffectDecided", e)
           d == Append(log, x)
           k == d \o Verdict(d, Fold(log), e)
           f == Ev("RunFailed")
<1>3. log' = Append(log, f) \/ log' = k
  BY DEF Decide
<1>4. todo' = EffectsOfLast(log') /\ pc' = IF todo' = <<>> THEN "boundary" ELSE "perform"
  BY DEF Decide
<1>5. x.type = "EffectDecided" /\ x.effect = e /\ f.type = "RunFailed"
  BY EvTypes
<1> HIDE DEF x, f
<1>6. CASE log' = Append(log, f)
  <2>1. IsRunEnd(f) /\ f.type # "RunCompleted"
    BY <1>5 DEF IsRunEnd, RunEnds
  <2>2. GoodLog(log') /\ Quiet(log') /\ Len(log') = Len(log) + 1 /\ Last(log') = f
    BY <1>1, <1>6, <2>1, EndAppended
  <2>3. todo' = <<>>
    BY <1>4, <1>5, <2>2 DEF EffectsOfLast
  <2>4. kept' \in 1..Len(log')
    BY <1>1, <1>2, <2>2
  <2>5. pc' = "boundary"
    BY <1>4, <2>3
  <2> QED BY <2>2, <2>4, <2>5 DEF DriverInv, Position
<1>7. CASE log' = k
  <2>1. Follows(Last(log), x)
    BY <1>2, <1>5 DEF Follows, IsRunEnd, RunEnds
  <2>2. Reduce(Fold(log), x) = Fold(log) /\ ~IsRunEnd(x)
    BY <1>5, ReduceDecided DEF IsRunEnd, RunEnds
  <2>3. Leaves(Reduce(Fold(log), x), x)
    BY <1>1, <1>2, <1>5, <2>2 DEF Leaves
  <2>4. GoodLog(d) /\ Last(d) = x /\ Fold(d) = Fold(log) /\ Len(d) = Len(log) + 1
    BY <1>1, <1>2, <2>1, <2>2, <2>3, GoodAppend
  <2>5. ~LogEnded(d)
    BY <2>2, <2>4, GoodLast
  <2> HIDE DEF d
  <2>6. /\ GoodLog(k) /\ Len(k) >= Len(d) /\ HasStarted(k)
        /\ Last(k).type # "EffectDecided"
        /\ Last(k).type = "EffectAuthorized" => Performs(Last(k).effect)
        /\ LogEnded(k) => Fold(k).st = "Completed"
    BY <1>5, <2>4, <2>5, VerdictAppended
  <2> HIDE DEF k
  <2>7. Len(k) \in Nat /\ k # <<>>
    BY <2>6, GoodLast DEF IsLog
  <2>8. kept' \in 1..Len(log')
    BY <1>1, <1>2, <1>7, <2>4, <2>6, <2>7
  <2>9. CASE todo' = <<>>
    <3>1. Last(k).type # "EffectAuthorized"
      BY <1>4, <1>7, <2>6, <2>7, <2>9 DEF EffectsOfLast
    <3>2. pc' = "boundary" /\ Quiet(k)
      BY <1>4, <2>6, <2>9, <3>1 DEF Quiet
    <3> QED BY <1>7, <2>6, <2>8, <3>2 DEF DriverInv, Position
  <2>10. CASE todo' # <<>>
    <3>1. pc' = "perform"
      BY <1>4, <2>10
    <3> QED BY <1>4, <1>7, <2>6, <2>8, <3>1 DEF DriverInv, Position
  <2> QED BY <2>9, <2>10
<1> QED BY <1>3, <1>6, <1>7

LEMMA EndAddedKeeps ==
    ASSUME DriverInv, NEW x, IsRunEnd(x), x.type # "RunCompleted", ~LogEnded(log),
           log' = Append(log, x), kept' = kept \/ kept' = Len(log'), pc' = pc,
           pc \in {"boundary", "down"}
    PROVE  DriverInv'
<1>1. GoodLog(log) /\ kept \in 1..Len(log)
  BY DEF DriverInv
<1>2. Len(log) \in Nat \ {0}
  BY <1>1, GoodLast
<1>3. GoodLog(log') /\ Quiet(log') /\ Len(log') = Len(log) + 1
  BY <1>1, EndAppended
<1>4. kept' \in 1..Len(log')
  BY <1>1, <1>2, <1>3
<1> QED BY <1>3, <1>4 DEF DriverInv, Position

LEMMA OthersKeep ==
    ASSUME DriverInv, DeciderFails \/ Cancel \/ EndedByOther
    PROVE  DriverInv'
<1>1. CASE DeciderFails
  <2>1. IsRunEnd(Ev("RunFailed")) /\ Ev("RunFailed").type # "RunCompleted"
    BY EvTypes DEF IsRunEnd, RunEnds
  <2> QED BY <1>1, <2>1, EndAddedKeeps DEF DeciderFails
<1>2. IsRunEnd(Ev("RunCancelled")) /\ Ev("RunCancelled").type # "RunCompleted"
  BY EvTypes DEF IsRunEnd, RunEnds
<1>3. CASE Cancel
  BY <1>2, <1>3, EndAddedKeeps DEF Cancel
<1>4. CASE EndedByOther
  BY <1>2, <1>4, EndAddedKeeps DEF EndedByOther
<1> QED BY <1>1, <1>3, <1>4

LEMMA ReplyKeeps ==
    ASSUME DriverInv, Reply
    PROVE  DriverInv'
<1> DEFINE x == Of("Answer", Fold(log).on)
<1>1. GoodLog(log) /\ pc = "down" /\ pc' = "down" /\ Fold(log).st = "WaitingForMessage"
      /\ log' = Append(log, x) /\ kept' = Len(log')
  BY DEF DriverInv, Reply
<1>2. Len(log) \in Nat \ {0} /\ Leaves(Fold(log), Last(log))
  BY <1>1, GoodLast
<1>3. x.type = "Answer"
  BY EvTypes
<1> HIDE DEF x
<1>4. Plain(x) /\ Follows(Last(log), x)
  BY <1>1, <1>2, <1>3 DEF Plain, Follows, Leaves, IsRunEnd, RunEnds
<1>5. GoodLog(log') /\ Len(log') = Len(log) + 1
  BY <1>1, <1>4, PlainAppended
<1>6. kept' \in 1..Len(log')
  BY <1>1, <1>2, <1>5
<1> QED BY <1>1, <1>5, <1>6 DEF DriverInv, Position

LEMMA CrashKeeps ==
    ASSUME DriverInv, Crash
    PROVE  DriverInv'
<1>1. GoodLog(log) /\ kept \in 1..Len(log) /\ pc' = "down"
  BY DEF DriverInv, Crash
<1>2. PICK k \in kept..Len(log) : log' = SubSeq(log, 1, k) /\ kept' = k
  BY DEF Crash
<1>3. Len(log) \in Nat /\ k \in 1..Len(log)
  BY <1>1, <1>2, GoodLast
<1>4. GoodLog(log') /\ Len(log') = k
  BY <1>1, <1>2, <1>3, GoodCut
<1> QED BY <1>1, <1>2, <1>3, <1>4 DEF DriverInv, Position

LEMMA CallerKeeps ==
    ASSUME DriverInv, Keep \/ Return
    PROVE  DriverInv'
<1>1. GoodLog(log) /\ kept \in 1..Len(log) /\ log' = log /\ pc = "boundary" /\ Quiet(log)
      /\ pc' \in {"boundary", "done", "down"} /\ kept' \in {kept, Len(log)}
  BY DEF DriverInv, Position, Keep, Return
<1>2. Len(log) \in Nat \ {0}
  BY <1>1, GoodLast
<1> QED BY <1>1, <1>2 DEF DriverInv, Position

LEMMA InitInv == Init => DriverInv
<1> SUFFICES ASSUME Init PROVE DriverInv
  OBVIOUS
<1> DEFINE a == Ev("RunCreated")
           b == Ev("RunScheduled")
<1>1. a.type = "RunCreated" /\ b.type = "RunScheduled"
  BY EvTypes
<1>2. log = <<a, b>> /\ kept = Len(log) /\ pc = "down"
  BY DEF Init
<1> HIDE DEF a, b
<1>3. log \in Seq({a, b}) /\ Len(log) = 2 /\ log[1] = a /\ log[2] = b
  BY <1>2
<1>4. IsLog(log)
  BY <1>2, <1>3, SeqOfElements DEF IsLog
<1>5. ASSUME NEW i \in 1..2
      PROVE  "st" \in DOMAIN Fold(SubSeq(log, 1, i)) /\ log[i].type \in {"RunCreated", "RunScheduled"}
  <2>1. i = 1 \/ i = 2
    OBVIOUS
  <2>2. log \in Seq(Elements(log)) /\ 0 \in 0..Len(log) /\ 1 \in 0..Len(log) /\ 2 \in 0..Len(log)
    BY <1>3, <1>4 DEF IsLog
  <2>3. "st" \in DOMAIN Fold(SubSeq(log, 1, 0))
    <3> DEFINE c == SubSeq(log, 1, 0)
    <3>1. Len(c) = 0
      BY <2>2, CutLog
    <3> HIDE DEF c
    <3>2. PICK f : IsTrail(f, c) /\ Fold(c) = f[0]
      BY <3>1, FoldEnds
    <3>3. f[0] = State("Idle")
      BY <3>1, <3>2 DEF IsTrail
    <3>4. "st" \in DOMAIN Fold(c)
      BY <3>2, <3>3 DEF State
    <3> QED BY <3>4 DEF c
  <2>4. ASSUME NEW j \in {1, 2} PROVE "st" \in DOMAIN Fold(SubSeq(log, 1, j - 1)) => "st" \in DOMAIN Fold(SubSeq(log, 1, j))
    <3> DEFINE c == SubSeq(log, 1, j)
    <3>1. j \in 0..Len(log) /\ j - 1 \in 0..j
      BY <1>3
    <3>2. c \in Seq(Elements(c)) /\ Len(c) = j /\ SubSeq(c, 1, j - 1) = SubSeq(log, 1, j - 1)
      BY <2>2, <3>1, CutLog
    <3> HIDE DEF c
    <3>3. IsLog(c)
      BY <3>2, EmptySeq DEF IsLog
    <3>4. Fold(c) = Reduce(Fold(SubSeq(log, 1, j - 1)), Last(c))
      BY <3>2, <3>3, FoldLast
    <3> QED BY <3>4, ReduceHasState DEF c
  <2>5. "st" \in DOMAIN Fold(SubSeq(log, 1, 1)) /\ "st" \in DOMAIN Fold(SubSeq(log, 1, 2))
    <3>1. 1 - 1 = 0 /\ 2 - 1 = 1
      OBVIOUS
    <3> QED BY <2>3, <2>4, <3>1
  <2> QED BY <1>1, <1>3, <2>1, <2>5
<1>6. \A i \in 1..2 : Leaves(Fold(SubSeq(log, 1, i)), log[i])
  BY <1>5 DEF Leaves, IsRunEnd, RunEnds
<1>7. Follows(log[1], log[2])
  BY <1>1, <1>3 DEF Follows, IsRunEnd, RunEnds
<1>8. \A i \in 1..(Len(log) - 1) : i = 1
  BY <1>3
<1>9. GoodLog(log)
  BY <1>3, <1>4, <1>5, <1>6, <1>7, <1>8 DEF GoodLog
<1> QED BY <1>2, <1>3, <1>9 DEF DriverInv, Position

LEMMA NextKeeps ==
    ASSUME DriverInv, [Next]_vars
    PROVE  DriverInv'
<1>1. CASE Next
  <2>1. CASE Resume
    BY <2>1, ResumeKeeps
  <2>2. CASE Finish
    BY <2>2, FinishKeeps
  <2>3. CASE \E e \in Effects : Decide(e)
    BY <2>3, DecideKeeps
  <2>4. CASE Perform
    BY <2>4, PerformNothingKeeps, CallToolKeeps, CallModelKeeps, UseMemoryKeeps, DelegateKeeps,
       SendMessageKeeps, AskUserKeeps DEF Perform
  <2>5. CASE Keep \/ Return
    BY <2>5, CallerKeeps
  <2>6. CASE DeciderFails \/ Cancel \/ EndedByOther
    BY <2>6, OthersKeep
  <2>7. CASE Crash
    BY <2>7, CrashKeeps
  <2>8. CASE Reply
    BY <2>8, ReplyKeeps
  <2> QED BY <1>1, <2>1, <2>2, <2>3, <2>4, <2>5, <2>6, <2>7, <2>8 DEF Next, Drive
<1>2. CASE UNCHANGED vars
  BY <1>2 DEF vars, DriverInv, Position
<1> QED BY <1>1, <1>2

\* Wherever the log of a run was cut, and however often its driver died, it
\* reads as if one driver had written it: each decision has its one verdict, each
\* authorized effect its one result, and nothing follows an end (driver.rs
\* Driver::resume, run_until).
THEOREM LogsReadAsOne == Spec => []OneDriverLog
<1>1. DriverInv => OneDriverLog
  <2> SUFFICES ASSUME DriverInv PROVE OneDriverLog
    OBVIOUS
  <2>1. \A i \in 1..(Len(log) - 1) : Follows(log[i], log[i + 1])
    BY DEF DriverInv, GoodLog
  <2> QED BY <2>1 DEF OneDriverLog, Follows
<1>2. DriverInv /\ [Next]_vars => DriverInv'
  BY NextKeeps
<1> QED BY InitInv, <1>1, <1>2, PTL DEF Spec

(***************************************************************************)
(* Sums                                                                    *)
(***************************************************************************)
\* Of the sets in B some is minimal.
LEMMA MinimalSet ==
    ASSUME NEW S, IsFiniteSet(S), NEW B, B \subseteq SUBSET S, B # {}
    PROVE  \E s \in B : \A t \in SUBSET s : t # s => t \notin B
<1> DEFINE R == StrictSubsetOrdering(S)
<1>1. IsWellFoundedOn(R, FiniteSubsetsOf(S)) /\ FiniteSubsetsOf(S) = SUBSET S
  BY FS_StrictSubsetOrderingWellFounded, FS_FiniteSubsetsOfFinite
<1>2. PICK s \in B : \A t \in B : ~(<<t, s>> \in R)
  <2> HIDE DEF R
  <2> QED BY <1>1, WFMin
<1>3. ASSUME NEW t \in SUBSET s, t # s PROVE t \notin B
  <2>1. t \in SUBSET S /\ s \in SUBSET S
    OBVIOUS
  <2> QED BY <1>2, <1>3, <2>1 DEF StrictSubsetOrdering
<1> QED BY <1>3

\* g has the sum of the limits k of each subset of S.
Pick(s) == CHOOSE x \in s : TRUE
IsSum(g, S, k) ==
    g = [s \in SUBSET S |-> IF s = {} THEN 0 ELSE Pick(s).limits[k] + g[s \ {Pick(s)}]]

LEMMA Picked ==
    ASSUME NEW s, s # {}
    PROVE  Pick(s) \in s /\ s \ {Pick(s)} # s
BY DEF Pick

\* Sums of what two sets share agree.
LEMMA SumsAgree ==
    ASSUME NEW S, IsFiniteSet(S), NEW T, NEW k, NEW f, NEW g, IsSum(f, S, k), IsSum(g, T, k)
    PROVE  \A s \in (SUBSET S) \cap (SUBSET T) : f[s] = g[s]
<1> DEFINE B == {s \in (SUBSET S) \cap (SUBSET T) : f[s] # g[s]}
<1>1. SUFFICES ASSUME B # {} PROVE FALSE
  OBVIOUS
<1>2. PICK s \in B : \A t \in SUBSET s : t # s => t \notin B
  <2>1. B \subseteq SUBSET S
    OBVIOUS
  <2> HIDE DEF B
  <2> QED BY <1>1, <2>1, MinimalSet
<1>3. /\ s \in SUBSET S /\ s \in SUBSET T /\ f[s] # g[s]
      /\ f[s] = IF s = {} THEN 0 ELSE Pick(s).limits[k] + f[s \ {Pick(s)}]
      /\ g[s] = IF s = {} THEN 0 ELSE Pick(s).limits[k] + g[s \ {Pick(s)}]
  BY DEF IsSum
<1>4. s # {}
  BY <1>3
<1> DEFINE t == s \ {Pick(s)}
<1>5. t \in SUBSET s /\ t # s
  BY <1>4, Picked
<1>6. t \in (SUBSET S) \cap (SUBSET T) /\ t \notin B
  BY <1>2, <1>3, <1>5
<1>7. f[t] = g[t]
  BY <1>6
<1> QED BY <1>3, <1>4, <1>7

LEMMA SumExists ==
    ASSUME NEW S, IsFiniteSet(S), NEW k
    PROVE  \E g : IsSum(g, S, k)
<1> DEFINE B == {s \in SUBSET S : ~\E g : IsSum(g, s, k)}
<1>1. SUFFICES ASSUME B # {} PROVE FALSE
  OBVIOUS
<1>2. PICK s \in B : \A t \in SUBSET s : t # s => t \notin B
  <2>1. B \subseteq SUBSET S
    OBVIOUS
  <2> HIDE DEF B
  <2> QED BY <1>1, <2>1, MinimalSet
<1>3. s \in SUBSET S /\ ~\E g : IsSum(g, s, k)
  OBVIOUS
<1>4. \A t \in SUBSET s : t # s => IsFiniteSet(t) /\ \E g : IsSum(g, t, k)
  <2> SUFFICES ASSUME NEW t \in SUBSET s, t # s PROVE IsFiniteSet(t) /\ \E g : IsSum(g, t, k)
    OBVIOUS
  <2>1. t \in SUBSET S
    BY <1>3
  <2> QED BY <1>2, <2>1, FS_Subset
<1> HIDE DEF B
<1> DEFINE G(t) == CHOOSE g : IsSum(g, t, k)
           f == [t \in SUBSET s |->
                   IF t = {} THEN 0 ELSE Pick(t).limits[k] + G(t \ {Pick(t)})[t \ {Pick(t)}]]
<1>5. ASSUME NEW t \in SUBSET s, t # s PROVE f[t] = G(t)[t]
  <2>1. IsSum(G(t), t, k) /\ IsFiniteSet(t)
    <3>1. IsFiniteSet(t) /\ \E g : IsSum(g, t, k)
      BY <1>4, <1>5
    <3> QED BY <3>1, Zenon
  <2> DEFINE g == G(t)
  <2>2. g[t] = IF t = {} THEN 0 ELSE Pick(t).limits[k] + g[t \ {Pick(t)}]
    <3>1. t \in SUBSET t
      OBVIOUS
    <3> HIDE DEF g
    <3>2. IsSum(g, t, k)
      BY <2>1 DEF g
    <3> QED BY <3>1, <3>2 DEF IsSum
  <2>3. CASE t = {}
    BY <2>2, <2>3
  <2>4. CASE t # {}
    <3> DEFINE u == t \ {Pick(t)}
               h == G(u)
    <3>1. u \in SUBSET s /\ u # s /\ u \in SUBSET t
      BY <2>4, Picked
    <3>2. IsSum(h, u, k) /\ IsFiniteSet(u)
      BY <1>4, <3>1
    <3>3. g[u] = h[u]
      <4> HIDE DEF g, h, u
      <4>1. IsSum(g, t, k)
        BY <2>1 DEF g
      <4>2. u \in (SUBSET t) \cap (SUBSET u)
        BY <3>1
      <4> QED BY <2>1, <3>2, <4>1, <4>2, SumsAgree
    <3>4. f[t] = Pick(t).limits[k] + h[u]
      BY <2>4
    <3> QED BY <2>2, <2>4, <3>3, <3>4
  <2> QED BY <2>3, <2>4
<1>6. ASSUME NEW t \in SUBSET s
      PROVE  f[t] = IF t = {} THEN 0 ELSE Pick(t).limits[k] + f[t \ {Pick(t)}]
  <2>1. CASE t = {}
    BY <2>1
  <2>2. CASE t # {}
    <3> DEFINE u == t \ {Pick(t)}
    <3>1. u \in SUBSET s /\ u # s
      BY <2>2, Picked
    <3>2. f[u] = G(u)[u]
      <4> HIDE DEF u, f, G
      <4> QED BY <1>5, <3>1
    <3>3. f[t] = Pick(t).limits[k] + G(u)[u]
      BY <2>2
    <3> QED BY <2>2, <3>2, <3>3
  <2> QED BY <2>1, <2>2
<1>7. f = [t \in SUBSET s |-> f[t]]
  OBVIOUS
<1> HIDE DEF f
<1>8. IsSum(f, s, k)
  BY <1>6, <1>7 DEF IsSum
<1> QED BY <1>3, <1>8

LEMMA SumEnds ==
    ASSUME NEW S, IsFiniteSet(S), NEW k
    PROVE  \E g : IsSum(g, S, k) /\ SumOf(S, k) = g[S]
<1> DEFINE c == CHOOSE g : IsSum(g, S, k)
<1>1. IsSum(c, S, k)
  BY SumExists
<1>2. SumOf(S, k) = c[S]
  BY DEF SumOf, MapThenSumSet, MapThenFoldSet, IsSum, Pick
<1> QED BY <1>1, <1>2

\* The sums of numbers are numbers, and any member may be taken first.
LEMMA SumTakes ==
    ASSUME NEW S, IsFiniteSet(S), NEW k, \A c \in S : c.limits[k] \in Nat, NEW g, IsSum(g, S, k)
    PROVE  /\ \A s \in SUBSET S : g[s] \in Nat
           /\ \A s \in SUBSET S : \A x \in s : g[s] = x.limits[k] + g[s \ {x}]
<1>1. ASSUME NEW s \in SUBSET S
      PROVE  /\ s = {} => g[s] = 0
             /\ s # {} => g[s] = Pick(s).limits[k] + g[s \ {Pick(s)}]
  BY DEF IsSum
<1>2. \A s \in SUBSET S : g[s] \in Nat
  <2> DEFINE B == {s \in SUBSET S : g[s] \notin Nat}
  <2>1. SUFFICES ASSUME B # {} PROVE FALSE
    OBVIOUS
  <2>2. PICK s \in B : \A t \in SUBSET s : t # s => t \notin B
    <3>1. B \subseteq SUBSET S
      OBVIOUS
    <3> HIDE DEF B
    <3> QED BY <2>1, <3>1, MinimalSet
  <2>3. s \in SUBSET S /\ g[s] \notin Nat /\ s # {}
    <3>1. s \in SUBSET S /\ g[s] \notin Nat
      OBVIOUS
    <3>2. g[s] # 0
      BY <3>1
    <3> QED BY <1>1, <3>1, <3>2
  <2>4. Pick(s) \in s /\ s \ {Pick(s)} # s /\ s \ {Pick(s)} \in SUBSET s
    BY <2>3, Picked
  <2>5. g[s \ {Pick(s)}] \in Nat
    BY <2>2, <2>3, <2>4
  <2>6. g[s] = Pick(s).limits[k] + g[s \ {Pick(s)}] /\ Pick(s).limits[k] \in Nat
    BY <1>1, <2>3, <2>4
  <2> QED BY <2>3, <2>5, <2>6
<1>3. \A s \in SUBSET S : \A x \in s : g[s] = x.limits[k] + g[s \ {x}]
  <2> DEFINE B == {s \in SUBSET S : \E x \in s : g[s] # x.limits[k] + g[s \ {x}]}
  <2>1. SUFFICES ASSUME B # {} PROVE FALSE
    OBVIOUS
  <2>2. PICK s \in B : \A t \in SUBSET s : t # s => t \notin B
    <3>1. B \subseteq SUBSET S
      OBVIOUS
    <3> HIDE DEF B
    <3> QED BY <2>1, <3>1, MinimalSet
  <2>3. s \in SUBSET S
    OBVIOUS
  <2>4. PICK x \in s : g[s] # x.limits[k] + g[s \ {x}]
    OBVIOUS
  <2> DEFINE y == Pick(s)
  <2>5. y \in s /\ g[s] = y.limits[k] + g[s \ {y}]
    BY <1>1, <2>3, <2>4, Picked
  <2> HIDE DEF y
  <2>6. x # y
    BY <2>4, <2>5
  <2>7. g[s \ {y}] = x.limits[k] + g[(s \ {y}) \ {x}]
    <3>1. s \ {y} \in SUBSET s /\ s \ {y} # s /\ s \ {y} \in SUBSET S /\ x \in s \ {y}
      BY <2>3, <2>5, <2>6
    <3>2. s \ {y} \notin B
      BY <2>2, <3>1
    <3> QED BY <3>1, <3>2
  <2>8. g[s \ {x}] = y.limits[k] + g[(s \ {x}) \ {y}]
    <3>1. s \ {x} \in SUBSET s /\ s \ {x} # s /\ s \ {x} \in SUBSET S /\ y \in s \ {x}
      BY <2>3, <2>5, <2>6
    <3>2. s \ {x} \notin B
      BY <2>2, <3>1
    <3> QED BY <3>1, <3>2
  <2>9. (s \ {x}) \ {y} = (s \ {y}) \ {x} /\ (s \ {y}) \ {x} \in SUBSET S
    BY <2>3
  <2>10. x.limits[k] \in Nat /\ y.limits[k] \in Nat /\ g[(s \ {y}) \ {x}] \in Nat
    BY <1>2, <2>3, <2>5, <2>9
  <2> DEFINE a == x.limits[k]
             b == y.limits[k]
             r == g[(s \ {y}) \ {x}]
  <2>11. g[s] = b + (a + r) /\ g[s \ {x}] = b + r /\ a \in Nat /\ b \in Nat /\ r \in Nat
         /\ g[s] # a + g[s \ {x}]
    BY <2>4, <2>5, <2>7, <2>8, <2>9, <2>10
  <2> HIDE DEF a, b, r
  <2> QED BY <2>11
<1> QED BY <1>2, <1>3

\* One more child adds its limits to the sum.
LEMMA SumAdds ==
    ASSUME NEW S, IsFiniteSet(S), NEW c, NEW k, \A d \in S \cup {c} : d.limits[k] \in Nat
    PROVE  /\ SumOf(S, k) \in Nat
           /\ c \notin S => SumOf(S \cup {c}, k) = SumOf(S, k) + c.limits[k]
<1> DEFINE T == S \cup {c}
<1>1. IsFiniteSet(T)
  BY FS_AddElement
<1>2. PICK f : IsSum(f, S, k) /\ SumOf(S, k) = f[S]
  BY SumEnds
<1>3. \A d \in T : d.limits[k] \in Nat
  OBVIOUS
<1>4. S \in SUBSET T /\ T \in SUBSET T /\ c \in T
  OBVIOUS
<1> HIDE DEF T
<1>5. PICK g : IsSum(g, T, k) /\ SumOf(T, k) = g[T]
  BY <1>1, SumEnds
<1>6. f[S] = g[S]
  <2>1. S \in (SUBSET S) \cap (SUBSET T)
    BY <1>4
  <2> QED BY <1>2, <1>5, <2>1, SumsAgree
<1>7. g[S] \in Nat /\ g[T] = c.limits[k] + g[T \ {c}]
  BY <1>1, <1>3, <1>4, <1>5, SumTakes
<1>8. c \notin S => T \ {c} = S
  BY DEF T
<1>9. c.limits[k] \in Nat
  BY <1>3, <1>4
<1> DEFINE x == c.limits[k]
<1>10. SumOf(S, k) = g[S] /\ g[S] \in Nat
  BY <1>2, <1>6, <1>7
<1>11. c \notin S => SumOf(T, k) = x + g[S]
  BY <1>5, <1>7, <1>8
<1>12. x \in Nat
  BY <1>9
<1> HIDE DEF x
<1>13. c \notin S => SumOf(T, k) = SumOf(S, k) + x
  BY <1>10, <1>11, <1>12
<1> QED BY <1>10, <1>13 DEF T, x

LEMMA SumOfNone ==
    ASSUME NEW k PROVE SumOf({}, k) = 0
<1>1. IsFiniteSet({})
  BY FS_EmptySet
<1>2. PICK f : IsSum(f, {}, k) /\ SumOf({}, k) = f[{}]
  BY <1>1, SumEnds
<1>3. f[{}] = 0
  BY <1>2 DEF IsSum
<1> QED BY <1>2, <1>3

(***************************************************************************)
(* What an event spends                                                    *)
(***************************************************************************)
Step(h, e) == e.type = "EffectDecided" /\ ~(e.effect.kind = "complete" /\ h.st = "Running")
ModelCall(e) == e.type = "EffectAuthorized" /\ e.effect.kind = "model"

LEMMA Counted ==
    ASSUME NEW n \in Nat, NEW D, D \subseteq 1..n, NEW E1, E1 = D \/ E1 = D \cup {n + 1}
    PROVE  /\ Cardinality(D) \in Nat /\ Cardinality(E1) \in Nat
           /\ Cardinality(E1) = IF E1 = D THEN Cardinality(D) ELSE Cardinality(D) + 1
<1>1. IsFiniteSet(1..n)
  BY FS_Interval
<1>2. IsFiniteSet(D)
  BY <1>1, FS_Subset
<1>3. n + 1 \notin D /\ D \cup {n + 1} # D
  OBVIOUS
<1>4. Cardinality(D) \in Nat /\ Cardinality(D \cup {n + 1}) = Cardinality(D) + 1
  BY <1>2, <1>3, FS_AddElement, FS_CardinalityType
<1>5. CASE E1 = D
  BY <1>4, <1>5
<1>6. CASE E1 = D \cup {n + 1}
  BY <1>3, <1>4, <1>6
<1> QED BY <1>5, <1>6

LEMMA SpentAppend ==
    ASSUME NEW l, l \in Seq(Elements(l)), NEW e
    PROVE  /\ Steps(l) \in Nat /\ ModelCalls(l) \in Nat
           /\ Steps(Append(l, e)) = Steps(l) + IF Step(Fold(l), e) THEN 1 ELSE 0
           /\ ModelCalls(Append(l, e)) = ModelCalls(l) + IF ModelCall(e) THEN 1 ELSE 0
           /\ Given(Append(l, e)) = Given(l) \cup
                IF e.type = "ChildStarted" THEN {[id |-> e.id, limits |-> e.limits]} ELSE {}
<1> DEFINE m == Append(l, e)
           n == Len(l)
<1>1. /\ n \in Nat /\ Len(m) = n + 1 /\ m[n + 1] = e
      /\ \A i \in 1..n : m[i] = l[i]
      /\ \A i \in 0..n : SubSeq(m, 1, i) = SubSeq(l, 1, i)
      /\ m \in Seq(Elements(m))
  BY AppendedLog DEF IsLog
<1>2. DOMAIN l = 1..n /\ DOMAIN m = 1..(n + 1) /\ SubSeq(m, 1, n) = l
  <2>1. SubSeq(l, 1, n) = l /\ DOMAIN l = 1..n
    BY SubSeqFull, LenProperties
  <2>2. DOMAIN m = 1..Len(m)
    BY <1>1, LenProperties
  <2>3. n \in 0..n
    BY <1>1
  <2> QED BY <1>1, <2>1, <2>2, <2>3
<1> HIDE DEF m, n
<1> DEFINE StepsOf(x) == {i \in DOMAIN x : Step(Fold(SubSeq(x, 1, i - 1)), x[i])}
           CallsOf(x) == {i \in DOMAIN x : ModelCall(x[i])}
<1>3. \A x : Steps(x) = Cardinality(StepsOf(x)) /\ ModelCalls(x) = Cardinality(CallsOf(x))
  BY DEF Steps, ModelCalls, Step, ModelCall
<1>4. StepsOf(m) = StepsOf(l) \cup IF Step(Fold(l), e) THEN {n + 1} ELSE {}
  <2>1. ASSUME NEW i \in 1..n
        PROVE  Step(Fold(SubSeq(m, 1, i - 1)), m[i]) = Step(Fold(SubSeq(l, 1, i - 1)), l[i])
    <3>1. i - 1 \in 0..n
      BY <1>1
    <3> QED BY <1>1, <3>1
  <2>2. SubSeq(m, 1, (n + 1) - 1) = l
    <3>1. (n + 1) - 1 = n
      BY <1>1
    <3> QED BY <1>2, <3>1
  <2>3. 1..(n + 1) = 1..n \cup {n + 1}
    BY <1>1
  <2> QED BY <1>1, <1>2, <2>1, <2>2, <2>3
<1>5. CallsOf(m) = CallsOf(l) \cup IF ModelCall(e) THEN {n + 1} ELSE {}
  <2>1. 1..(n + 1) = 1..n \cup {n + 1}
    BY <1>1
  <2> QED BY <1>1, <1>2, <2>1
<1>6. StepsOf(l) \subseteq 1..n /\ CallsOf(l) \subseteq 1..n
  BY <1>2
<1>7. n + 1 \notin 1..n
  BY <1>1
<1> HIDE DEF StepsOf, CallsOf
<1>8. /\ Cardinality(StepsOf(l)) \in Nat
      /\ Cardinality(StepsOf(m)) = Cardinality(StepsOf(l)) + IF Step(Fold(l), e) THEN 1 ELSE 0
  <2>1. CASE Step(Fold(l), e)
    <3>1. StepsOf(m) = StepsOf(l) \cup {n + 1} /\ StepsOf(m) # StepsOf(l)
      BY <1>4, <1>6, <1>7, <2>1
    <3> QED BY <1>1, <1>6, <2>1, <3>1, Counted
  <2>2. CASE ~Step(Fold(l), e)
    <3>1. StepsOf(m) = StepsOf(l)
      BY <1>4, <2>2
    <3>2. Cardinality(StepsOf(l)) \in Nat
      BY <1>1, <1>6, Counted
    <3> QED BY <2>2, <3>1, <3>2
  <2> QED BY <2>1, <2>2
<1>9. /\ Cardinality(CallsOf(l)) \in Nat
      /\ Cardinality(CallsOf(m)) = Cardinality(CallsOf(l)) + IF ModelCall(e) THEN 1 ELSE 0
  <2>1. CASE ModelCall(e)
    <3>1. CallsOf(m) = CallsOf(l) \cup {n + 1} /\ CallsOf(m) # CallsOf(l)
      BY <1>5, <1>6, <1>7, <2>1
    <3> QED BY <1>1, <1>6, <2>1, <3>1, Counted
  <2>2. CASE ~ModelCall(e)
    <3>1. CallsOf(m) = CallsOf(l)
      BY <1>5, <2>2
    <3>2. Cardinality(CallsOf(l)) \in Nat
      BY <1>1, <1>6, Counted
    <3> QED BY <2>2, <3>1, <3>2
  <2> QED BY <2>1, <2>2
<1>10. Given(m) = Given(l) \cup
         IF e.type = "ChildStarted" THEN {[id |-> e.id, limits |-> e.limits]} ELSE {}
  <2>1. 1..(n + 1) = 1..n \cup {n + 1}
    BY <1>1
  <2> QED BY <1>1, <1>2, <2>1 DEF Given
<1> QED BY <1>3, <1>8, <1>9, <1>10 DEF m

(***************************************************************************)
(* The budget                                                              *)
(***************************************************************************)
\* The log names all the children there are, and with what it spent itself
\* their limits are within the budget.
Within(l, C) ==
    /\ IsFiniteSet(C) /\ \A c \in C : c.limits[1] \in Nat /\ c.limits[2] \in Nat
    /\ Given(l) = C
    /\ Steps(l) + SumOf(C, 1) <= MaxSteps
    /\ ModelCalls(l) + SumOf(C, 2) <= MaxModelCalls

\* Until the driver dies nobody resumes it in the middle of a decision, whose
\* verdict would be given without a look at the budget.
BudgetInv ==
    /\ crashes \in Nat
    /\ crashes = 0 =>
         /\ Within(log, children)
         /\ pc \in {"down", "finish"} => Last(log).type # "EffectDecided"

\* Events that spend nothing.
Free(e) == e.type \notin {"EffectDecided", "EffectAuthorized", "ChildStarted"}

LEMMA WithinFree ==
    ASSUME NEW l, l \in Seq(Elements(l)), NEW C, Within(l, C), NEW e, Free(e)
    PROVE  Within(Append(l, e), C) /\ Append(l, e) \in Seq(Elements(Append(l, e)))
<1>1. /\ Steps(l) \in Nat /\ ModelCalls(l) \in Nat
      /\ Steps(Append(l, e)) = Steps(l) + 0 /\ ModelCalls(Append(l, e)) = ModelCalls(l) + 0
      /\ Given(Append(l, e)) = Given(l)
  BY SpentAppend DEF Step, ModelCall, Free
<1>2. Append(l, e) \in Seq(Elements(Append(l, e)))
  BY AppendedLog DEF IsLog
<1>3. Steps(Append(l, e)) = Steps(l) /\ ModelCalls(Append(l, e)) = ModelCalls(l)
  BY <1>1
<1> QED BY <1>1, <1>2, <1>3 DEF Within

LEMMA WithinAdvanced ==
    ASSUME NEW l, l \in Seq(Elements(l)), NEW C, Within(l, C)
    PROVE  Within(Advanced(l), C)
<1> DEFINE s == Ev("StepAdvanced")
<1>1. s.type = "StepAdvanced"
  BY EvTypes
<1> HIDE DEF s
<1>2. Within(Append(l, s), C)
  BY <1>1, WithinFree DEF Free
<1>3. Advanced(l) = l \/ Advanced(l) = Append(l, s)
  BY Zenon DEF Advanced, s
<1> QED BY <1>2, <1>3

\* Sums over a bounded set of children are numbers.
LEMMA SumsAreNumbers ==
    ASSUME NEW l, NEW C, Within(l, C)
    PROVE  SumOf(C, 1) \in Nat /\ SumOf(C, 2) \in Nat
<1>1. CASE C = {}
  BY <1>1, SumOfNone
<1>2. CASE C # {}
  <2>1. PICK c \in C : TRUE
    BY <1>2
  <2>2. C \cup {c} = C
    OBVIOUS
  <2>3. \A k \in {1, 2} : \A d \in C \cup {c} : d.limits[k] \in Nat
    BY <2>2 DEF Within
  <2>4. IsFiniteSet(C)
    BY DEF Within
  <2>5. \A k \in {1, 2} : SumOf(C, k) \in Nat
    BY <2>3, <2>4, SumAdds
  <2> QED BY <2>5
<1> QED BY <1>1, <1>2

\* What is carved is within what is left.
LEMMA CarveFits ==
    ASSUME NEW l, l \in Seq(Elements(l)), NEW C, Within(l, C), Carve(l) # <<>>
    PROVE  /\ Carve(l)[1] \in Nat /\ Steps(l) + SumOf(C, 1) + Carve(l)[1] <= MaxSteps
           /\ Carve(l)[2] \in Nat /\ ModelCalls(l) + SumOf(C, 2) + Carve(l)[2] <= MaxModelCalls
<1>1. SumOf(C, 1) \in Nat /\ SumOf(C, 2) \in Nat /\ Given(l) = C
  BY SumsAreNumbers DEF Within
<1>2. Steps(l) \in Nat /\ ModelCalls(l) \in Nat
  BY SpentAppend
<1>3. MaxSteps \in Nat /\ MaxModelCalls \in Nat
  BY HarnessAssumption
<1> DEFINE us == Steps(l) + SumOf(C, 1)
           uc == ModelCalls(l) + SumOf(C, 2)
           s == Left(MaxSteps, us)
           c == Left(MaxModelCalls, uc)
<1>4. Carve(l) = <<s \div 2, c \div 2>>
  BY <1>1 DEF Carve
<1>5. us \in Nat /\ uc \in Nat /\ us <= MaxSteps /\ uc <= MaxModelCalls
  BY <1>1, <1>2 DEF Within
<1> HIDE DEF us, uc
<1>6. s \in Nat /\ us + s <= MaxSteps /\ c \in Nat /\ uc + c <= MaxModelCalls
  BY <1>3, <1>5 DEF Left
<1> HIDE DEF s, c
<1>7. \A n \in Nat : n \div 2 \in Nat /\ n \div 2 <= n
  OBVIOUS
<1>8. us + (s \div 2) <= MaxSteps /\ uc + (c \div 2) <= MaxModelCalls
  BY <1>3, <1>5, <1>6, <1>7
<1> QED BY <1>4, <1>6, <1>7, <1>8 DEF us, uc

\* A child that is started and named: a new one with what was carved, or one
\* that was there.
LEMMA WithinChild ==
    ASSUME NEW l, l \in Seq(Elements(l)), NEW C, Within(l, C), Carve(l) # <<>>, NEW id,
           NEW c \in C \cup {[id |-> id, limits |-> Carve(l)]}
    PROVE  /\ Within(Append(l, ChildStarted(c)), C \cup {c})
           /\ Append(l, ChildStarted(c)) \in Seq(Elements(Append(l, ChildStarted(c))))
<1> DEFINE e == ChildStarted(c)
           m == Append(l, e)
<1>1. e.type = "ChildStarted" /\ e.id = c.id /\ e.limits = c.limits
  BY DEF ChildStarted, Of, Ev
<1>2. c = [id |-> c.id, limits |-> c.limits]
  BY DEF Within, Given
<1> HIDE DEF e
<1>3. m \in Seq(Elements(m))
  BY AppendedLog DEF IsLog
<1>4. /\ Steps(l) \in Nat /\ ModelCalls(l) \in Nat
      /\ Steps(m) = Steps(l) + 0 /\ ModelCalls(m) = ModelCalls(l) + 0
      /\ Given(m) = Given(l) \cup {c}
  BY <1>1, <1>2, SpentAppend DEF Step, ModelCall
<1> HIDE DEF m
<1>5. Steps(m) = Steps(l) /\ ModelCalls(m) = ModelCalls(l)
  BY <1>4
<1>6. IsFiniteSet(C \cup {c})
  BY FS_AddElement DEF Within
<1>7. CASE c \in C
  <2>1. C \cup {c} = C
    BY <1>7
  <2> QED BY <1>3, <1>4, <1>5, <2>1 DEF Within, m, e
<1>8. CASE c \notin C
  <2>1. c.limits = Carve(l)
    BY <1>8
  <2>2. \A d \in C \cup {c} : d.limits[1] \in Nat /\ d.limits[2] \in Nat
    BY <2>1, CarveFits DEF Within
  <2>3. /\ SumOf(C, 1) \in Nat /\ SumOf(C \cup {c}, 1) = SumOf(C, 1) + c.limits[1]
        /\ SumOf(C, 2) \in Nat /\ SumOf(C \cup {c}, 2) = SumOf(C, 2) + c.limits[2]
    <3>1. IsFiniteSet(C) /\ \A d \in C \cup {c} : d.limits[1] \in Nat
      BY <2>2 DEF Within
    <3>2. \A d \in C \cup {c} : d.limits[2] \in Nat
      BY <2>2
    <3>3. SumOf(C, 1) \in Nat /\ SumOf(C \cup {c}, 1) = SumOf(C, 1) + c.limits[1]
      BY <1>8, <3>1, SumAdds
    <3>4. SumOf(C, 2) \in Nat /\ SumOf(C \cup {c}, 2) = SumOf(C, 2) + c.limits[2]
      BY <1>8, <3>1, <3>2, SumAdds
    <3> QED BY <3>3, <3>4
  <2>4. /\ c.limits[1] \in Nat /\ Steps(l) + SumOf(C, 1) + c.limits[1] <= MaxSteps
        /\ c.limits[2] \in Nat /\ ModelCalls(l) + SumOf(C, 2) + c.limits[2] <= MaxModelCalls
    BY <2>1, CarveFits
  <2> DEFINE x1 == c.limits[1]
             x2 == c.limits[2]
  <2>5. /\ SumOf(C \cup {c}, 1) = SumOf(C, 1) + x1 /\ SumOf(C \cup {c}, 2) = SumOf(C, 2) + x2
        /\ x1 \in Nat /\ Steps(l) + SumOf(C, 1) + x1 <= MaxSteps
        /\ x2 \in Nat /\ ModelCalls(l) + SumOf(C, 2) + x2 <= MaxModelCalls
    BY <2>3, <2>4
  <2> HIDE DEF x1, x2
  <2>6. MaxSteps \in Nat /\ MaxModelCalls \in Nat
    BY HarnessAssumption
  <2>7. Steps(m) + SumOf(C \cup {c}, 1) <= MaxSteps /\ ModelCalls(m) + SumOf(C \cup {c}, 2) <= MaxModelCalls
    BY <1>4, <1>5, <2>3, <2>5, <2>6
  <2>8. Given(m) = C \cup {c}
    BY <1>4 DEF Within
  <2> QED BY <1>3, <1>6, <2>2, <2>7, <2>8 DEF Within, m, e
<1> QED BY <1>7, <1>8

\* A decision that found the budget open, and its verdict.
LEMMA WithinDecided ==
    ASSUME NEW l, l \in Seq(Elements(l)), NEW C, Within(l, C), NEW e,
           ~(e.kind = "complete" /\ Fold(l).st = "Running") => ~StepsSpent(l),
           e.kind = "model" => ~ModelCallsSpent(l)
    PROVE  LET d == Append(l, About("EffectDecided", e))
           IN  Within(d \o Verdict(d, Fold(l), e), C)
<1> DEFINE x == About("EffectDecided", e)
           d == Append(l, x)
           k == d \o Verdict(d, Fold(l), e)
<1>1. x.type = "EffectDecided" /\ x.effect = e
  BY EvTypes
<1> HIDE DEF x
<1>2. Given(l) = C /\ SumOf(C, 1) \in Nat /\ SumOf(C, 2) \in Nat /\ MaxSteps \in Nat /\ MaxModelCalls \in Nat
  BY SumsAreNumbers, HarnessAssumption DEF Within
<1>3. /\ Steps(l) \in Nat /\ ModelCalls(l) \in Nat /\ d \in Seq(Elements(d))
      /\ Steps(d) = Steps(l) + IF Step(Fold(l), x) THEN 1 ELSE 0
      /\ ModelCalls(d) = ModelCalls(l) + 0 /\ Given(d) = Given(l)
  <2>1. d \in Seq(Elements(d))
    BY AppendedLog DEF IsLog
  <2>2. ~ModelCall(x) /\ x.type # "ChildStarted"
    BY <1>1 DEF ModelCall
  <2> QED BY <2>1, <2>2, SpentAppend
<1>4. Steps(d) + SumOf(C, 1) <= MaxSteps /\ ModelCalls(d) = ModelCalls(l)
  <2>1. CASE Step(Fold(l), x)
    <3>1. Steps(l) + SumOf(C, 1) < MaxSteps
      BY <1>1, <1>2, <1>3, <2>1 DEF Step, StepsSpent
    <3> QED BY <1>2, <1>3, <2>1, <3>1
  <2>2. CASE ~Step(Fold(l), x)
    BY <1>2, <1>3, <2>2 DEF Within
  <2> QED BY <2>1, <2>2
<1> HIDE DEF d
<1>5. Within(d, C)
  BY <1>2, <1>3, <1>4 DEF Within
<1>6. ASSUME NEW a, a.type = "EffectAuthorized", a.effect = e
      PROVE  Within(Append(d, a), C) /\ Append(d, a) \in Seq(Elements(Append(d, a)))
  <2>1. /\ Steps(d) \in Nat /\ Steps(Append(d, a)) = Steps(d) + 0
        /\ ModelCalls(Append(d, a)) = ModelCalls(d) + IF ModelCall(a) THEN 1 ELSE 0
        /\ Given(Append(d, a)) = Given(d) /\ Append(d, a) \in Seq(Elements(Append(d, a)))
    BY <1>3, <1>6, SpentAppend, AppendedLog DEF Step, IsLog
  <2>2. ModelCalls(Append(d, a)) + SumOf(C, 2) <= MaxModelCalls
    <3>1. CASE ModelCall(a)
      <4>1. ModelCalls(l) + SumOf(C, 2) < MaxModelCalls
        BY <1>2, <1>3, <1>6, <3>1 DEF ModelCall, ModelCallsSpent
      <4> QED BY <1>2, <1>3, <1>4, <2>1, <3>1, <4>1
    <3>2. CASE ~ModelCall(a)
      BY <1>2, <1>3, <1>4, <2>1, <3>2 DEF Within
    <3> QED BY <3>1, <3>2
  <2>3. Steps(Append(d, a)) = Steps(d)
    BY <2>1
  <2> QED BY <1>5, <2>1, <2>2, <2>3 DEF Within
<1>7. CASE k = Append(d, About("EffectDenied", e))
  <2>1. Free(About("EffectDenied", e))
    BY EvTypes DEF Free
  <2> QED BY <1>3, <1>5, <1>7, <2>1, WithinFree DEF d, x
<1>8. CASE \E a : /\ a.type = "EffectAuthorized" /\ a.effect = e
                  /\ k = IF e.kind = "complete" THEN Append(Append(d, a), Ev("RunCompleted"))
                         ELSE Append(d, a)
  <2>1. PICK a : /\ a.type = "EffectAuthorized" /\ a.effect = e
                 /\ k = IF e.kind = "complete" THEN Append(Append(d, a), Ev("RunCompleted"))
                        ELSE Append(d, a)
    BY <1>8
  <2>2. Free(Ev("RunCompleted"))
    BY EvTypes DEF Free
  <2>3. Within(Append(d, a), C) /\ Within(Append(Append(d, a), Ev("RunCompleted")), C)
    BY <1>6, <2>1, <2>2, WithinFree
  <2>4. Within(k, C)
    BY <2>1, <2>3
  <2> QED BY <2>4 DEF d, x
<1> QED BY <1>3, <1>7, <1>8, VerdictIs

(***************************************************************************)
(* The steps, and the budget                                               *)
(***************************************************************************)
\* What a performance that starts no child records.
LEMMA FreeRecorded ==
    ASSUME DriverInv, BudgetInv, NEW x, Free(x), Record(<<x>>), children' = children
    PROVE  BudgetInv'
<1>1. log \in Seq(Elements(log)) /\ crashes' = crashes /\ pc' = "boundary"
  BY GoodLast DEF DriverInv, Record
<1>2. log' = Advanced(Append(log, x))
  <2>1. log \o <<x>> = Append(log, x)
    BY <1>1
  <2> QED BY <2>1 DEF Record
<1>3. ASSUME crashes = 0 PROVE Within(log', children')
  <2>1. Within(Append(log, x), children) /\ Append(log, x) \in Seq(Elements(Append(log, x)))
    BY <1>1, <1>3, WithinFree DEF BudgetInv
  <2>2. Within(Advanced(Append(log, x)), children)
    BY <2>1, WithinAdvanced
  <2> QED BY <1>2, <2>2
<1> QED BY <1>1, <1>3 DEF BudgetInv

\* The spawner's answer: the child there is, or a new one.
LEMMA StartedIs ==
    ASSUME NEW id, NEW limits
    PROVE  Started(id, limits) \in children \cup {[id |-> id, limits |-> limits]}
<1>1. CASE IsStarted(id)
  <2>1. \E c \in children : c.id = id
    BY <1>1 DEF IsStarted
  <2>2. (CHOOSE c \in children : c.id = id) \in children
    BY <2>1
  <2> QED BY <1>1, <2>2 DEF Started
<1>2. CASE ~IsStarted(id)
  BY <1>2 DEF Started
<1> QED BY <1>1, <1>2

LEMMA DelegateSpends ==
    ASSUME DriverInv, BudgetInv, Delegate
    PROVE  BudgetInv'
<1> DEFINE id == ChildId(log, todo[1])
           limits == Carve(log)
           c == Started(id, limits)
           none == Ev("DelegateRefused")
<1>1. \/ limits # <<>> /\ children' = children \cup {c} /\ Record(<<ChildStarted(c)>>)
      \/ Record(<<none>>) /\ children' = children
  BY DEF Delegate
<1>2. Free(none)
  BY EvTypes DEF Free
<1>3. c \in children \cup {[id |-> id, limits |-> limits]}
  BY StartedIs
<1> HIDE DEF none, c, id, limits
<1>4. CASE Record(<<none>>) /\ children' = children
  BY <1>2, <1>4, FreeRecorded
<1>5. CASE limits # <<>> /\ children' = children \cup {c} /\ Record(<<ChildStarted(c)>>)
  <2> DEFINE m == Append(log, ChildStarted(c))
  <2>1. log \in Seq(Elements(log)) /\ crashes' = crashes /\ pc' = "boundary"
    BY <1>5, GoodLast DEF DriverInv, Record
  <2>2. log' = Advanced(m)
    <3>1. log \o <<ChildStarted(c)>> = m
      BY <2>1
    <3> HIDE DEF m
    <3> QED BY <1>5, <3>1 DEF Record
  <2>3. ASSUME crashes = 0 PROVE Within(log', children')
    <3>1. Within(m, children \cup {c}) /\ m \in Seq(Elements(m))
      BY <1>3, <1>5, <2>1, <2>3, WithinChild DEF BudgetInv, limits
    <3> HIDE DEF m
    <3>2. Within(Advanced(m), children \cup {c})
      BY <3>1, WithinAdvanced
    <3> QED BY <1>5, <2>2, <3>2
  <2> QED BY <2>1, <2>3 DEF BudgetInv
<1> QED BY <1>1, <1>4, <1>5

LEMMA SendMessageSpends ==
    ASSUME DriverInv, BudgetInv, SendMessage
    PROVE  BudgetInv'
<1> DEFINE e == todo[1]
           id == ChildId(log, e)
           limits == Carve(log)
           c == Started(id, limits)
           said == Of(IF e.kind \in Asking THEN "AskSent" ELSE "MessageSent", <<Steps(log)>>)
           none == Ev("MessageRefused")
<1>1. \/ Record(<<none>>) /\ children' = children
      \/ Record(<<>> \o <<said>>) /\ children' = children
      \/ limits # <<>> /\ children' = children \cup {c} /\ Record(<<ChildStarted(c)>> \o <<said>>)
  BY DEF SendMessage
<1>2. Free(none) /\ Free(said)
  BY EvTypes DEF Free
<1>3. c \in children \cup {[id |-> id, limits |-> limits]}
  BY StartedIs
<1> HIDE DEF none, said, c, id, limits
<1>4. <<>> \o <<said>> = <<said>>
  OBVIOUS
<1>5. CASE \/ Record(<<none>>) /\ children' = children
           \/ Record(<<>> \o <<said>>) /\ children' = children
  BY <1>2, <1>4, <1>5, FreeRecorded
<1>6. CASE limits # <<>> /\ children' = children \cup {c} /\ Record(<<ChildStarted(c)>> \o <<said>>)
  <2> DEFINE n == Append(log, ChildStarted(c))
             m == Append(n, said)
  <2>1. log \in Seq(Elements(log)) /\ crashes' = crashes /\ pc' = "boundary"
    BY <1>6, GoodLast DEF DriverInv, Record
  <2>2. log' = Advanced(m)
    <3>1. log \o (<<ChildStarted(c)>> \o <<said>>) = m
      BY <2>1
    <3> HIDE DEF m
    <3> QED BY <1>6, <3>1 DEF Record
  <2>3. ASSUME crashes = 0 PROVE Within(log', children')
    <3>1. Within(n, children \cup {c}) /\ n \in Seq(Elements(n))
      BY <1>3, <1>6, <2>1, <2>3, WithinChild DEF BudgetInv, limits
    <3> HIDE DEF n
    <3>2. Within(m, children \cup {c}) /\ m \in Seq(Elements(m))
      BY <1>2, <3>1, WithinFree
    <3> HIDE DEF m
    <3>3. Within(Advanced(m), children \cup {c})
      BY <3>2, WithinAdvanced
    <3> QED BY <1>6, <2>2, <3>3
  <2> QED BY <2>1, <2>3 DEF BudgetInv
<1> QED BY <1>1, <1>5, <1>6

\* The performances that start nobody.
LEMMA OthersSpendNothing ==
    ASSUME DriverInv, BudgetInv, PerformNothing \/ CallTool \/ CallModel \/ UseMemory \/ AskUser
    PROVE  BudgetInv'
<1>1. /\ Free(ToolAnswer) /\ Free(Ev("RunFailed")) /\ Free(Ev("ModelResponded"))
      /\ Free(Ev("UserAskRefused"))
      /\ \A e : Free(About("MemoryUsed", e)) /\ \A id : Free(Of("UserAsked", id))
  BY EvTypes DEF Free, ToolAnswer
<1>2. CASE CallTool
  BY <1>1, <1>2, FreeRecorded DEF CallTool
<1>3. CASE CallModel
  BY <1>1, <1>3, FreeRecorded DEF CallModel
<1>4. CASE UseMemory
  BY <1>1, <1>4, FreeRecorded DEF UseMemory, FailMemory
<1>5. CASE AskUser
  BY <1>1, <1>5, FreeRecorded DEF AskUser
<1>6. CASE PerformNothing
  <2>1. log \in Seq(Elements(log)) /\ crashes' = crashes /\ pc' = "boundary" /\ children' = children
    BY <1>6, GoodLast DEF DriverInv, PerformNothing, Record
  <2>2. log' = Advanced(log)
    <3>1. log \o <<>> = log
      BY <2>1, ConcatEmptySeq
    <3> QED BY <1>6, <3>1 DEF PerformNothing, Record
  <2> QED BY <2>1, <2>2, WithinAdvanced DEF BudgetInv
<1> QED BY <1>2, <1>3, <1>4, <1>5, <1>6

LEMMA DecideSpends ==
    ASSUME DriverInv, BudgetInv, NEW e \in Effects, Decide(e)
    PROVE  BudgetInv'
<1> DEFINE over == CASE e.kind = "complete" /\ Fold(log).st = "Running" -> FALSE
                     [] e.kind = "model" -> StepsSpent(log) \/ ModelCallsSpent(log)
                     [] OTHER -> StepsSpent(log)
           d == Append(log, About("EffectDecided", e))
           f == Ev("RunFailed")
<1>1. /\ log' = IF over THEN Append(log, f) ELSE d \o Verdict(d, Fold(log), e)
      /\ pc' \in {"boundary", "perform"} /\ children' = children /\ crashes' = crashes
  BY DEF Decide
<1>2. log \in Seq(Elements(log))
  BY GoodLast DEF DriverInv
<1>3. Free(f)
  BY EvTypes DEF Free
<1>4. ~over => /\ ~(e.kind = "complete" /\ Fold(log).st = "Running") => ~StepsSpent(log)
               /\ e.kind = "model" => ~ModelCallsSpent(log)
  OBVIOUS
<1> HIDE DEF over, f
<1>5. ASSUME crashes = 0 PROVE Within(log', children')
  <2>1. Within(log, children)
    BY <1>5 DEF BudgetInv
  <2>2. CASE over
    BY <1>1, <1>2, <1>3, <2>1, <2>2, WithinFree
  <2>3. CASE ~over
    <3>1. Within(d \o Verdict(d, Fold(log), e), children)
      BY <1>2, <1>4, <2>1, <2>3, WithinDecided
    <3> HIDE DEF d
    <3> QED BY <1>1, <2>3, <3>1
  <2> QED BY <2>2, <2>3
<1> QED BY <1>1, <1>5 DEF BudgetInv

\* An event that spends nothing and is no decision, added by whoever.
LEMMA FreeAdded ==
    ASSUME DriverInv, BudgetInv, NEW x, Free(x), log' = Append(log, x),
           children' = children, crashes' = crashes
    PROVE  BudgetInv'
<1>1. log \in Seq(Elements(log))
  BY GoodLast DEF DriverInv
<1>2. Last(log') = x
  BY <1>1, AppendedLog
<1>3. crashes = 0 => Within(log', children')
  BY <1>1, WithinFree DEF BudgetInv
<1> QED BY <1>2, <1>3 DEF BudgetInv, Free

LEMMA CallersSpendNothing ==
    ASSUME DriverInv, BudgetInv,
           Resume \/ Finish \/ Keep \/ Return \/ DeciderFails \/ Cancel \/ Reply \/ EndedByOther
    PROVE  BudgetInv'
<1>1. /\ Free(Ev("RunStarted")) /\ Free(Ev("RunCompleted")) /\ Free(Ev("RunFailed"))
      /\ Free(Ev("RunCancelled")) /\ \A id : Free(Of("Answer", id))
  BY EvTypes DEF Free
<1>2. CASE Resume
  <2>1. children' = children /\ crashes' = crashes /\ pc = "down"
    BY <1>2 DEF Resume
  <2>2. \/ log' = log
        \/ log' = Append(log, Ev("RunStarted")) \/ log' = Append(log, Ev("RunCompleted"))
    BY <1>2 DEF Resume, Add, TakeUp
  <2>3. CASE log' = log
    BY <2>1, <2>3 DEF BudgetInv
  <2> QED BY <1>1, <2>1, <2>2, <2>3, FreeAdded
<1>3. CASE Finish
  <2>1. children' = children /\ crashes' = crashes /\ pc = "finish" /\ pc' = "perform"
    BY <1>3 DEF Finish
  <2>2. ASSUME crashes = 0 PROVE log' = log
    <3>1. Last(log).type # "EffectDecided"
      BY <2>1, <2>2 DEF BudgetInv
    <3>2. prior = <<>>
      BY <2>1, <3>1 DEF DriverInv, Position
    <3> QED BY <1>3, <3>2 DEF Finish
  <2> QED BY <2>1, <2>2 DEF BudgetInv
<1>4. CASE Keep
  BY <1>4 DEF Keep, BudgetInv
<1>5. CASE Return
  <2>1. /\ children' = children /\ crashes' = crashes /\ log' = log
        /\ pc = "boundary" /\ pc' = IF LogEnded(log) THEN "done" ELSE "down"
    BY <1>5 DEF Return
  <2>2. pc' = "down" => Last(log).type # "EffectDecided"
    BY <2>1 DEF DriverInv, Position, Quiet
  <2>3. pc' \in {"done", "down"}
    BY <2>1
  <2> QED BY <2>1, <2>2, <2>3 DEF BudgetInv
<1>6. CASE DeciderFails \/ Cancel \/ Reply \/ EndedByOther
  BY <1>1, <1>6, FreeAdded DEF DeciderFails, Cancel, Reply, EndedByOther
<1> QED BY <1>2, <1>3, <1>4, <1>5, <1>6

LEMMA BudgetInit == Init => BudgetInv
<1> SUFFICES ASSUME Init PROVE BudgetInv
  OBVIOUS
<1> DEFINE a == Ev("RunCreated")
           b == Ev("RunScheduled")
<1>1. a.type = "RunCreated" /\ b.type = "RunScheduled"
  BY EvTypes
<1>2. log = <<a, b>> /\ pc = "down" /\ children = {} /\ crashes = 0
  BY DEF Init
<1> HIDE DEF a, b
<1>3. Len(log) = 2 /\ DOMAIN log = {1, 2} /\ log[1] = a /\ log[2] = b
  BY <1>2
<1>4. Last(log) = b
  BY <1>3 DEF Last
<1>5. Given(log) = {}
  BY <1>1, <1>3 DEF Given
<1>6. Steps(log) = 0 /\ ModelCalls(log) = 0
  <2> DEFINE P(i) == ~(log[i].effect.kind = "complete" /\ Fold(SubSeq(log, 1, i - 1)).st = "Running")
  <2>1. {i \in DOMAIN log : log[i].type = "EffectDecided" /\ P(i)} = {}
    <3> HIDE DEF P
    <3> QED BY <1>1, <1>3
  <2>2. {i \in DOMAIN log : log[i].type = "EffectAuthorized" /\ log[i].effect.kind = "model"} = {}
    BY <1>1, <1>3
  <2>3. Steps(log) = Cardinality({}) /\ ModelCalls(log) = Cardinality({})
    BY <2>1, <2>2 DEF Steps, ModelCalls
  <2> QED BY <2>3, FS_EmptySet
<1>7. SumOf({}, 1) = 0 /\ SumOf({}, 2) = 0 /\ MaxSteps \in Nat /\ MaxModelCalls \in Nat /\ IsFiniteSet({})
  BY SumOfNone, HarnessAssumption, FS_EmptySet
<1>8. Within(log, children)
  BY <1>2, <1>5, <1>6, <1>7 DEF Within
<1> QED BY <1>1, <1>2, <1>4, <1>8 DEF BudgetInv

LEMMA BudgetNext ==
    ASSUME DriverInv, BudgetInv, [Next]_vars
    PROVE  BudgetInv'
<1>1. CASE Next
  <2>1. CASE Resume \/ Finish \/ Keep \/ Return \/ DeciderFails \/ Cancel \/ Reply \/ EndedByOther
    BY <2>1, CallersSpendNothing
  <2>2. CASE \E e \in Effects : Decide(e)
    BY <2>2, DecideSpends
  <2>3. CASE Perform
    BY <2>3, OthersSpendNothing, DelegateSpends, SendMessageSpends DEF Perform
  <2>4. CASE Crash
    BY <2>4 DEF Crash, BudgetInv
  <2> QED BY <1>1, <2>1, <2>2, <2>3, <2>4 DEF Next, Drive
<1>2. CASE UNCHANGED vars
  BY <1>2 DEF vars, BudgetInv
<1> QED BY <1>1, <1>2

\* A run whose driver did not die never decided, called or gave away more than
\* it was given itself, what its children were really given included, whatever
\* it decides and whoever else writes to its log (driver.rs, carve; fold.rs
\* given_steps).
THEOREM BudgetsHold == Spec => []GivenIsSpent
<1>1. BudgetInv => GivenIsSpent
  BY DEF BudgetInv, Within, GivenIsSpent
<1>2. Init => DriverInv /\ BudgetInv
  BY InitInv, BudgetInit
<1>3. DriverInv /\ BudgetInv /\ [Next]_vars => (DriverInv /\ BudgetInv)'
  BY NextKeeps, BudgetNext
<1> QED BY <1>1, <1>2, <1>3, PTL DEF Spec
=============================================================================
