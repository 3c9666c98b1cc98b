--------------------------- MODULE WorkflowProofs ---------------------------
(***************************************************************************)
(* The journal of a workflow and the process that keeps it, for frames of  *)
(* any length, any workflow function and any number of faults: what was    *)
(* committed stays, a spawn starts one child, and what is recorded was     *)
(* done.                                                                   *)
(*                                                                         *)
(* The file is a sequence of bytes.  Begins says what a kill leaves of it  *)
(* (whole frames, and part of one more); decode is shown to read such a    *)
(* file back, and each write to leave one.  From there the proof is about  *)
(* the records alone.                                                      *)
(*                                                                         *)
(* At the end, apart from the rest: the compile of a Bend workflow.        *)
(***************************************************************************)
EXTENDS WorkflowHost, FiniteSetTheorems, SequenceTheorems, TLAPS

CONSTANTS Text,                                     \* the names, the agents and the outputs
          Limit, MaxWrite, Attempts, Files, Forks   \* of a compile
VARIABLES where, phase, tries, staged, dir, child, status, fork, pipe, sent, reader, flag,
          expired, result

Compile == INSTANCE BendCompile WITH pc <- where

Records == [kind : {"tool"}, name : Text, output : Text] \cup [kind : {"spawned"}, agent : Text]

(***************************************************************************)
(* Numbers: places in frames                                               *)
(***************************************************************************)
LEMMA Monotone ==
    ASSUME NEW F \in Nat, NEW a \in Nat, NEW b \in Nat, a <= b
    PROVE  a * F <= b * F /\ a * F \in Nat /\ b * F \in Nat
<1>1. b = a + (b - a) /\ b - a \in Nat
  OBVIOUS
<1>2. PICK d \in Nat : b = a + d
  BY <1>1
<1>3. b * F = a * F + d * F /\ d * F >= 0
  BY <1>2
<1> QED BY <1>3

LEMMA Quotient ==
    ASSUME NEW F \in Nat \ {0}, NEW k \in Nat, NEW r \in 0..(F - 1)
    PROVE  (k * F + r) \div F = k /\ (k * F + r) % F = r
<1> DEFINE n == k * F + r
           q == n \div F
<1>0. k * F \in Nat /\ n \in Nat
  OBVIOUS
<1>1. q \in Nat /\ n = q * F + (n % F) /\ n % F \in 0..(F - 1)
  BY <1>0
<1>2. ~(q < k)
  <2> SUFFICES ASSUME q < k PROVE FALSE
    OBVIOUS
  <2>1. (q + 1) * F <= k * F
    BY <1>1, Monotone
  <2>2. (q + 1) * F = q * F + F
    BY <1>1
  <2> QED BY <1>0, <1>1, <2>1, <2>2
<1>3. ~(k < q)
  <2> SUFFICES ASSUME k < q PROVE FALSE
    OBVIOUS
  <2>1. (k + 1) * F <= q * F
    BY <1>1, Monotone
  <2>2. (k + 1) * F = k * F + F
    OBVIOUS
  <2> QED BY <1>0, <1>1, <2>1, <2>2
<1>4. q = k
  BY <1>1, <1>2, <1>3
<1> QED BY <1>0, <1>1, <1>4

LEMMA Places ==
    ASSUME NEW F \in Nat \ {0}, NEW L \in Nat, NEW j \in 0..L, NEW i \in 1..F
    PROVE  /\ j * F + i \in 1..((L + 1) * F)
           /\ j * F \in Nat /\ (j + 1) * F = j * F + F
           /\ (L + 1) * F = L * F + F /\ (L + 2) * F = (L + 1) * F + F /\ L * F \in Nat
<1>1. j * F <= L * F /\ j * F \in Nat /\ L * F \in Nat
  BY Monotone
<1>2. (j + 1) * F = j * F + F /\ (L + 1) * F = L * F + F /\ (L + 2) * F = (L + 1) * F + F
  OBVIOUS
<1> QED BY <1>1, <1>2

(***************************************************************************)
(* The file                                                                *)
(***************************************************************************)
Byte == (Records \cup {StartRecord, [kind |-> "foreign"]}) \X Nat

Rec(recs, j) == IF j = 0 THEN StartRecord ELSE recs[j]

\* A file that begins with the frames of recs, and does not hold another frame.
Begins(f, recs) ==
    /\ f \in Seq(Byte) /\ recs \in Seq(Records)
    /\ Len(f) >= (Len(recs) + 1) * FrameBytes /\ Len(f) < (Len(recs) + 2) * FrameBytes
    /\ \A j \in 0..Len(recs) : \A i \in 1..FrameBytes :
           f[j * FrameBytes + i] = <<Rec(recs, j), i>>

Whole(f, recs) == Begins(f, recs) /\ Len(f) = (Len(recs) + 1) * FrameBytes

\* Nothing, or a beginning of the Start frame.
NoStart(f) ==
    /\ f \in Seq(Byte) /\ Len(f) < FrameBytes
    /\ \A i \in 1..Len(f) : f[i] = <<StartRecord, i>>

LEMMA FramedIs ==
    ASSUME FrameBytesAssumption, NEW r \in Records \cup {StartRecord}
    PROVE  /\ framed(r) \in Seq(Byte) /\ Len(framed(r)) = FrameBytes
           /\ \A i \in 1..FrameBytes : framed(r)[i] = <<r, i>>
           /\ FrameBytes \in Nat \ {0} /\ FrameBytes > 1
<1>1. FrameBytes \in Nat \ {0} /\ FrameBytes > 1
  BY DEF FrameBytesAssumption
<1>2. \A i \in 1..FrameBytes : <<r, i>> \in Byte
  BY <1>1 DEF Byte
<1>3. framed(r) = [i \in 1..FrameBytes |-> <<r, i>>]
  BY DEF framed
<1>4. framed(r) \in [1..FrameBytes -> Byte]
  BY <1>2, <1>3
<1>5. framed(r) \in Seq(Byte)
  BY <1>1, <1>4, IsASeq
<1>6. Len(framed(r)) = FrameBytes
  BY <1>1, <1>3, <1>5
<1> QED BY <1>1, <1>3, <1>5, <1>6

LEMMA StartFrame ==
    ASSUME FrameBytesAssumption
    PROVE  /\ start_frame \in Seq(Byte) /\ Len(start_frame) = FrameBytes
           /\ \A i \in 1..FrameBytes : start_frame[i] = <<StartRecord, i>>
BY FramedIs DEF start_frame

\* IsPrefix, by elements.
LEMMA PrefixByElements ==
    ASSUME NEW S, NEW s \in Seq(S), NEW t \in Seq(S)
    PROVE  IsPrefix(s, t) <=> Len(s) <= Len(t) /\ \A i \in 1..Len(s) : s[i] = t[i]
<1>1. Len(s) \in Nat /\ Len(t) \in Nat
  OBVIOUS
<1>2. SubSeq(s, 1, Len(s)) = s
  BY SubSeqFull
<1>3. ASSUME Len(s) <= Len(t)
      PROVE  /\ SubSeq(t, 1, Len(s)) \in Seq(S) /\ Len(SubSeq(t, 1, Len(s))) = Len(s)
             /\ \A i \in 1..Len(s) : SubSeq(t, 1, Len(s))[i] = t[i]
  BY <1>1, <1>3
<1>4. ASSUME Len(s) <= Len(t), \A i \in 1..Len(s) : s[i] = t[i]
      PROVE  s = SubSeq(t, 1, Len(s))
  BY <1>1, <1>3, <1>4, SeqEqual
<1>5. ASSUME IsPrefix(s, t)
      PROVE  Len(s) <= Len(t) /\ \A i \in 1..Len(s) : s[i] = t[i]
  <2>1. Len(s) <= Len(t) /\ s = SubSeq(t, 1, Len(s))
    BY <1>2, <1>5 DEF IsPrefix
  <2> QED BY <1>3, <2>1
<1> QED BY <1>2, <1>4, <1>5 DEF IsPrefix

LEMMA DecodeNoStart ==
    ASSUME FrameBytesAssumption, NEW f, NoStart(f)
    PROVE  decode(f) = [ok |-> TRUE, records |-> <<>>, whole |-> 0]
<1>1. IsPrefix(f, start_frame)
  <2>1. /\ f \in Seq(Byte) /\ Len(f) \in Nat /\ Len(f) < FrameBytes /\ FrameBytes \in Nat
        /\ \A i \in 1..Len(f) : f[i] = <<StartRecord, i>>
    BY DEF NoStart, FrameBytesAssumption
  <2>2. \A i \in 1..Len(f) : i \in 1..FrameBytes
    BY <2>1
  <2>3. \A i \in 1..Len(f) : f[i] = start_frame[i]
    BY <2>1, <2>2, StartFrame
  <2>4. Len(f) <= Len(start_frame)
    BY <2>1, StartFrame
  <2> QED BY <2>1, <2>3, <2>4, StartFrame, PrefixByElements
<1>2. Len(f) < FrameBytes
  BY DEF NoStart
<1> DEFINE frames == Len(f) \div FrameBytes
           At(j) == SubSeq(f, (j - 1) * FrameBytes + 1, j * FrameBytes)
           whole == [ok |-> TRUE, records |-> [j \in 1..(frames - 1) |-> At(j + 1)[1][1]],
                     whole |-> frames * FrameBytes]
           bad == ~IsPrefix(start_frame, f) \/ \E j \in 2..frames : ~Reads(At(j))
<1>3. decode(f) = IF Len(f) < FrameBytes /\ IsPrefix(f, start_frame)
                  THEN [ok |-> TRUE, records |-> <<>>, whole |-> 0]
                  ELSE IF bad THEN Invalid ELSE whole
  BY DEF decode
<1> HIDE DEF whole, bad
<1> QED BY <1>1, <1>2, <1>3

LEMMA DecodeForeign ==
    ASSUME FrameBytesAssumption
    PROVE  /\ Foreign \in Seq(Byte)
           /\ decode(Foreign) = Invalid
<1>1. Foreign \in Seq(Byte) /\ Len(Foreign) = 1 /\ Foreign[1] = <<[kind |-> "foreign"], 1>>
  BY DEF Foreign, Byte
<1>2. Len(start_frame) > 1 /\ start_frame[1] = <<StartRecord, 1>>
  BY StartFrame, FramedIs
<1>3. Foreign[1] # start_frame[1]
  BY <1>1, <1>2 DEF StartRecord
<1>4. ~IsPrefix(Foreign, start_frame)
  BY <1>1, <1>3, StartFrame, PrefixByElements
<1>5. ~IsPrefix(start_frame, Foreign)
  BY <1>1, <1>2, StartFrame, PrefixByElements
<1> QED BY <1>1, <1>4, <1>5 DEF decode

LEMMA DecodeBegins ==
    ASSUME FrameBytesAssumption, NEW f, NEW recs, Begins(f, recs)
    PROVE  decode(f) = [ok |-> TRUE, records |-> recs, whole |-> (Len(recs) + 1) * FrameBytes]
<1> DEFINE F == FrameBytes
           L == Len(recs)
           At(j) == SubSeq(f, (j - 1) * F + 1, j * F)
<1>1. F \in Nat \ {0} /\ F > 1 /\ L \in Nat /\ Len(f) \in Nat /\ f \in Seq(Byte)
  BY DEF Begins, FrameBytesAssumption
<1>2. Len(f) >= (L + 1) * F /\ Len(f) < (L + 2) * F
  BY DEF Begins
<1>3. \A j \in 0..L : \A i \in 1..F : f[j * F + i] = <<Rec(recs, j), i>>
  BY DEF Begins
<1>4. recs \in Seq(Records)
  BY DEF Begins
<1> HIDE DEF F, L
<1>5. Len(f) \div F = L + 1
  <2> DEFINE r == Len(f) - (L + 1) * F
  <2>1. (L + 1) * F \in Nat /\ (L + 2) * F = (L + 1) * F + F
    BY <1>1, Places
  <2>2. r \in 0..(F - 1) /\ Len(f) = (L + 1) * F + r
    BY <1>1, <1>2, <2>1
  <2> HIDE DEF r
  <2>3. L + 1 \in Nat
    BY <1>1
  <2> QED BY <1>1, <2>2, <2>3, Quotient
<1>6. ~(Len(f) < F)
  <2>1. (L + 1) * F = L * F + F /\ L * F \in Nat
    BY <1>1, Places
  <2> QED BY <1>1, <1>2, <2>1
<1>7. IsPrefix(start_frame, f)
  <2>1. ASSUME NEW i \in 1..F PROVE f[i] = start_frame[i]
    <3>1. 0 * F + i = i
      BY <1>1
    <3>2. f[0 * F + i] = <<Rec(recs, 0), i>>
      BY <1>1, <1>3
    <3> QED BY <3>1, <3>2, StartFrame DEF Rec, F
  <2> QED BY <1>1, <1>6, <2>1, StartFrame, PrefixByElements DEF F
<1>8. ASSUME NEW j \in 1..(L + 1)
      PROVE  /\ At(j) \in Seq(Byte) /\ Len(At(j)) = F
             /\ \A i \in 1..F : At(j)[i] = <<Rec(recs, j - 1), i>>
  <2> DEFINE low == (j - 1) * F
  <2>1. j - 1 \in 0..L /\ low \in Nat /\ j * F = low + F /\ (L + 1) * F = L * F + F
        /\ L * F \in Nat
    <3>1. j - 1 \in 0..L /\ 1 \in 1..F /\ (j - 1) + 1 = j
      BY <1>1
    <3> QED BY <1>1, <3>1, Places
  <2>2. low + F <= Len(f)
    <3>1. j * F <= (L + 1) * F
      BY <1>1, Monotone
    <3> QED BY <1>1, <1>2, <2>1, <3>1
  <2>3. \A i \in 1..F : f[low + i] = <<Rec(recs, j - 1), i>>
    BY <1>3, <2>1
  <2>4. At(j) = SubSeq(f, low + 1, low + F)
    BY <2>1
  <2> HIDE DEF low, At
  <2>5. /\ At(j) \in Seq(Byte) /\ Len(At(j)) = F
        /\ \A i \in 1..F : At(j)[i] = f[low + i]
    <3>1. low + 1 \in 1..(Len(f) + 1) /\ low + F \in 0..Len(f) /\ low + 1 <= low + F + 1
      BY <1>1, <2>1, <2>2
    <3>2. /\ SubSeq(f, low + 1, low + F) \in Seq(Byte)
          /\ Len(SubSeq(f, low + 1, low + F)) = F
      BY <1>1, <2>1, <2>2
    <3>3. ASSUME NEW i \in 1..F PROVE SubSeq(f, low + 1, low + F)[i] = f[low + i]
      <4>1. i \in 1..((low + F) - (low + 1) + 1) /\ (low + 1) + i - 1 = low + i
        BY <1>1, <2>1
      <4>2. low + 1 \in 1..Len(f) /\ low + F \in 1..Len(f)
        BY <1>1, <2>1, <2>2
      <4>3. SubSeq(f, low + 1, low + F)[i] = f[(low + 1) + i - 1]
        BY <1>1, <4>1, <4>2, SubSeqProperties
      <4> QED BY <4>1, <4>3
    <3> QED BY <2>4, <3>2, <3>3
  <2> QED BY <2>3, <2>5
<1> HIDE DEF At
<1>9. ASSUME NEW j \in 2..(L + 1) PROVE Reads(At(j)) /\ At(j)[1][1] = recs[j - 1]
  <2>1. j \in 1..(L + 1) /\ j - 1 \in 1..L /\ 1 \in 1..F
    BY <1>1
  <2>2. recs[j - 1] \in Records
    BY <1>4, <2>1 DEF L
  <2>3. /\ At(j) \in Seq(Byte) /\ Len(At(j)) = F
        /\ \A i \in 1..F : At(j)[i] = <<recs[j - 1], i>>
    BY <1>1, <1>8, <2>1 DEF Rec
  <2>4. At(j)[1][1] = recs[j - 1]
    BY <2>1, <2>3
  <2>5. /\ framed(recs[j - 1]) \in Seq(Byte) /\ Len(framed(recs[j - 1])) = F
        /\ \A i \in 1..F : framed(recs[j - 1])[i] = <<recs[j - 1], i>>
    BY <2>2, FramedIs DEF F
  <2>6. At(j) = framed(recs[j - 1])
    BY <1>1, <2>3, <2>5, SeqEqual
  <2>7. recs[j - 1].kind \in {"tool", "spawned"}
    BY <2>2 DEF Records
  <2> QED BY <2>4, <2>6, <2>7 DEF Reads
<1>10. [j \in 1..L |-> At(j + 1)[1][1]] = recs
  <2>1. ASSUME NEW j \in 1..L PROVE At(j + 1)[1][1] = recs[j]
    <3>1. j + 1 \in 2..(L + 1) /\ (j + 1) - 1 = j
      BY <1>1
    <3> QED BY <1>9, <3>1
  <2>2. recs = [j \in 1..L |-> recs[j]]
    BY <1>4 DEF L
  <2> QED BY <2>1, <2>2
<1>11. decode(f) =
          IF Len(f) < F /\ IsPrefix(f, start_frame)
          THEN [ok |-> TRUE, records |-> <<>>, whole |-> 0]
          ELSE IF ~IsPrefix(start_frame, f) \/ \E j \in 2..(L + 1) : ~Reads(At(j)) THEN Invalid
          ELSE [ok |-> TRUE, records |-> [j \in 1..((L + 1) - 1) |-> At(j + 1)[1][1]],
                whole |-> (L + 1) * F]
  BY <1>5 DEF decode, F, At
<1>12. (L + 1) - 1 = L
  BY <1>1
<1> QED BY <1>6, <1>7, <1>9, <1>10, <1>11, <1>12 DEF F, L

LEMMA SequenceIs ==
    ASSUME NEW S, NEW n \in Nat, NEW f, f = [i \in 1..n |-> f[i]], \A i \in 1..n : f[i] \in S
    PROVE  f \in Seq(S) /\ Len(f) = n
<1>1. f \in [1..n -> S]
  OBVIOUS
<1>2. f \in Seq(S)
  BY <1>1, IsASeq
<1> QED BY <1>1, <1>2

\* What open leaves of the file.
LEMMA CutIsWhole ==
    ASSUME FrameBytesAssumption, NEW f, NEW recs, Begins(f, recs)
    PROVE  Whole(SubSeq(f, 1, (Len(recs) + 1) * FrameBytes), recs)
<1> DEFINE n == (Len(recs) + 1) * FrameBytes
           g == SubSeq(f, 1, n)
<1>1. /\ FrameBytes \in Nat \ {0} /\ Len(recs) \in Nat /\ Len(f) \in Nat /\ f \in Seq(Byte)
      /\ recs \in Seq(Records)
  BY DEF Begins, FrameBytesAssumption
<1>2. n \in Nat /\ n <= Len(f) /\ (Len(recs) + 2) * FrameBytes = n + FrameBytes
  BY <1>1, Places DEF Begins
<1> HIDE DEF n
<1>3. g \in Seq(Byte) /\ Len(g) = n /\ \A i \in 1..n : g[i] = f[i]
  BY <1>1, <1>2
<1> HIDE DEF g
<1>4. ASSUME NEW j \in 0..Len(recs), NEW i \in 1..FrameBytes
      PROVE  g[j * FrameBytes + i] = <<Rec(recs, j), i>>
  <2>1. j * FrameBytes + i \in 1..n
    BY <1>1, Places DEF n
  <2> QED BY <1>3, <2>1 DEF Begins
<1>5. /\ Len(g) >= (Len(recs) + 1) * FrameBytes /\ Len(g) < (Len(recs) + 2) * FrameBytes
      /\ Len(g) = (Len(recs) + 1) * FrameBytes
  <2>1. Len(g) >= n /\ Len(g) < (Len(recs) + 2) * FrameBytes /\ Len(g) = n
    BY <1>1, <1>2, <1>3
  <2> QED BY <2>1 DEF n
<1> QED BY <1>1, <1>3, <1>4, <1>5 DEF Begins, Whole, n, g

\* A beginning of a frame after whole frames.
LEMMA TornBegins ==
    ASSUME FrameBytesAssumption, NEW f, NEW recs, Whole(f, recs),
           NEW r \in Records, NEW n \in 0..(FrameBytes - 1)
    PROVE  Begins(f \o SubSeq(framed(r), 1, n), recs)
<1> DEFINE tail == SubSeq(framed(r), 1, n)
           g == f \o tail
<1>1. /\ FrameBytes \in Nat \ {0} /\ Len(recs) \in Nat /\ Len(f) \in Nat /\ f \in Seq(Byte)
      /\ recs \in Seq(Records) /\ Len(f) = (Len(recs) + 1) * FrameBytes
  BY DEF Begins, Whole, FrameBytesAssumption
<1>2. tail \in Seq(Byte) /\ Len(tail) = n
  BY <1>1, FramedIs
<1> HIDE DEF tail
<1>3. /\ g \in Seq(Byte) /\ Len(g) = Len(f) + n
      /\ \A i \in 1..Len(f) : g[i] = f[i]
  BY <1>1, <1>2
<1> HIDE DEF g
<1>4. (Len(recs) + 2) * FrameBytes = (Len(recs) + 1) * FrameBytes + FrameBytes
  BY <1>1, Places
<1>5. ASSUME NEW j \in 0..Len(recs), NEW i \in 1..FrameBytes
      PROVE  g[j * FrameBytes + i] = <<Rec(recs, j), i>>
  <2>1. j * FrameBytes + i \in 1..Len(f)
    BY <1>1, Places
  <2> QED BY <1>3, <2>1 DEF Begins, Whole
<1>6. Len(g) >= (Len(recs) + 1) * FrameBytes /\ Len(g) < (Len(recs) + 2) * FrameBytes
  BY <1>1, <1>3, <1>4
<1> QED BY <1>1, <1>3, <1>5, <1>6 DEF Begins, g, tail

\* One frame more.
LEMMA AppendedIsWhole ==
    ASSUME FrameBytesAssumption, NEW f, NEW recs, Whole(f, recs), NEW r \in Records
    PROVE  Whole(f \o framed(r), Append(recs, r))
<1> DEFINE g == f \o framed(r)
           more == Append(recs, r)
           L == Len(recs)
           F == FrameBytes
<1>1. /\ F \in Nat \ {0} /\ L \in Nat /\ Len(f) \in Nat /\ f \in Seq(Byte)
      /\ recs \in Seq(Records) /\ Len(f) = (L + 1) * F
  BY DEF Begins, Whole, FrameBytesAssumption
<1>2. more \in Seq(Records) /\ Len(more) = L + 1 /\ more[L + 1] = r
      /\ \A j \in 1..L : more[j] = recs[j]
  BY <1>1
<1>3. /\ framed(r) \in Seq(Byte) /\ Len(framed(r)) = F
      /\ \A i \in 1..F : framed(r)[i] = <<r, i>>
  BY FramedIs
<1>4. /\ g \in Seq(Byte) /\ Len(g) = Len(f) + F
      /\ \A i \in 1..Len(f) : g[i] = f[i]
      /\ \A i \in 1..F : g[Len(f) + i] = framed(r)[i]
  <2> DEFINE t == framed(r)
  <2>1. t \in Seq(Byte) /\ Len(t) = F
    BY <1>3
  <2> HIDE DEF t
  <2>2. f \o t \in Seq(Byte) /\ Len(f \o t) = Len(f) + F
    BY <1>1, <2>1
  <2>3. \A i \in 1..Len(f) : (f \o t)[i] = f[i]
    BY <1>1, <2>1
  <2>4. ASSUME NEW i \in 1..F PROVE (f \o t)[Len(f) + i] = t[i]
    <3>1. Len(f) + i \in (Len(f) + 1)..(Len(f) + Len(t)) /\ (Len(f) + i) - Len(f) = i
      BY <1>1, <2>1
    <3> QED BY <1>1, <2>1, <3>1, ConcatProperties
  <2> QED BY <2>2, <2>3, <2>4 DEF t
<1>5. \A j \in 0..L : \A i \in 1..F : f[j * F + i] = <<Rec(recs, j), i>>
  BY DEF Begins, Whole
<1> HIDE DEF g, more, L, F
<1>6. (L + 2) * F = (L + 1) * F + F /\ (L + 3) * F = (L + 2) * F + F
  <2>1. L + 1 \in Nat /\ L \in 0..L /\ L + 1 \in 0..(L + 1) /\ 1 \in 1..F
    BY <1>1
  <2>2. (L + 2) * F = (L + 1) * F + F
    BY <1>1, <2>1, Places
  <2>3. ((L + 1) + 2) * F = ((L + 1) + 1) * F + F
    BY <1>1, <2>1, Places
  <2>4. (L + 1) + 2 = L + 3 /\ (L + 1) + 1 = L + 2
    BY <1>1
  <2> QED BY <2>2, <2>3, <2>4
<1>7. ASSUME NEW j \in 0..Len(more), NEW i \in 1..F
      PROVE  g[j * F + i] = <<Rec(more, j), i>>
  <2>1. CASE j \in 0..L
    <3>1. j * F + i \in 1..Len(f)
      BY <1>1, <2>1, Places
    <3>2. Rec(more, j) = Rec(recs, j)
      BY <1>1, <1>2, <2>1 DEF Rec
    <3>3. f[j * F + i] = <<Rec(recs, j), i>>
      BY <1>5, <2>1
    <3> QED BY <1>4, <3>1, <3>2, <3>3
  <2>2. CASE j = L + 1
    <3>1. j * F + i = Len(f) + i
      BY <1>1, <2>2
    <3>2. Rec(more, j) = r
      BY <1>1, <1>2, <2>2 DEF Rec
    <3> QED BY <1>3, <1>4, <3>1, <3>2
  <2>3. j \in 0..L \/ j = L + 1
    BY <1>1, <1>2
  <2> QED BY <2>1, <2>2, <2>3
<1>8. /\ Len(g) = (Len(more) + 1) * F /\ Len(g) >= (Len(more) + 1) * F
      /\ Len(g) < (Len(more) + 2) * F
  <2>1. Len(g) = (L + 2) * F /\ (L + 1) * F \in Nat
    BY <1>1, <1>4, <1>6
  <2>2. Len(more) + 1 = L + 2 /\ Len(more) + 2 = L + 3
    BY <1>1, <1>2
  <2>3. (L + 2) * F \in Nat
    BY <1>1
  <2> QED BY <1>1, <1>6, <2>1, <2>2, <2>3
<1> QED BY <1>2, <1>4, <1>7, <1>8 DEF Begins, Whole, g, more, F

\* The Start frame, or a beginning of it, in an empty file.
LEMMA Starts ==
    ASSUME FrameBytesAssumption, NEW n \in 0..(FrameBytes - 1)
    PROVE  /\ Whole(<<>> \o framed(StartRecord), <<>>)
           /\ NoStart(<<>> \o SubSeq(framed(StartRecord), 1, n))
           /\ NoStart(<<>>)
<1>1. /\ framed(StartRecord) \in Seq(Byte) /\ Len(framed(StartRecord)) = FrameBytes
      /\ \A i \in 1..FrameBytes : framed(StartRecord)[i] = <<StartRecord, i>>
      /\ FrameBytes \in Nat \ {0}
  BY FramedIs
<1>2. <<>> \o framed(StartRecord) = framed(StartRecord)
  BY <1>1
<1>3. Whole(framed(StartRecord), <<>>)
  <2>1. Len(<<>>) = 0 /\ <<>> \in Seq(Records)
    OBVIOUS
  <2>2. (0 + 1) * FrameBytes = FrameBytes /\ (0 + 2) * FrameBytes = FrameBytes + FrameBytes
    BY <1>1
  <2>3. \A j \in 0..0 : \A i \in 1..FrameBytes : j * FrameBytes + i = i /\ Rec(<<>>, j) = StartRecord
    BY <1>1 DEF Rec
  <2> QED BY <1>1, <2>1, <2>2, <2>3 DEF Whole, Begins
<1>4. NoStart(SubSeq(framed(StartRecord), 1, n))
  <2>1. /\ SubSeq(framed(StartRecord), 1, n) \in Seq(Byte)
        /\ Len(SubSeq(framed(StartRecord), 1, n)) = n
        /\ \A i \in 1..n : SubSeq(framed(StartRecord), 1, n)[i] = framed(StartRecord)[i]
    BY <1>1
  <2> QED BY <1>1, <2>1 DEF NoStart
<1>5. <<>> \o SubSeq(framed(StartRecord), 1, n) = SubSeq(framed(StartRecord), 1, n)
  BY <1>1
<1>6. NoStart(<<>>)
  BY <1>1 DEF NoStart
<1> QED BY <1>2, <1>3, <1>4, <1>5, <1>6

LEMMA FileOfIsWhole ==
    ASSUME FrameBytesAssumption, NEW recs \in Seq(Records)
    PROVE  Whole(FileOf(recs), recs)
<1> DEFINE F == FrameBytes
           L == Len(recs)
           n == (L + 1) * F
           f == FileOf(recs)
<1>1. F \in Nat \ {0} /\ L \in Nat
  BY DEF FrameBytesAssumption
<1>2. n \in Nat /\ (L + 2) * F = n + F
  BY <1>1, Places
<1>3. f = [m \in 1..n |-> <<Rec(recs, (m - 1) \div F), ((m - 1) % F) + 1>>]
  BY DEF FileOf, Rec
<1> HIDE DEF F, L, n, f
<1>4. ASSUME NEW j \in 0..L, NEW i \in 1..F
      PROVE  j * F + i \in 1..n /\ f[j * F + i] = <<Rec(recs, j), i>>
  <2>1. j * F + i \in 1..n /\ j * F \in Nat
    BY <1>1, Places DEF n
  <2>2. (j * F + i) - 1 = j * F + (i - 1) /\ i - 1 \in 0..(F - 1) /\ j \in Nat
    BY <1>1, <2>1
  <2>3. (j * F + (i - 1)) \div F = j /\ (j * F + (i - 1)) % F = i - 1
    BY <1>1, <2>2, Quotient
  <2>4. (i - 1) + 1 = i
    BY <1>1
  <2> QED BY <1>3, <2>1, <2>2, <2>3, <2>4
<1>5. ASSUME NEW m \in 1..n PROVE f[m] \in Byte
  <2> DEFINE j == (m - 1) \div F
             i == ((m - 1) % F) + 1
  <2>1. /\ m - 1 \in Nat /\ j \in Nat /\ (m - 1) % F \in 0..(F - 1)
        /\ m - 1 = j * F + ((m - 1) % F)
    BY <1>1, <1>2
  <2>2. ~(j > L)
    <3> SUFFICES ASSUME L + 1 <= j PROVE FALSE
      BY <1>1, <2>1
    <3>1. n <= j * F
      BY <1>1, <2>1, Monotone DEF n
    <3>2. j * F \in Nat
      BY <1>1, <2>1
    <3> QED BY <1>2, <2>1, <3>1, <3>2
  <2>3. j \in 0..L
    BY <1>1, <2>1, <2>2
  <2>4. Rec(recs, j) \in Records \cup {StartRecord}
    BY <2>3 DEF Rec, L
  <2>5. i \in Nat
    BY <1>1, <2>1
  <2>6. f[m] = <<Rec(recs, j), i>>
    BY <1>3
  <2> HIDE DEF i, j
  <2> QED BY <2>4, <2>5, <2>6 DEF Byte
<1>6. f \in Seq(Byte) /\ Len(f) = n
  <2>1. f = [m \in 1..n |-> f[m]]
    BY <1>3
  <2> QED BY <1>2, <1>5, <2>1, SequenceIs
<1>7. Len(f) >= n /\ Len(f) < (L + 2) * F
  BY <1>1, <1>2, <1>6
<1> QED BY <1>4, <1>6, <1>7 DEF Begins, Whole, f, n, F, L

(***************************************************************************)
(* The file a process finds and leaves                                     *)
(***************************************************************************)
\* What the host is given: frames of more than one byte, journals of records,
\* and, of the outputs and the agents, only what they are made of.
WorkflowConstants ==
    /\ FrameBytesAssumption /\ WorkflowAssumption
    /\ OldRecords \subseteq Seq(Records)
    /\ "counter" \in Text /\ Outputs \subseteq Text
    /\ \A p \in Programs : \A h \in Seq(Records) :
          evaluate_program(p, h).kind = "spawn" => evaluate_program(p, h).agent \in Text

\* Not a journal; or without its whole Start frame; or the frames of the history
\* and, before the process has opened it, a torn tail.
FileInv ==
    \/ file = Foreign /\ pc \in {"down", "refused"}
    \/ NoStart(file) /\ (pc = "down" \/ (pc = "start" /\ file = <<>>))
    \/ /\ Begins(file, history)
       /\ pc \notin {"start", "refused"}
       /\ pc # "down" => Whole(file, history)

LEMMA Reading ==
    ASSUME FrameBytesAssumption, NEW f
    PROVE  /\ f = Foreign => decode(f).ok = FALSE /\ decode(f).records = <<>>
           /\ NoStart(f) => /\ decode(f).ok = TRUE /\ decode(f).records = <<>>
                            /\ decode(f).whole = 0
           /\ \A recs : Begins(f, recs) =>
                 /\ decode(f).ok = TRUE /\ decode(f).records = recs
                 /\ decode(f).whole = (Len(recs) + 1) * FrameBytes
<1>1. f = Foreign => decode(f).ok = FALSE /\ decode(f).records = <<>>
  <2>1. f = Foreign => decode(f) = Invalid
    BY DecodeForeign
  <2> QED BY <2>1 DEF Invalid
<1>2. NoStart(f) => /\ decode(f).ok = TRUE /\ decode(f).records = <<>>
                    /\ decode(f).whole = 0
  <2>1. NoStart(f) => decode(f) = [ok |-> TRUE, records |-> <<>>, whole |-> 0]
    BY DecodeNoStart
  <2> QED BY <2>1
<1>3. ASSUME NEW recs, Begins(f, recs)
      PROVE  /\ decode(f).ok = TRUE /\ decode(f).records = recs
             /\ decode(f).whole = (Len(recs) + 1) * FrameBytes
  <2>1. decode(f) = [ok |-> TRUE, records |-> recs, whole |-> (Len(recs) + 1) * FrameBytes]
    BY <1>3, DecodeBegins
  <2> QED BY <2>1
<1> QED BY <1>1, <1>2, <1>3

LEMMA PrefixOfMore ==
    ASSUME NEW recs \in Seq(Records), NEW r \in Records
    PROVE  /\ IsPrefix(recs, recs) /\ IsPrefix(recs, Append(recs, r))
           /\ Append(recs, r) \in Seq(Records)
<1>1. /\ Append(recs, r) \in Seq(Records) /\ Len(Append(recs, r)) = Len(recs) + 1
      /\ Len(recs) \in Nat
      /\ \A i \in 1..Len(recs) : Append(recs, r)[i] = recs[i]
  OBVIOUS
<1>2. IsPrefix(recs, recs)
  BY <1>1, PrefixByElements
<1> DEFINE more == Append(recs, r)
<1>3. /\ more \in Seq(Records) /\ Len(recs) <= Len(more)
      /\ \A i \in 1..Len(recs) : recs[i] = more[i]
  BY <1>1
<1> HIDE DEF more
<1>4. IsPrefix(recs, more)
  BY <1>3, PrefixByElements
<1> QED BY <1>1, <1>2, <1>4 DEF more

LEMMA FileSays ==
    ASSUME FrameBytesAssumption, FileInv
    PROVE  /\ history \in Seq(Records) /\ IsPrefix(history, history)
           /\ Readable <=> file # Foreign
           /\ NoStart(file) => decode(file).whole = 0 /\ history = <<>>
           /\ Begins(file, history) => decode(file).whole = (Len(history) + 1) * FrameBytes
<1>1. /\ file = Foreign => decode(file).ok = FALSE /\ decode(file).records = <<>>
      /\ NoStart(file) => /\ decode(file).ok = TRUE /\ decode(file).records = <<>>
                          /\ decode(file).whole = 0
      /\ \A recs : Begins(file, recs) =>
            /\ decode(file).ok = TRUE /\ decode(file).records = recs
            /\ decode(file).whole = (Len(recs) + 1) * FrameBytes
  BY Reading
<1>2. history \in Seq(Records)
  <2>1. Begins(file, history) => history \in Seq(Records)
    BY DEF Begins
  <2>2. <<>> \in Seq(Records)
    OBVIOUS
  <2> QED BY <1>1, <2>1, <2>2 DEF FileInv, history
<1>3. IsPrefix(history, history)
  BY <1>2, PrefixByElements
<1>4. Readable <=> file # Foreign
  BY <1>1 DEF Readable, FileInv
<1>5. NoStart(file) => decode(file).whole = 0 /\ history = <<>>
  BY <1>1 DEF history
<1> QED BY <1>1, <1>2, <1>3, <1>4, <1>5

\* A step that leaves the file alone.
LEMMA FileStays ==
    ASSUME FrameBytesAssumption, FileInv, UNCHANGED file
    PROVE  /\ HistoryKept /\ history' = history
           /\ file = Foreign /\ pc' \in {"down", "refused"} => FileInv'
           /\ NoStart(file) /\ pc' = "down" => FileInv'
           /\ /\ Begins(file, history) /\ pc' \notin {"start", "refused"}
              /\ pc' # "down" => Whole(file, history)
              => FileInv'
<1>1. history' = history /\ (Readable' <=> Readable)
  BY DEF history, Readable
<1>2. IsPrefix(history, history)
  BY FileSays
<1>3. HistoryKept
  BY <1>1, <1>2 DEF HistoryKept
<1> QED BY <1>1, <1>3 DEF FileInv

\* What a step writes after the whole frames of a journal.
LEMMA FileWritten ==
    ASSUME FrameBytesAssumption, NEW recs, Whole(file, recs), NEW r \in Records
    PROVE  /\ history = recs /\ Readable
           /\ append(r) => /\ Whole(file', Append(recs, r)) /\ history' = Append(recs, r)
                           /\ Readable' /\ HistoryKept
           /\ \A n \in 0..(FrameBytes - 1) :
                 appendTorn(r, n) => /\ Begins(file', recs) /\ history' = recs
                                     /\ Readable' /\ HistoryKept
<1>1. \A f : \A rs : Begins(f, rs) => decode(f).ok = TRUE /\ decode(f).records = rs
  BY Reading
<1>2. Begins(file, recs) /\ recs \in Seq(Records)
  BY DEF Whole, Begins
<1>3. history = recs /\ Readable
  BY <1>1, <1>2 DEF history, Readable
<1>4. IsPrefix(recs, recs) /\ IsPrefix(recs, Append(recs, r))
  BY <1>2, PrefixOfMore
<1>5. ASSUME append(r)
      PROVE  /\ Whole(file', Append(recs, r)) /\ history' = Append(recs, r)
             /\ Readable' /\ HistoryKept
  <2>1. Whole(file \o framed(r), Append(recs, r))
    BY AppendedIsWhole
  <2>2. file' = file \o framed(r)
    BY <1>5 DEF append
  <2>3. Whole(file', Append(recs, r)) /\ Begins(file', Append(recs, r))
    BY <2>1, <2>2 DEF Whole
  <2>4. history' = Append(recs, r) /\ Readable'
    BY <1>1, <2>3 DEF history, Readable
  <2> QED BY <1>3, <1>4, <2>3, <2>4 DEF HistoryKept
<1>6. ASSUME NEW n \in 0..(FrameBytes - 1), appendTorn(r, n)
      PROVE  Begins(file', recs) /\ history' = recs /\ Readable' /\ HistoryKept
  <2>1. Begins(file \o SubSeq(framed(r), 1, n), recs)
    BY TornBegins
  <2>2. file' = file \o SubSeq(framed(r), 1, n)
    BY <1>6 DEF appendTorn
  <2>3. Begins(file', recs)
    BY <2>1, <2>2
  <2>4. history' = recs /\ Readable'
    BY <1>1, <2>3 DEF history, Readable
  <2> QED BY <1>3, <1>4, <2>3, <2>4 DEF HistoryKept
<1> QED BY <1>3, <1>5, <1>6

\* The same for the Start frame of an empty file.
LEMMA StartWritten ==
    ASSUME FrameBytesAssumption, file = <<>>
    PROVE  /\ history = <<>> /\ Readable
           /\ append(StartRecord) => /\ Whole(file', <<>>) /\ history' = <<>> /\ HistoryKept
           /\ \A n \in 0..(FrameBytes - 1) :
                 appendTorn(StartRecord, n) => /\ NoStart(file') /\ history' = <<>>
                                               /\ HistoryKept
<1>0. 0 \in 0..(FrameBytes - 1)
  BY DEF FrameBytesAssumption
<1>1. /\ Whole(<<>> \o framed(StartRecord), <<>>) /\ NoStart(<<>>)
      /\ \A n \in 0..(FrameBytes - 1) : NoStart(<<>> \o SubSeq(framed(StartRecord), 1, n))
  BY <1>0, Starts
<1>2. /\ \A f : Begins(f, <<>>) => decode(f).ok = TRUE /\ decode(f).records = <<>>
      /\ \A f : NoStart(f) => decode(f).ok = TRUE /\ decode(f).records = <<>>
  BY Reading
<1>3. history = <<>> /\ Readable
  BY <1>1, <1>2 DEF history, Readable
<1>4. <<>> \in Seq(Records)
  OBVIOUS
<1>5. IsPrefix(<<>>, <<>>)
  <2> DEFINE none == <<>>
  <2>1. none \in Seq(Records)
    BY <1>4
  <2> HIDE DEF none
  <2>2. IsPrefix(none, none)
    BY <2>1, PrefixByElements
  <2> QED BY <2>2 DEF none
<1>6. ASSUME append(StartRecord)
      PROVE  Whole(file', <<>>) /\ history' = <<>> /\ HistoryKept
  <2>1. file' = <<>> \o framed(StartRecord)
    BY <1>6 DEF append
  <2>2. Whole(file', <<>>)
    BY <1>1, <2>1
  <2> DEFINE none == <<>>
  <2> HIDE DEF none
  <2>3. Begins(file', none)
    BY <2>2 DEF Whole, none
  <2>4. history' = <<>> /\ Readable'
    BY <1>2, <2>3 DEF history, Readable, none
  <2> QED BY <1>3, <1>5, <2>2, <2>4 DEF HistoryKept
<1>7. ASSUME NEW n \in 0..(FrameBytes - 1), appendTorn(StartRecord, n)
      PROVE  NoStart(file') /\ history' = <<>> /\ HistoryKept
  <2>1. file' = <<>> \o SubSeq(framed(StartRecord), 1, n)
    BY <1>7 DEF appendTorn
  <2>2. NoStart(file')
    BY <1>1, <2>1
  <2>3. history' = <<>> /\ Readable'
    BY <1>2, <2>2 DEF history, Readable
  <2> QED BY <1>3, <1>5, <2>2, <2>3 DEF HistoryKept
<1> QED BY <1>3, <1>6, <1>7

\* Opening leaves whole frames, or nothing at all.
LEMMA OpenStep ==
    ASSUME FrameBytesAssumption, FileInv, open
    PROVE  FileInv' /\ HistoryKept /\ history' = history
<1>1. /\ pc = "down" /\ Readable /\ file # Foreign
      /\ file' = SubSeq(file, 1, decode(file).whole)
      /\ pc' = IF decode(file).whole = 0 THEN "start" ELSE "ready"
  BY FileSays DEF open, CutTail, NeedsStart
<1>2. CASE NoStart(file)
  <2>1. decode(file).whole = 0 /\ history = <<>> /\ file \in Seq(Byte)
    BY <1>2, FileSays DEF NoStart
  <2>2. file' = <<>> /\ pc' = "start"
    BY <1>1, <2>1
  <2>3. 0 \in 0..(FrameBytes - 1)
    BY DEF FrameBytesAssumption
  <2>4. NoStart(<<>>)
    BY <2>3, Starts
  <2>5. NoStart(file')
    BY <2>2, <2>4
  <2>6. history' = <<>> /\ Readable'
    BY <2>5, Reading DEF history, Readable
  <2>7. HistoryKept
    BY <1>1, <2>1, <2>6, FileSays DEF HistoryKept
  <2> QED BY <2>1, <2>2, <2>5, <2>6, <2>7 DEF FileInv
<1>3. CASE Begins(file, history)
  <2>1. decode(file).whole = (Len(history) + 1) * FrameBytes
    BY <1>3, FileSays
  <2>2. decode(file).whole # 0
    <3>1. FrameBytes \in Nat \ {0} /\ Len(history) \in Nat
      BY <1>3 DEF Begins, FrameBytesAssumption
    <3>2. /\ (Len(history) + 1) * FrameBytes = Len(history) * FrameBytes + FrameBytes
          /\ Len(history) * FrameBytes \in Nat
      BY <3>1, Places
    <3> QED BY <2>1, <3>1, <3>2
  <2>3. Whole(SubSeq(file, 1, (Len(history) + 1) * FrameBytes), history)
    BY <1>3, CutIsWhole
  <2>4. Whole(file', history) /\ Begins(file', history) /\ pc' = "ready"
    BY <1>1, <2>1, <2>2, <2>3 DEF Whole
  <2>5. history' = history /\ Readable'
    BY <2>4, Reading DEF history, Readable
  <2>6. HistoryKept
    BY <1>1, <2>5, FileSays DEF HistoryKept
  <2> QED BY <2>4, <2>5, <2>6 DEF FileInv
<1> QED BY <1>1, <1>2, <1>3 DEF FileInv

\* A step keeps the history, and only commit makes it longer, by what was held.
LEMMA FileStep ==
    ASSUME FrameBytesAssumption, FileInv, pc = "commit" => held \in Records, [Next]_vars
    PROVE  /\ FileInv' /\ HistoryKept
           /\ history \in Seq(Records) /\ history' \in Seq(Records)
           /\ history' = history \/ (commit /\ history' = Append(history, held))
<1>0. history \in Seq(Records)
  BY FileSays
<1>1. /\ pc = "start" => file = <<>> /\ NoStart(file)
      /\ pc = "refused" => file = Foreign
      /\ pc \notin {"down", "start", "refused"} => Whole(file, history) /\ Begins(file, history)
  BY DEF FileInv
<1>2. CASE open
  BY <1>0, <1>2, OpenStep
<1>3. CASE openRefused
  <2>1. pc = "down" /\ ~Readable /\ UNCHANGED file /\ pc' = "refused"
    BY <1>3 DEF openRefused
  <2>2. file = Foreign
    BY <2>1, FileSays
  <2> QED BY <1>0, <2>1, <2>2, FileStays
<1>4. CASE writeStart
  <2>1. pc = "start" /\ append(StartRecord) /\ pc' = "ready"
    BY <1>4 DEF writeStart
  <2>2. Whole(file', <<>>) /\ history' = <<>> /\ history = <<>> /\ HistoryKept
    BY <1>1, <2>1, StartWritten
  <2>3. Begins(file', history') /\ Whole(file', history')
    BY <2>2 DEF Whole
  <2> QED BY <2>1, <2>2, <2>3 DEF FileInv
<1>5. CASE commit
  <2>1. pc = "commit" /\ append(held) /\ pc' = "ready" /\ held \in Records
    BY <1>5 DEF commit
  <2>2. /\ Whole(file', Append(history, held)) /\ history' = Append(history, held)
        /\ HistoryKept
    BY <1>1, <2>1, FileWritten
  <2>3. Begins(file', history') /\ Whole(file', history')
    BY <2>2 DEF Whole
  <2>4. history' \in Seq(Records)
    BY <1>0, <2>1, <2>2, PrefixOfMore
  <2> QED BY <1>5, <2>1, <2>2, <2>3, <2>4 DEF FileInv
<1>6. CASE replay \/ join_all \/ start_child \/ start_childRefused \/ stand_in
  <2>1. /\ pc \in {"ready", "spawn", "tool"} /\ UNCHANGED file
        /\ pc' \in {"spawn", "tool", "done", "ready", "commit"}
    <3>1. CASE replay
      BY <3>1, Zenon DEF replay
    <3>2. CASE join_all \/ start_child \/ start_childRefused \/ stand_in
      BY <3>2 DEF join_all, start_child, start_childRefused, stand_in
    <3> QED BY <1>6, <3>1, <3>2
  <2> QED BY <1>0, <1>1, <2>1, FileStays
<1>7. CASE commitFailed
  <2>1. /\ pc = "commit" /\ held \in Records
        /\ \/ UNCHANGED file /\ pc' = "ready"
           \/ pc' = "down" /\ \E n \in 1..(FrameBytes - 1) : appendTorn(held, n)
    BY <1>7 DEF commitFailed, appendFailed
  <2>2. CASE UNCHANGED file /\ pc' = "ready"
    BY <1>0, <1>1, <2>1, <2>2, FileStays
  <2>3. CASE pc' = "down" /\ \E n \in 1..(FrameBytes - 1) : appendTorn(held, n)
    <3>1. PICK n \in 0..(FrameBytes - 1) : appendTorn(held, n)
      BY <2>3 DEF FrameBytesAssumption
    <3>2. Begins(file', history) /\ history' = history /\ HistoryKept
      BY <1>1, <2>1, <3>1, FileWritten
    <3>3. Begins(file', history')
      BY <3>2
    <3> QED BY <1>0, <2>3, <3>2, <3>3 DEF FileInv
  <2> QED BY <2>1, <2>2, <2>3
<1>8. CASE Kill
  <2>1. /\ pc \notin {"down", "refused"} /\ pc' = "down"
        /\ \E n \in 0..(FrameBytes - 1) :
              \/ pc = "start" /\ appendTorn(StartRecord, n)
              \/ pc = "commit" /\ appendTorn(held, n)
              \/ pc # "start" /\ pc # "commit" /\ UNCHANGED file
    BY <1>8 DEF Kill
  <2>2. PICK n \in 0..(FrameBytes - 1) :
              \/ pc = "start" /\ appendTorn(StartRecord, n)
              \/ pc = "commit" /\ appendTorn(held, n)
              \/ pc # "start" /\ pc # "commit" /\ UNCHANGED file
    BY <2>1
  <2>3. CASE pc = "start" /\ appendTorn(StartRecord, n)
    <3>1. NoStart(file') /\ history' = <<>> /\ history = <<>> /\ HistoryKept
      BY <1>1, <2>3, StartWritten
    <3> QED BY <1>0, <2>1, <3>1 DEF FileInv
  <2>4. CASE pc = "commit" /\ appendTorn(held, n)
    <3>1. Begins(file', history) /\ history' = history /\ HistoryKept
      BY <1>1, <2>4, FileWritten
    <3>2. Begins(file', history')
      BY <3>1
    <3> QED BY <1>0, <2>1, <3>1, <3>2 DEF FileInv
  <2>5. CASE pc # "start" /\ pc # "commit" /\ UNCHANGED file
    BY <1>0, <1>1, <2>1, <2>5, FileStays
  <2> QED BY <2>2, <2>3, <2>4, <2>5
<1>9. CASE Rerun
  <2>1. pc \in {"done", "refused"} /\ pc' = "down" /\ UNCHANGED file
    BY <1>9 DEF Rerun
  <2> QED BY <1>0, <1>1, <2>1, FileStays
<1>10. CASE UNCHANGED vars
  <2>1. UNCHANGED <<file, pc>>
    BY <1>10 DEF vars
  <2>2. history' = history /\ HistoryKept
    BY <2>1, FileStays
  <2> QED BY <1>0, <2>1, <2>2 DEF FileInv
<1> QED BY <1>2, <1>3, <1>4, <1>5, <1>6, <1>7, <1>8, <1>9, <1>10, <1>0 DEF Next, Step

(***************************************************************************)
(* The host                                                                *)
(***************************************************************************)
Call == [step : Nat, output : Text]
Child == [step : Nat, agent : Text]

Spawning == mode = "replay" /\ Command.kind = "spawn"
Calling == IF mode = "replay" THEN Command = Counter ELSE Len(history) < 2

\* The last call made for record n + 1 gave this output.
LastCall(n, output) ==
    \E e \in DOMAIN effects :
        /\ effects[e].step = n /\ effects[e].output = output
        /\ \A d \in DOMAIN effects : effects[d].step = n => d <= e

HostType ==
    /\ mode \in {"replay", "join"} /\ (mode = "replay" => program \in Programs)
    /\ pc \in {"down", "start", "ready", "spawn", "tool", "commit", "done", "refused"}
    /\ held \in Records \cup {None} /\ ((pc = "commit") <=> (held # None))
    /\ faults \in 0..MaxFaults
    /\ children \subseteq Child
    /\ effects \in Seq(Call)

\* What the process is about to do is what the workflow asks for at the end of
\* the history, and what it is about to record has been done.
PositionInv ==
    /\ pc = "spawn" => Spawning
    /\ pc = "tool" => Calling
    /\ pc = "commit" =>
         \/ /\ Spawning /\ held = AgentSpawned(Command.agent)
            /\ [step |-> Len(history), agent |-> Command.agent] \in children
         \/ /\ Calling
            /\ \E output \in Text : /\ held = ToolRecord("counter", output)
                                      /\ LastCall(Len(history), output)

\* A child is recorded in its place, or is the one asked for at the end.
ChildrenInv ==
    /\ \A c \in children :
          \/ c.step + 1 \in 1..Len(history) /\ history[c.step + 1] = AgentSpawned(c.agent)
          \/ c.step = Len(history) /\ Spawning /\ c.agent = Command.agent
    /\ \A i \in 1..Len(history) : history[i].kind = "spawned" =>
          [step |-> i - 1, agent |-> history[i].agent] \in children

EffectsInv ==
    /\ \A e \in DOMAIN effects : effects[e].step <= Len(history)
    /\ \A i \in 1..Len(history) : history[i].kind = "tool" => LastCall(i - 1, history[i].output)
    /\ Len(effects) <= Cardinality(ToolsIn(history)) + faults
                       + (IF held.kind = "tool" THEN 1 ELSE 0)

HostInv == HostType /\ PositionInv /\ ChildrenInv /\ EffectsInv

LEMMA RecordKinds ==
    ASSUME WorkflowConstants
    PROVE
    /\ \A r \in Records : \/ r.kind = "tool" /\ r.output \in Text /\ r # None
                          \/ /\ r.kind = "spawned" /\ r.agent \in Text /\ r # None
                             /\ r = AgentSpawned(r.agent)
    /\ None.kind = "none" /\ None \notin Records
    /\ \A a \in Text : /\ AgentSpawned(a) \in Records /\ AgentSpawned(a).kind = "spawned"
                         /\ AgentSpawned(a).agent = a
    /\ \A o \in Text : /\ ToolRecord("counter", o) \in Records
                         /\ ToolRecord("counter", o).kind = "tool"
                         /\ ToolRecord("counter", o).output = o
<1>1. \A r \in Records : \/ r.kind = "tool" /\ r.output \in Text /\ r # None
                         \/ /\ r.kind = "spawned" /\ r.agent \in Text /\ r # None
                            /\ r = AgentSpawned(r.agent)
  <2> TAKE r \in Records
  <2>1. CASE r \in [kind : {"tool"}, name : Text, output : Text]
    <3>1. r.kind = "tool" /\ r.output \in Text
      BY <2>1
    <3> QED BY <3>1 DEF None
  <2>2. CASE r \in [kind : {"spawned"}, agent : Text]
    <3>1. r.kind = "spawned" /\ r.agent \in Text
      BY <2>2
    <3>2. r = [kind |-> "spawned", agent |-> r.agent]
      BY <2>2
    <3> QED BY <3>1, <3>2 DEF None, AgentSpawned
  <2> QED BY <2>1, <2>2 DEF Records
<1>2. None.kind = "none" /\ None \notin Records
  BY DEF None, Records
<1>3. \A a \in Text : /\ AgentSpawned(a) \in Records /\ AgentSpawned(a).kind = "spawned"
                        /\ AgentSpawned(a).agent = a
  BY DEF AgentSpawned, Records
<1>4. \A o \in Text : /\ ToolRecord("counter", o) \in Records
                        /\ ToolRecord("counter", o).kind = "tool"
                        /\ ToolRecord("counter", o).output = o
  <2>1. "counter" \in Text
    BY DEF WorkflowConstants
  <2>2. ASSUME NEW o \in Text
        PROVE  /\ ToolRecord("counter", o) \in Records
               /\ ToolRecord("counter", o).kind = "tool"
               /\ ToolRecord("counter", o).output = o
    <3>1. ToolRecord("counter", o) = [kind |-> "tool", name |-> "counter", output |-> o]
      BY DEF ToolRecord
    <3>2. ToolRecord("counter", o) \in [kind : {"tool"}, name : Text, output : Text]
      BY <2>1, <3>1
    <3> QED BY <3>1, <3>2 DEF Records
  <2> QED BY <2>2
<1> QED BY <1>1, <1>2, <1>3, <1>4

\* One more record.
LEMMA OneMoreRecord ==
    ASSUME NEW recs \in Seq(Records), NEW r \in Records
    PROVE  /\ Append(recs, r) \in Seq(Records)
           /\ Len(recs) \in Nat /\ Len(Append(recs, r)) = Len(recs) + 1
           /\ \A i \in 1..Len(recs) : Append(recs, r)[i] = recs[i]
           /\ Append(recs, r)[Len(recs) + 1] = r
           /\ IsFiniteSet(ToolsIn(recs)) /\ Cardinality(ToolsIn(recs)) \in Nat
           /\ Cardinality(ToolsIn(Append(recs, r))) =
                 Cardinality(ToolsIn(recs)) + (IF r.kind = "tool" THEN 1 ELSE 0)
<1> DEFINE more == Append(recs, r)
           L == Len(recs)
<1>1. /\ more \in Seq(Records) /\ L \in Nat /\ Len(more) = L + 1
      /\ \A i \in 1..L : more[i] = recs[i]
      /\ more[L + 1] = r /\ DOMAIN recs = 1..L /\ DOMAIN more = 1..(L + 1)
  OBVIOUS
<1> HIDE DEF more, L
<1>2. IsFiniteSet(ToolsIn(recs)) /\ Cardinality(ToolsIn(recs)) \in Nat
  <2>1. IsFiniteSet(1..L)
    BY <1>1, FS_Interval
  <2>2. ToolsIn(recs) \in SUBSET (1..L)
    BY <1>1 DEF ToolsIn
  <2>3. IsFiniteSet(ToolsIn(recs))
    BY <2>1, <2>2, FS_Subset
  <2> QED BY <2>3, FS_CardinalityType
<1>3. CASE r.kind = "tool"
  <2>1. ToolsIn(more) = ToolsIn(recs) \cup {L + 1}
    BY <1>1, <1>3 DEF ToolsIn
  <2>2. L + 1 \notin ToolsIn(recs)
    BY <1>1 DEF ToolsIn
  <2>3. Cardinality(ToolsIn(more)) = Cardinality(ToolsIn(recs)) + 1
    BY <1>2, <2>1, <2>2, FS_AddElement
  <2> QED BY <1>1, <1>2, <1>3, <2>3 DEF more, L
<1>4. CASE r.kind # "tool"
  <2>1. ToolsIn(more) = ToolsIn(recs)
    BY <1>1, <1>4 DEF ToolsIn
  <2> QED BY <1>1, <1>2, <1>4, <2>1 DEF more, L
<1> QED BY <1>3, <1>4

\* One more call.
LEMMA OneMoreCall ==
    ASSUME effects \in Seq(Call), NEW n \in Nat, NEW output \in Text,
           effects' = Append(effects, [step |-> n, output |-> output])
    PROVE  /\ effects' \in Seq(Call) /\ Len(effects') = Len(effects) + 1 /\ Len(effects) \in Nat
           /\ \A e \in DOMAIN effects' : \/ e \in DOMAIN effects /\ effects'[e] = effects[e]
                                         \/ effects'[e].step = n
           /\ LastCall(n, output)'
           /\ \A m \in Nat : \A o : m # n /\ LastCall(m, o) => LastCall(m, o)'
<1> DEFINE call == [step |-> n, output |-> output]
           L == Len(effects)
<1>1. call \in Call /\ call.step = n /\ call.output = output
  BY DEF Call
<1> HIDE DEF call
<1>2. effects' = Append(effects, call)
  BY DEF call
<1>3. /\ effects' \in Seq(Call) /\ Len(effects') = L + 1 /\ L \in Nat
      /\ DOMAIN effects = 1..L /\ DOMAIN effects' = 1..(L + 1)
      /\ \A i \in 1..L : effects'[i] = effects[i]
      /\ effects'[L + 1] = call
  BY <1>1, <1>2
<1> HIDE DEF L
<1>4. \A e \in DOMAIN effects' : \/ e \in DOMAIN effects /\ effects'[e] = effects[e]
                                 \/ e = L + 1 /\ effects'[e].step = n
  BY <1>1, <1>3
<1>5. LastCall(n, output)'
  <2>1. /\ L + 1 \in DOMAIN effects' /\ effects'[L + 1].step = n /\ effects'[L + 1].output = output
        /\ \A d \in DOMAIN effects' : effects'[d].step = n => d <= L + 1
    BY <1>1, <1>3
  <2> QED BY <2>1 DEF LastCall
<1>6. ASSUME NEW m \in Nat, NEW o, m # n, LastCall(m, o) PROVE LastCall(m, o)'
  <2>1. PICK e \in DOMAIN effects :
            /\ effects[e].step = m /\ effects[e].output = o
            /\ \A d \in DOMAIN effects : effects[d].step = m => d <= e
    BY <1>6 DEF LastCall
  <2>2. /\ e \in DOMAIN effects' /\ effects'[e].step = m /\ effects'[e].output = o
    BY <1>3, <2>1
  <2>3. \A d \in DOMAIN effects' : effects'[d].step = m => d <= e
    BY <1>4, <1>6, <2>1
  <2> QED BY <2>2, <2>3 DEF LastCall
<1> QED BY <1>3, <1>4, <1>5, <1>6 DEF L

LEMMA SameHistory ==
    ASSUME history' = history, UNCHANGED <<mode, program>>
    PROVE  Command' = Command /\ (Spawning' <=> Spawning) /\ (Calling' <=> Calling)
<1>1. Command' = Command
  BY DEF Command
<1> QED BY <1>1 DEF Spawning, Calling

\* A step that starts no child, runs no tool and records nothing.
LEMMA IdleStep ==
    ASSUME WorkflowConstants, history \in Seq(Records), HostInv,
           history' = history, UNCHANGED <<mode, program, children, effects>>,
           held' = None,
           pc' \in {"down", "start", "ready", "spawn", "tool", "done", "refused"},
           pc' = "spawn" => Spawning,
           pc' = "tool" => Calling,
           \/ faults' = faults /\ pc # "commit"
           \/ faults' = faults + 1 /\ faults < MaxFaults
    PROVE  HostInv'
<1>1. HostType /\ PositionInv /\ ChildrenInv /\ EffectsInv
  BY DEF HostInv
<1>2. Command' = Command /\ (Spawning' <=> Spawning) /\ (Calling' <=> Calling)
  BY SameHistory
<1>3. MaxFaults \in Nat /\ faults \in Nat /\ faults' \in 0..MaxFaults
  BY <1>1 DEF HostType, WorkflowConstants, WorkflowAssumption
<1>4. HostType'
  BY <1>1, <1>3 DEF HostType
<1>5. PositionInv'
  BY <1>2 DEF PositionInv
<1>6. ChildrenInv'
  BY <1>1, <1>2 DEF ChildrenInv
<1>7. EffectsInv'
  <2>1. (\A e \in DOMAIN effects : effects[e].step <= Len(history))'
    BY <1>1 DEF EffectsInv
  <2>2. (\A i \in 1..Len(history) :
              history[i].kind = "tool" => LastCall(i - 1, history[i].output))'
    BY <1>1 DEF EffectsInv, LastCall
  <2>3. Len(effects') <= Cardinality(ToolsIn(history')) + faults'
                         + (IF held'.kind = "tool" THEN 1 ELSE 0)
    <3> DEFINE tools == Cardinality(ToolsIn(history))
    <3>1. Cardinality(ToolsIn(history')) = tools
      OBVIOUS
    <3>2. /\ Len(effects) <= tools + faults + (IF held.kind = "tool" THEN 1 ELSE 0)
          /\ Len(effects') = Len(effects) /\ Len(effects) \in Nat
      BY <1>1 DEF EffectsInv, HostType
    <3>3. tools \in Nat
      <4>1. AgentSpawned("counter") \in Records
        BY RecordKinds DEF WorkflowConstants
      <4> QED BY <4>1, OneMoreRecord
    <3>4. pc # "commit" => held.kind # "tool"
      BY <1>1, RecordKinds DEF HostType
    <3>5. held'.kind # "tool"
      BY RecordKinds
    <3>6. Len(effects) <= tools + faults'
      <4> HIDE DEF tools
      <4>1. CASE pc = "commit"
        BY <1>3, <3>2, <3>3, <4>1
      <4>2. CASE pc # "commit"
        BY <1>3, <3>2, <3>3, <3>4, <4>2
      <4> QED BY <4>1, <4>2
    <3>7. Len(effects') = Len(effects) /\ tools + faults' + 0 = tools + faults'
      BY <1>3, <3>3
    <3>8. (IF held'.kind = "tool" THEN 1 ELSE 0) = 0
      BY <3>5
    <3>9. Len(effects') <= tools + faults' + (IF held'.kind = "tool" THEN 1 ELSE 0)
      <4> HIDE DEF tools
      <4> QED BY <3>6, <3>7, <3>8
    <3> QED BY <3>1, <3>9
  <2> QED BY <2>1, <2>2, <2>3 DEF EffectsInv
<1> QED BY <1>4, <1>5, <1>6, <1>7 DEF HostInv

LEMMA SpawnStep ==
    ASSUME WorkflowConstants, history \in Seq(Records), HostInv, start_child, history' = history
    PROVE  HostInv'
<1> DEFINE new == [step |-> Len(history), agent |-> Command.agent]
<1>1. HostType /\ PositionInv /\ ChildrenInv /\ EffectsInv
  BY DEF HostInv
<1>2. /\ pc = "spawn" /\ pc' = "commit" /\ children' = children \cup {new}
      /\ held' = AgentSpawned(Command.agent)
      /\ UNCHANGED <<mode, program, effects, faults>>
  BY DEF start_child
<1>3. Command' = Command /\ (Spawning' <=> Spawning) /\ (Calling' <=> Calling)
  BY <1>2, SameHistory
<1>4. Spawning /\ Command.agent \in Text
  <2>1. Spawning /\ program \in Programs
    BY <1>1, <1>2 DEF PositionInv, HostType, Spawning
  <2>2. Command.kind = "spawn" /\ Command = evaluate_program(program, history)
    BY <2>1 DEF Spawning, Command
  <2> QED BY <2>1, <2>2 DEF WorkflowConstants
<1>5. /\ held' \in Records /\ held' # None /\ held'.kind = "spawned"
  BY <1>2, <1>4, RecordKinds
<1>6. Len(history) \in Nat /\ new \in Child /\ new.step = Len(history) /\ new.agent = Command.agent
  BY <1>4 DEF Child
<1>7. HostType'
  BY <1>1, <1>2, <1>5, <1>6 DEF HostType
<1>8. PositionInv'
  <2>1. /\ Spawning' /\ held' = AgentSpawned(Command'.agent)
        /\ [step |-> Len(history'), agent |-> Command'.agent] \in children'
    BY <1>2, <1>3, <1>4
  <2> QED BY <1>2, <2>1 DEF PositionInv
<1> HIDE DEF new
<1>9. ChildrenInv'
  <2>1. ASSUME NEW c \in children'
        PROVE  (\/ c.step + 1 \in 1..Len(history) /\ history[c.step + 1] = AgentSpawned(c.agent)
                \/ c.step = Len(history) /\ Spawning /\ c.agent = Command.agent)'
    <3>1. CASE c = new
      BY <1>3, <1>4, <1>6, <3>1
    <3>2. CASE c \in children
      BY <1>1, <1>3, <3>2 DEF ChildrenInv
    <3> QED BY <1>2, <3>1, <3>2
  <2>2. (\A i \in 1..Len(history) : history[i].kind = "spawned" =>
            [step |-> i - 1, agent |-> history[i].agent] \in children)'
    BY <1>1, <1>2 DEF ChildrenInv
  <2> QED BY <2>1, <2>2 DEF ChildrenInv
<1>10. EffectsInv'
  <2>1. (\A e \in DOMAIN effects : effects[e].step <= Len(history))'
    BY <1>1, <1>2 DEF EffectsInv
  <2>2. (\A i \in 1..Len(history) :
              history[i].kind = "tool" => LastCall(i - 1, history[i].output))'
    BY <1>1, <1>2 DEF EffectsInv, LastCall
  <2>3. held.kind # "tool" /\ held'.kind # "tool"
    BY <1>1, <1>2, <1>5, RecordKinds DEF HostType
  <2>4. (Len(effects) <= Cardinality(ToolsIn(history)) + faults
                       + (IF held.kind = "tool" THEN 1 ELSE 0))'
    BY <1>1, <1>2, <2>3 DEF EffectsInv
  <2> QED BY <2>1, <2>2, <2>4 DEF EffectsInv
<1> QED BY <1>7, <1>8, <1>9, <1>10 DEF HostInv

LEMMA CallStep ==
    ASSUME WorkflowConstants, history \in Seq(Records), HostInv, stand_in, history' = history
    PROVE  HostInv'
<1>1. HostType /\ PositionInv /\ ChildrenInv /\ EffectsInv
  BY DEF HostInv
<1>2. PICK output \in Outputs :
          /\ effects' = Append(effects, [step |-> Len(history), output |-> output])
          /\ held' = ToolRecord("counter", output)
  BY DEF stand_in
<1>3. pc = "tool" /\ pc' = "commit" /\ UNCHANGED <<mode, program, children, faults>>
  BY DEF stand_in
<1>4. Command' = Command /\ (Spawning' <=> Spawning) /\ (Calling' <=> Calling)
  BY <1>3, SameHistory
<1>5. output \in Text /\ held' \in Records /\ held' # None /\ held'.kind = "tool"
  BY <1>2, RecordKinds DEF WorkflowConstants
<1>6. /\ effects \in Seq(Call) /\ Len(history) \in Nat
      /\ effects' \in Seq(Call) /\ Len(effects') = Len(effects) + 1 /\ Len(effects) \in Nat
      /\ \A e \in DOMAIN effects' : \/ e \in DOMAIN effects /\ effects'[e] = effects[e]
                                    \/ effects'[e].step = Len(history)
      /\ LastCall(Len(history), output)'
      /\ \A m \in Nat : \A o : m # Len(history) /\ LastCall(m, o) => LastCall(m, o)'
  <2> DEFINE n == Len(history)
  <2>1. effects \in Seq(Call) /\ n \in Nat
    BY <1>1 DEF HostType
  <2>2. n' = n
    OBVIOUS
  <2>3. effects' = Append(effects, [step |-> n, output |-> output])
    BY <1>2
  <2> HIDE DEF n
  <2>4. /\ effects' \in Seq(Call) /\ Len(effects') = Len(effects) + 1 /\ Len(effects) \in Nat
        /\ \A e \in DOMAIN effects' : \/ e \in DOMAIN effects /\ effects'[e] = effects[e]
                                      \/ effects'[e].step = n
        /\ LastCall(n, output)'
        /\ \A m \in Nat : \A o : m # n /\ LastCall(m, o) => LastCall(m, o)'
    BY <1>5, <2>1, <2>2, <2>3, OneMoreCall
  <2> QED BY <2>1, <2>4 DEF n
<1>7. HostType'
  BY <1>1, <1>3, <1>5, <1>6 DEF HostType
<1>8. PositionInv'
  <2>1. Calling'
    BY <1>1, <1>3, <1>4 DEF PositionInv
  <2>2. (\E o \in Text : held = ToolRecord("counter", o) /\ LastCall(Len(history), o))'
    BY <1>2, <1>5, <1>6
  <2> QED BY <1>3, <2>1, <2>2 DEF PositionInv
<1>9. ChildrenInv'
  BY <1>1, <1>3, <1>4 DEF ChildrenInv
<1>10. EffectsInv'
  <2>1. (\A e \in DOMAIN effects : effects[e].step <= Len(history))'
    BY <1>1, <1>6 DEF EffectsInv
  <2>2. ASSUME NEW i \in 1..Len(history'), history'[i].kind = "tool"
        PROVE  LastCall(i - 1, history[i].output)'
    <3>1. i - 1 \in Nat /\ i - 1 # Len(history) /\ LastCall(i - 1, history[i].output)
      BY <1>1, <1>6, <2>2 DEF EffectsInv
    <3> QED BY <1>6, <3>1
  <2>3. held.kind # "tool"
    BY <1>1, <1>3, RecordKinds DEF HostType
  <2>4. (Len(effects) <= Cardinality(ToolsIn(history)) + faults
                       + (IF held.kind = "tool" THEN 1 ELSE 0))'
    <3> DEFINE bound == Cardinality(ToolsIn(history)) + faults
    <3>1. bound \in Nat
      <4>1. Cardinality(ToolsIn(history)) \in Nat /\ faults \in Nat
        <5>1. held' \in Records
          BY <1>5
        <5> QED BY <1>1, <5>1, OneMoreRecord DEF HostType
      <4> QED BY <4>1
    <3>2. Len(effects) <= bound
      BY <1>1, <2>3, <3>1, <1>6 DEF EffectsInv
    <3>3. bound' = bound
      BY <1>3
    <3> HIDE DEF bound
    <3>4. Len(effects') <= bound' + 1
      BY <1>6, <3>1, <3>2, <3>3
    <3> QED BY <1>5, <3>4 DEF bound
  <2> QED BY <2>1, <2>2, <2>4 DEF EffectsInv
<1> QED BY <1>7, <1>8, <1>9, <1>10 DEF HostInv

LEMMA CommitStep ==
    ASSUME WorkflowConstants, history \in Seq(Records), HostInv,
           commit, history' = Append(history, held)
    PROVE  HostInv'
<1> DEFINE L == Len(history)
<1>1. HostType /\ PositionInv /\ ChildrenInv /\ EffectsInv
  BY DEF HostInv
<1>2. /\ pc = "commit" /\ pc' = "ready" /\ held' = None
      /\ UNCHANGED <<mode, program, children, effects, faults>>
  BY DEF commit
<1>3. held \in Records
  BY <1>1, <1>2 DEF HostType
<1>4. /\ history' \in Seq(Records)
      /\ L \in Nat /\ Len(history') = L + 1
      /\ \A i \in 1..L : history'[i] = history[i]
      /\ history'[L + 1] = held
      /\ Cardinality(ToolsIn(history)) \in Nat
      /\ Cardinality(ToolsIn(history')) =
            Cardinality(ToolsIn(history)) + (IF held.kind = "tool" THEN 1 ELSE 0)
  <2>1. history \in Seq(Records)
    OBVIOUS
  <2> QED BY <1>3, <2>1, OneMoreRecord
<1>5. \/ /\ Spawning /\ held = AgentSpawned(Command.agent)
         /\ [step |-> L, agent |-> Command.agent] \in children
      \/ /\ Calling
         /\ \E output \in Text : held = ToolRecord("counter", output) /\ LastCall(L, output)
  BY <1>1, <1>2 DEF PositionInv
<1>6. Spawning => Command.agent \in Text
  <2>1. Spawning => program \in Programs
    BY <1>1 DEF HostType, Spawning
  <2>2. Spawning => Command.kind = "spawn" /\ Command = evaluate_program(program, history)
    BY DEF Spawning, Command
  <2> QED BY <2>1, <2>2 DEF WorkflowConstants
<1>7. Calling => ~Spawning
  BY DEF Calling, Spawning, Counter
<1> HIDE DEF L
<1>8. HostType'
  <2>1. held' \in Records \cup {None} /\ (pc' = "commit" <=> held' # None)
    BY <1>2
  <2> QED BY <1>1, <1>2, <2>1 DEF HostType
<1>9. PositionInv'
  BY <1>2 DEF PositionInv
<1>10. ChildrenInv'
  <2>1. ASSUME NEW c \in children
        PROVE  c.step + 1 \in 1..Len(history') /\ history'[c.step + 1] = AgentSpawned(c.agent)
    <3>1. CASE c.step + 1 \in 1..L /\ history[c.step + 1] = AgentSpawned(c.agent)
      BY <1>4, <3>1
    <3>2. CASE c.step = L /\ Spawning /\ c.agent = Command.agent
      <4>1. held = AgentSpawned(c.agent)
        BY <1>5, <1>7, <3>2
      <4> QED BY <1>4, <3>2, <4>1
    <3> QED BY <1>1, <3>1, <3>2 DEF ChildrenInv, L
  <2>2. ASSUME NEW i \in 1..Len(history'), history'[i].kind = "spawned"
        PROVE  [step |-> i - 1, agent |-> history'[i].agent] \in children
    <3>1. CASE i \in 1..L
      BY <1>1, <1>4, <2>2, <3>1 DEF ChildrenInv, L
    <3>2. CASE i = L + 1
      <4>1. history'[i] = held /\ i - 1 = L
        BY <1>4, <3>2
      <4>2. \A o \in Text : ToolRecord("counter", o).kind = "tool"
        BY RecordKinds
      <4>3. held = AgentSpawned(Command.agent) /\ Spawning
            /\ [step |-> L, agent |-> Command.agent] \in children
        BY <1>5, <2>2, <4>1, <4>2
      <4>4. held.agent = Command.agent
        BY <1>6, <4>3, RecordKinds
      <4> QED BY <4>1, <4>3, <4>4
    <3> QED BY <1>4, <3>1, <3>2
  <2> QED BY <1>2, <2>1, <2>2 DEF ChildrenInv
<1>11. EffectsInv'
  <2>1. (\A e \in DOMAIN effects : effects[e].step <= Len(history))'
    <3>1. ASSUME NEW e \in DOMAIN effects PROVE effects[e].step <= L + 1
      <4>1. effects[e].step \in Nat
        <5>1. effects \in Seq(Call)
          BY <1>1 DEF HostType
        <5>2. effects[e] \in Call
          BY <5>1
        <5> QED BY <5>2 DEF Call
      <4>2. effects[e].step <= L
        BY <1>1 DEF EffectsInv, L
      <4> QED BY <1>4, <4>1, <4>2
    <3> QED BY <1>2, <1>4, <3>1
  <2>3. ASSUME NEW i \in 1..Len(history'), history'[i].kind = "tool"
        PROVE  LastCall(i - 1, history[i].output)'
    <3>1. CASE i \in 1..L
      <4>1. history'[i] = history[i]
        BY <1>4, <3>1
      <4>2. LastCall(i - 1, history[i].output)
        BY <1>1, <2>3, <3>1, <4>1 DEF EffectsInv, L
      <4>3. LastCall(i - 1, history'[i].output)
        BY <4>1, <4>2
      <4> QED BY <1>2, <4>3 DEF LastCall
    <3>2. CASE i = L + 1
      <4>1. history'[i] = held /\ i - 1 = L
        BY <1>4, <3>2
      <4>2. Spawning => held.kind = "spawned" \/ held # AgentSpawned(Command.agent)
        BY <1>6, RecordKinds
      <4>3. PICK output \in Text : held = ToolRecord("counter", output) /\ LastCall(L, output)
        BY <1>5, <2>3, <4>1, <4>2
      <4>4. held.output = output
        BY <4>3, RecordKinds
      <4>5. LastCall(i - 1, held.output)
        BY <4>1, <4>3, <4>4
      <4> QED BY <1>2, <4>1, <4>5 DEF LastCall
    <3> QED BY <1>4, <3>1, <3>2
  <2>4. (Len(effects) <= Cardinality(ToolsIn(history)) + faults
                       + (IF held.kind = "tool" THEN 1 ELSE 0))'
    <3>1. Len(effects) <= Cardinality(ToolsIn(history)) + faults
                          + (IF held.kind = "tool" THEN 1 ELSE 0)
      BY <1>1 DEF EffectsInv
    <3>2. faults \in Nat /\ Len(effects) \in Nat
      BY <1>1 DEF HostType
    <3>3. held'.kind # "tool"
      BY <1>2, RecordKinds
    <3>4. Len(effects) <= Cardinality(ToolsIn(history')) + faults
      BY <1>4, <3>1, <3>2
    <3>5. Cardinality(ToolsIn(history')) \in Nat
      BY <1>4
    <3>6. Cardinality(ToolsIn(history')) + faults + 0 = Cardinality(ToolsIn(history')) + faults
      BY <3>2, <3>5
    <3>7. (IF held'.kind = "tool" THEN 1 ELSE 0) = 0
      BY <3>3
    <3> QED BY <1>2, <3>4, <3>6, <3>7
  <2> QED BY <2>1, <2>3, <2>4 DEF EffectsInv
<1> QED BY <1>8, <1>9, <1>10, <1>11 DEF HostInv

LEMMA HostStep ==
    ASSUME WorkflowConstants, FileInv, HostInv, [Next]_vars
    PROVE  FileInv' /\ HostInv' /\ HistoryKept /\ EndKept
<1>1. HostType /\ PositionInv /\ ChildrenInv /\ EffectsInv
  BY DEF HostInv
<1>2. pc = "commit" => held \in Records
  BY <1>1 DEF HostType
<1>3. pc # "commit" => held = None
  BY <1>1 DEF HostType
<1>4. /\ FileInv' /\ HistoryKept
      /\ history \in Seq(Records) /\ history' \in Seq(Records)
      /\ history' = history \/ (commit /\ history' = Append(history, held))
  <2>1. FrameBytesAssumption
    BY DEF WorkflowConstants
  <2> QED BY <1>2, <2>1, FileStep
<1>5. EndKept
  <2>1. CASE history' = history
    BY <2>1 DEF EndKept
  <2>2. CASE commit
    <3>1. Spawning \/ Calling
      BY <1>1, <2>2 DEF commit, PositionInv
    <3>2. ~(IF mode = "join" THEN Len(history) >= 2 ELSE Command.kind \in {"complete", "fail"})
      <4>1. CASE mode = "join"
        <5>1. Len(history) < 2 /\ Len(history) \in Nat
          BY <1>4, <3>1, <4>1 DEF Spawning, Calling
        <5> QED BY <4>1, <5>1
      <4>2. CASE mode = "replay"
        BY <3>1, <4>2 DEF Spawning, Calling, Counter
      <4> QED BY <1>1, <4>1, <4>2 DEF HostType
    <3> QED BY <3>2 DEF EndKept
  <2> QED BY <1>4, <2>1, <2>2
<1>6. CASE commit /\ history' = Append(history, held)
  BY <1>4, <1>5, <1>6, CommitStep
<1>7. ASSUME history' = history PROVE HostInv'
  <2>1. CASE start_child
    BY <1>4, <1>7, <2>1, SpawnStep
  <2>2. CASE stand_in
    BY <1>4, <1>7, <2>2, CallStep
  <2>3. CASE open \/ openRefused \/ writeStart \/ Rerun
    <3>1. /\ UNCHANGED <<mode, program, children, effects, held, faults>>
          /\ pc # "commit" /\ pc' \in {"start", "ready", "refused", "down"}
      BY <2>3 DEF open, openRefused, writeStart, Rerun
    <3> QED BY <1>3, <1>4, <1>7, <3>1, IdleStep
  <2>4. CASE replay
    <3>1. mode = "replay" /\ pc = "ready"
          /\ UNCHANGED <<mode, program, children, effects, held, faults>>
      BY <2>4 DEF replay
    <3>2. pc' = CASE Command.kind = "spawn" -> "spawn"
                  [] Command = Counter -> "tool"
                  [] OTHER -> "done"
      BY <2>4, Zenon DEF replay
    <3>3. Command = Counter => Command.kind # "spawn"
      BY DEF Counter
    <3>4. \/ Command.kind = "spawn" /\ pc' = "spawn"
          \/ Command = Counter /\ pc' = "tool"
          \/ pc' = "done"
      BY <3>2, <3>3
    <3>5. pc' \in {"spawn", "tool", "done"} /\ (pc' = "spawn" => Spawning) /\ (pc' = "tool" => Calling)
      BY <3>1, <3>4 DEF Spawning, Calling
    <3> QED BY <1>3, <1>4, <1>7, <3>1, <3>5, IdleStep
  <2>5. CASE join_all
    <3>1. /\ mode = "join" /\ pc = "ready"
          /\ UNCHANGED <<mode, program, children, effects, held, faults>>
          /\ pc' = IF Len(history) < 2 THEN "tool" ELSE "done"
      BY <2>5 DEF join_all
    <3>2. pc' \in {"tool", "done"} /\ (pc' = "tool" => Calling)
      BY <3>1 DEF Calling
    <3> QED BY <1>3, <1>4, <1>7, <3>1, <3>2, IdleStep
  <2>6. CASE start_childRefused
    <3>1. /\ pc = "spawn" /\ pc' = "ready" /\ faults' = faults + 1 /\ faults < MaxFaults
          /\ UNCHANGED <<mode, program, children, effects, held>>
      BY <2>6 DEF start_childRefused
    <3> QED BY <1>3, <1>4, <1>7, <3>1, IdleStep
  <2>7. CASE commitFailed \/ Kill
    <3>1. /\ pc' \in {"ready", "down"} /\ faults' = faults + 1 /\ faults < MaxFaults
          /\ held' = None /\ UNCHANGED <<mode, program, children, effects>>
      BY <2>7, Zenon DEF commitFailed, Kill
    <3> QED BY <1>4, <1>7, <3>1, IdleStep
  <2>8. CASE UNCHANGED vars
    <3>1. UNCHANGED <<mode, program, pc, held, children, effects, faults>>
      BY <2>8 DEF vars
    <3>2. Command' = Command /\ (Spawning' <=> Spawning) /\ (Calling' <=> Calling)
      BY <1>7, <3>1, SameHistory
    <3>3. HostType'
      BY <1>1, <3>1 DEF HostType
    <3>4. PositionInv'
      BY <1>1, <1>7, <3>1, <3>2 DEF PositionInv, LastCall
    <3>5. ChildrenInv'
      BY <1>1, <1>7, <3>1, <3>2 DEF ChildrenInv
    <3>6. EffectsInv'
      BY <1>1, <1>7, <3>1 DEF EffectsInv, LastCall
    <3> QED BY <3>3, <3>4, <3>5, <3>6 DEF HostInv
  <2>9. CASE commit
    <3>1. history' # Append(history, held)
      <4>1. held \in Records
        BY <1>2, <2>9 DEF commit
      <4>2. Len(Append(history, held)) = Len(history) + 1 /\ Len(history) \in Nat
        BY <1>4, <4>1, OneMoreRecord
      <4> QED BY <1>7, <4>2
    <3>2. commit => history' = Append(history, held)
      <4>1. pc = "commit" /\ append(held) /\ held \in Records
        BY <1>2, <2>9 DEF commit
      <4>2. Whole(file, history)
        BY <4>1 DEF FileInv
      <4> QED BY <4>1, <4>2, FileWritten DEF WorkflowConstants
    <3> QED BY <2>9, <3>1, <3>2
  <2> QED BY <2>1, <2>2, <2>3, <2>4, <2>5, <2>6, <2>7, <2>8, <2>9 DEF Next, Step
<1> QED BY <1>4, <1>5, <1>6, <1>7

(***************************************************************************)
(* The start                                                               *)
(***************************************************************************)
\* The elements of a set of places, counted from the first: every number up to
\* the size of the set is the rank of one of them.
Rank(T, j) == Cardinality(T \cap 1..j)

LEMMA Ranks ==
    ASSUME NEW L \in Nat, NEW T \in SUBSET (1..L)
    PROVE  /\ IsFiniteSet(T) /\ Cardinality(T) \in Nat
           /\ \A j \in T : Rank(T, j) \in 1..Cardinality(T)
           /\ \A j, k \in T : Rank(T, j) = Rank(T, k) => j = k
           /\ \A i \in 1..Cardinality(T) : \E j \in T : Rank(T, j) = i
<1> DEFINE n == Cardinality(T)
           f == [j \in T |-> Rank(T, j)]
<1>1. IsFiniteSet(T) /\ n \in Nat
  <2>1. IsFiniteSet(1..L)
    BY FS_Interval
  <2>2. IsFiniteSet(T)
    BY <2>1, FS_Subset
  <2> QED BY <2>2, FS_CardinalityType
<1>2. \A j \in T : Rank(T, j) \in 1..n
  <2> TAKE j \in T
  <2> DEFINE S == T \cap 1..j
  <2>1. IsFiniteSet(S) /\ Cardinality(S) <= n
    BY <1>1, FS_Subset
  <2>2. j \in S
    OBVIOUS
  <2>3. Cardinality(S) \in Nat /\ Cardinality(S) # 0
    BY <2>1, <2>2, FS_EmptySet, FS_CardinalityType
  <2> HIDE DEF S, n
  <2>4. Cardinality(S) \in 1..n
    BY <1>1, <2>1, <2>3
  <2> QED BY <2>4 DEF Rank, S
<1>3. ASSUME NEW j \in T, NEW k \in T, j < k PROVE Rank(T, j) # Rank(T, k)
  <2> DEFINE S == T \cap 1..k
             R == T \cap 1..j
  <2>1. IsFiniteSet(S)
    BY <1>1, FS_Subset
  <2>2. R \in SUBSET S /\ k \in S /\ k \notin R
    BY <1>3
  <2>3. R # S
    BY <2>2
  <2> HIDE DEF R, S
  <2>4. Cardinality(R) # Cardinality(S)
    BY <2>1, <2>2, <2>3, FS_Subset
  <2> QED BY <2>4 DEF Rank, R, S
<1>4. \A j, k \in T : Rank(T, j) = Rank(T, k) => j = k
  <2> TAKE j, k \in T
  <2>1. j < k \/ k < j \/ j = k
    OBVIOUS
  <2> QED BY <1>3, <2>1
<1>5. f \in Injection(T, 1..n)
  BY <1>2, <1>4 DEF Injection, IsInjective
<1>6. IsFiniteSet(1..n) /\ Cardinality(1..n) = n
  <2> HIDE DEF n
  <2> QED BY <1>1, FS_Interval
<1>7. f \in Surjection(T, 1..n)
  <2> HIDE DEF f
  <2>1. Cardinality(T) = Cardinality(1..n)
    BY <1>6
  <2> QED BY <1>5, <1>6, <2>1, FS_Injection
<1>8. \A i \in 1..n : \E j \in T : f[j] = i
  <2> HIDE DEF n, f
  <2> QED BY <1>7 DEF Surjection
<1> QED BY <1>1, <1>2, <1>4, <1>8

LEMMA InitFile ==
    ASSUME WorkflowConstants, Init
    PROVE  FileInv /\ history \in Seq(Records)
<1>0. FrameBytesAssumption /\ 0 \in 0..(FrameBytes - 1)
  BY DEF WorkflowConstants, FrameBytesAssumption
<1>1. pc = "down" /\ file \in {<<>>, Foreign} \cup {FileOf(old) : old \in OldRecords}
  BY DEF Init
<1>2. CASE file = <<>>
  <2>1. NoStart(<<>>)
    BY <1>0, Starts
  <2>2. FileInv
    BY <1>1, <1>2, <2>1 DEF FileInv
  <2> QED BY <1>0, <2>2, FileSays
<1>3. CASE file = Foreign
  <2>1. FileInv
    BY <1>1, <1>3 DEF FileInv
  <2> QED BY <1>0, <2>1, FileSays
<1>4. CASE file \in {FileOf(old) : old \in OldRecords}
  <2>1. PICK old \in OldRecords : file = FileOf(old)
    BY <1>4
  <2>2. old \in Seq(Records)
    BY DEF WorkflowConstants
  <2>3. Whole(FileOf(old), old)
    BY <1>0, <2>2, FileOfIsWhole
  <2>4. Begins(file, old)
    BY <2>1, <2>3 DEF Whole
  <2>5. history = old
    BY <1>0, <2>4, Reading DEF history
  <2>6. FileInv
    BY <1>1, <2>4, <2>5 DEF FileInv
  <2> QED BY <2>2, <2>5, <2>6
<1> QED BY <1>1, <1>2, <1>3, <1>4

LEMMA InitHost ==
    ASSUME WorkflowConstants, Init
    PROVE  FileInv /\ HostInv
<1> DEFINE L == Len(history)
           T == ToolsIn(history)
           n == Cardinality(T)
           at(i) == CHOOSE j \in T : Rank(T, j) = i
<1>1. FileInv /\ history \in Seq(Records)
  BY InitFile
<1>2. L \in Nat /\ DOMAIN history = 1..L
  BY <1>1
<1>3. T \in SUBSET (1..L)
  BY <1>2 DEF ToolsIn
<1>4. /\ mode \in {"replay", "join"} /\ program \in (IF mode = "replay" THEN Programs ELSE {Counter})
      /\ pc = "down" /\ held = None /\ faults = 0
      /\ children = {[step |-> i - 1, agent |-> history[i].agent] :
                        i \in {j \in 1..L : history[j].kind = "spawned"}}
  <2>1. /\ mode \in {"replay", "join"} /\ program \in (IF mode = "replay" THEN Programs ELSE {Counter})
        /\ pc = "down" /\ held = None /\ faults = 0
        /\ children = {[step |-> i - 1, agent |-> history[i].agent] :
                          i \in {j \in DOMAIN history : history[j].kind = "spawned"}}
    BY DEF Init
  <2> QED BY <1>2, <2>1
<1>5. effects = [i \in 1..n |-> [step |-> at(i) - 1, output |-> history[at(i)].output]]
  <2>1. effects = [i \in 1..Cardinality(ToolsIn(history)) |->
                        LET place == CHOOSE j \in ToolsIn(history) :
                                        Cardinality(ToolsIn(history) \cap 1..j) = i
                        IN  [step |-> place - 1, output |-> history[place].output]]
    BY Zenon DEF Init
  <2> QED BY <2>1 DEF Rank
<1>6. \A i \in 1..L : /\ history[i].kind = "tool" => history[i].output \in Text
                      /\ history[i].kind = "spawned" =>
                            /\ history[i].agent \in Text
                            /\ history[i] = AgentSpawned(history[i].agent)
  <2> TAKE i \in 1..L
  <2>1. history[i] \in Records
    BY <1>1
  <2> QED BY <2>1, RecordKinds
<1>7. \A i \in T : history[i].kind = "tool" /\ i \in 1..L
  BY <1>2 DEF ToolsIn
<1> HIDE DEF L, T
<1>8. /\ IsFiniteSet(T) /\ n \in Nat
      /\ \A j \in T : Rank(T, j) \in 1..n
      /\ \A j, k \in T : Rank(T, j) = Rank(T, k) => j = k
      /\ \A i \in 1..n : \E j \in T : Rank(T, j) = i
  BY <1>2, <1>3, Ranks
<1> HIDE DEF n
<1>9. \A i \in 1..n : at(i) \in T /\ Rank(T, at(i)) = i
  <2> TAKE i \in 1..n
  <2>1. \E j \in T : Rank(T, j) = i
    BY <1>8
  <2> QED BY <2>1
<1> HIDE DEF at
<1>10. children \subseteq Child
  <2>1. ASSUME NEW i \in 1..L, history[i].kind = "spawned"
        PROVE  [step |-> i - 1, agent |-> history[i].agent] \in Child
    <3>1. i - 1 \in Nat /\ history[i].agent \in Text
      BY <1>2, <1>6, <2>1
    <3> QED BY <3>1 DEF Child
  <2> QED BY <1>4, <2>1 DEF L
<1>11. /\ effects \in Seq(Call) /\ Len(effects) = n /\ DOMAIN effects = 1..n
       /\ \A i \in 1..n : effects[i].step = at(i) - 1 /\ effects[i].output = history[at(i)].output
                          /\ at(i) \in 1..L
  <2>1. ASSUME NEW i \in 1..n
        PROVE  /\ effects[i] \in Call
               /\ effects[i].step = at(i) - 1 /\ effects[i].output = history[at(i)].output
               /\ at(i) \in 1..L
    <3>1. at(i) \in 1..L /\ history[at(i)].output \in Text
      BY <1>6, <1>7, <1>9
    <3>2. effects[i] = [step |-> at(i) - 1, output |-> history[at(i)].output]
      BY <1>5
    <3>3. at(i) - 1 \in Nat
      BY <1>2, <3>1
    <3> QED BY <3>1, <3>2, <3>3 DEF Call
  <2>2. effects = [i \in 1..n |-> effects[i]]
    BY <1>5
  <2>3. effects \in Seq(Call) /\ Len(effects) = n
    BY <1>8, <2>1, <2>2, SequenceIs
  <2> QED BY <2>1, <2>2, <2>3
<1>12. HostType
  <2>1. MaxFaults \in Nat
    BY DEF WorkflowConstants, WorkflowAssumption
  <2> QED BY <1>4, <1>10, <1>11, <2>1 DEF HostType
<1>13. PositionInv
  BY <1>4 DEF PositionInv
<1>14. ChildrenInv
  <2>1. ASSUME NEW c \in children
        PROVE  c.step + 1 \in 1..L /\ history[c.step + 1] = AgentSpawned(c.agent)
    <3>1. PICK i \in 1..L : /\ history[i].kind = "spawned"
                            /\ c = [step |-> i - 1, agent |-> history[i].agent]
      BY <1>4
    <3>2. c.step + 1 = i /\ c.agent = history[i].agent
      BY <1>2, <3>1
    <3> QED BY <1>6, <3>1, <3>2
  <2>2. \A i \in 1..L : history[i].kind = "spawned" =>
            [step |-> i - 1, agent |-> history[i].agent] \in children
    BY <1>4
  <2> QED BY <2>1, <2>2 DEF ChildrenInv, L
<1>15. EffectsInv
  <2>1. \A e \in DOMAIN effects : effects[e].step <= L
    <3>1. ASSUME NEW e \in 1..n PROVE effects[e].step <= L
      <4>1. at(e) \in 1..L /\ effects[e].step = at(e) - 1
        BY <1>11
      <4> QED BY <1>2, <4>1
    <3> QED BY <1>11, <3>1
  <2>2. ASSUME NEW i \in 1..L, history[i].kind = "tool"
        PROVE  LastCall(i - 1, history[i].output)
    <3> DEFINE e == Rank(T, i)
    <3>1. i \in T
      BY <1>2, <2>2 DEF T, ToolsIn, L
    <3>2. e \in 1..n /\ at(e) = i
      BY <1>8, <1>9, <3>1
    <3> HIDE DEF e
    <3>3. effects[e].step = i - 1 /\ effects[e].output = history[i].output
      BY <1>11, <3>2
    <3>4. ASSUME NEW d \in 1..n, effects[d].step = i - 1 PROVE d <= e
      <4>1. at(d) - 1 = i - 1 /\ at(d) \in 1..L
        BY <1>11, <3>4
      <4>2. at(d) = i
        BY <1>2, <4>1
      <4>3. d = e
        BY <1>9, <4>2 DEF e
      <4> QED BY <1>8, <3>2, <4>3
    <3> QED BY <1>11, <3>2, <3>3, <3>4 DEF LastCall
  <2>3. Len(effects) <= Cardinality(ToolsIn(history)) + faults
                        + (IF held.kind = "tool" THEN 1 ELSE 0)
    <3>1. held.kind # "tool"
      BY <1>4, RecordKinds
    <3>2. (IF held.kind = "tool" THEN 1 ELSE 0) = 0
      BY <3>1
    <3>3. Cardinality(ToolsIn(history)) = n
      BY DEF n, T
    <3> QED BY <1>4, <1>8, <1>11, <3>2, <3>3
  <2> QED BY <2>1, <2>2, <2>3 DEF EffectsInv, L
<1> QED BY <1>1, <1>12, <1>13, <1>14, <1>15 DEF HostInv

(***************************************************************************)
(* The results                                                             *)
(***************************************************************************)
LEMMA HostInvariant ==
    ASSUME WorkflowConstants
    PROVE  Spec => [](FileInv /\ HostInv)
<1>1. Init => FileInv /\ HostInv
  BY InitHost
<1>2. (FileInv /\ HostInv) /\ [Next]_vars => (FileInv /\ HostInv)'
  BY HostStep
<1> QED BY <1>1, <1>2, PTL DEF Spec

\* Journal::open, commit and the loops of host.rs: wherever a process is killed
\* and whichever writes fail part way, the file reads afterwards as every record
\* committed before it, in its place; a file that is not a journal is not
\* written; and once the workflow has come to its end nothing is added.
THEOREM JournalIsKept == WorkflowConstants => (Spec => [][HistoryKept /\ EndKept]_vars)
<1> SUFFICES ASSUME WorkflowConstants PROVE Spec => [][HistoryKept /\ EndKept]_vars
  OBVIOUS
<1>1. (FileInv /\ HostInv) /\ [Next]_vars => [HistoryKept /\ EndKept]_vars
  BY HostStep
<1> QED BY <1>1, HostInvariant, PTL DEF Spec

\* start_child: a spawn of the workflow starts one child, however often the
\* process is killed between asking for it and recording it.
THEOREM SpawnsOneChild == WorkflowConstants => (Spec => []OneChildPerSpawn)
<1> SUFFICES ASSUME WorkflowConstants PROVE Spec => []OneChildPerSpawn
  OBVIOUS
<1>1. ASSUME FileInv, HostInv PROVE OneChildPerSpawn
  <2>1. history \in Seq(Records) /\ ChildrenInv /\ children \subseteq Child
    <3>1. FrameBytesAssumption
      BY DEF WorkflowConstants
    <3> QED BY <1>1, <3>1, FileSays DEF HostInv, HostType
  <2>2. Len(history) \in Nat /\ DOMAIN history = 1..Len(history)
    BY <2>1
  <2>3. \A c \in children : c.step \in Nat /\ c.agent \in Text
                            /\ c = [step |-> c.step, agent |-> c.agent]
    BY <2>1 DEF Child
  <2>4. \A i \in DOMAIN history : history[i].kind = "spawned" =>
            [step |-> i - 1, agent |-> history[i].agent] \in children
    BY <2>1, <2>2 DEF ChildrenInv
  <2>5. \A c \in children :
            IF c.step < Len(history) THEN history[c.step + 1] = AgentSpawned(c.agent)
            ELSE c.step = Len(history)
    BY <2>1, <2>2, <2>3 DEF ChildrenInv
  <2>6. ASSUME NEW c \in children, NEW d \in children, c.step = d.step PROVE c = d
    <3>1. c.agent = d.agent
      <4>1. CASE c.step < Len(history)
        <5>1. AgentSpawned(c.agent) = AgentSpawned(d.agent)
          BY <2>5, <2>6, <4>1
        <5> QED BY <5>1 DEF AgentSpawned
      <4>2. CASE ~(c.step < Len(history))
        <5>1. ~(c.step + 1 \in 1..Len(history)) /\ ~(d.step + 1 \in 1..Len(history))
          BY <2>2, <2>3, <2>6, <4>2
        <5> QED BY <2>1, <5>1 DEF ChildrenInv
      <4> QED BY <4>1, <4>2
    <3> QED BY <2>3, <2>6, <3>1
  <2> QED BY <2>4, <2>5, <2>6 DEF OneChildPerSpawn
<1> QED BY <1>1, HostInvariant, PTL

\* host.rs replay, stand_in: what the journal says a tool returned is what the
\* last call made for that record returned, and a tool is called again for a
\* record only when a fault came between the call and its record.
THEOREM OutputsArePerformed == WorkflowConstants => (Spec => []RecordedWasPerformed)
<1> SUFFICES ASSUME WorkflowConstants PROVE Spec => []RecordedWasPerformed
  OBVIOUS
<1>1. ASSUME FileInv, HostInv PROVE RecordedWasPerformed
  <2>1. history \in Seq(Records) /\ EffectsInv /\ effects \in Seq(Call)
    <3>1. FrameBytesAssumption
      BY DEF WorkflowConstants
    <3> QED BY <1>1, <3>1, FileSays DEF HostInv, HostType
  <2>2. DOMAIN history = 1..Len(history) /\ DOMAIN effects \subseteq Nat
    BY <2>1
  <2>3. ASSUME NEW i \in DOMAIN history, history[i].kind = "tool"
        PROVE  LET calls == {e \in DOMAIN effects : effects[e].step = i - 1}
               IN  calls # {} /\ effects[Max(calls)].output = history[i].output
    <3> DEFINE calls == {e \in DOMAIN effects : effects[e].step = i - 1}
    <3>1. LastCall(i - 1, history[i].output)
      BY <2>1, <2>2, <2>3 DEF EffectsInv
    <3>2. PICK e \in DOMAIN effects :
              /\ effects[e].step = i - 1 /\ effects[e].output = history[i].output
              /\ \A d \in DOMAIN effects : effects[d].step = i - 1 => d <= e
      BY <3>1 DEF LastCall
    <3>3. e \in calls /\ calls \subseteq Nat /\ \A d \in calls : d <= e
      BY <2>2, <3>2
    <3> HIDE DEF calls
    <3>4. Max(calls) = e
      <4>1. \A x \in calls : (\A y \in calls : x >= y) => x = e
        BY <3>3
      <4>2. e \in calls /\ \A y \in calls : e >= y
        BY <3>3
      <4> QED BY <4>1, <4>2 DEF Max
    <3>5. calls # {} /\ effects[Max(calls)].output = history[i].output
      BY <3>2, <3>3, <3>4
    <3> QED BY <3>5 DEF calls
  <2> QED BY <2>1, <2>3 DEF EffectsInv, RecordedWasPerformed
<1> QED BY <1>1, HostInvariant, PTL

(***************************************************************************)
(* The compile of a Bend workflow                                          *)
(***************************************************************************)
Reader == [got : Nat, at : {"reading", "eof", "over"}]

\* What the reader of a pipe kept is all that left it; what it did not keep, it cut
\* at the limit.
PipesOk ==
    /\ reader \in [Compile!Pipes -> Reader]
    /\ pipe \in [Compile!Pipes -> Nat] /\ sent \in [Compile!Pipes -> Nat]
    /\ \A p \in Compile!Pipes :
          /\ reader[p].got <= Limit
          /\ reader[p].at = "over" => sent[p] > Limit
          /\ reader[p].at # "over" => reader[p].got + pipe[p] = sent[p]
          /\ reader[p].at = "eof" => pipe[p] = 0

\* The flag is raised by a reader that cut its pipe, and whoever gives a run up for
\* it has seen it; a run that is let past has two readers at the end of their pipes.
FlagOk ==
    /\ flag \/ where \in {"killLimit", "joinLimit"} => Compile!Overrun
    /\ where = "next" \/ result = "program" =>
          \A p \in Compile!Pipes : reader[p].at = "eof"
    /\ result = "limit" /\ child # "none" => Compile!Overrun

\* Where the compiling thread stands, what there is of a run and of its directory.
GroupOk ==
    /\ where \in {"stage", "next", "poll", "wait", "killLimit", "killTimeout", "joinLimit",
               "joinTimeout", "join", "returned"}
    /\ phase \in 1..3
    /\ (where = "returned") <=> (result # "none")
    /\ where = "stage" => child = "none"
    /\ where \in {"poll", "wait", "killLimit", "killTimeout"} => child \in {"running", "zombie"}
    /\ where \in {"next", "join", "joinLimit", "joinTimeout"} => child = "reaped"
    /\ where = "returned" /\ result # "unwaited" => child \in {"none", "reaped"}
    /\ where \notin {"stage", "returned"} => dir
    /\ where = "returned" => ~dir

\* Bend waits for the processes it starts.
ForksOk == fork => child = "running"

CompileInv == PipesOk /\ FlagOk /\ GroupOk

CompileConstants == Compile!CompileAssumption

\* A step of one pipe: what it becomes, and the other.
LEMMA OtherPipe ==
    ASSUME PipesOk, NEW p \in Compile!Pipes, NEW r \in Reader, NEW b \in Nat, NEW s \in Nat,
           reader' = [reader EXCEPT ![p] = r],
           pipe' = [pipe EXCEPT ![p] = b],
           sent' = [sent EXCEPT ![p] = s],
           r.got <= Limit,
           r.at = "over" => s > Limit,
           r.at # "over" => r.got + b = s,
           r.at = "eof" => b = 0
    PROVE  /\ PipesOk'
           /\ reader'[p] = r /\ \A q \in Compile!Pipes \ {p} : reader'[q] = reader[q]
BY DEF PipesOk

\* A step that leaves the pipes and their readers alone.
LEMMA PipesStay ==
    ASSUME PipesOk, UNCHANGED <<reader, pipe, sent>>
    PROVE  PipesOk' /\ (Compile!Overrun' <=> Compile!Overrun)
BY DEF PipesOk, Compile!Overrun

\* read_capped: what is there is kept, or the pipe is cut.
LEMMA ReadKeeps ==
    ASSUME CompileConstants, CompileInv, NEW p \in Compile!Pipes, Compile!read_capped(p)
    PROVE  CompileInv'
<1> DEFINE room == Limit - reader[p].got
           r == IF pipe[p] > room THEN [got |-> reader[p].got + room, at |-> "over"]
                ELSE [got |-> reader[p].got + pipe[p], at |-> "reading"]
<1>1. /\ PipesOk /\ FlagOk /\ GroupOk /\ Limit \in Nat
      /\ reader[p] \in Reader /\ pipe[p] \in Nat /\ sent[p] \in Nat
      /\ reader[p].got \in Nat /\ reader[p].got <= Limit
  BY DEF CompileInv, PipesOk, CompileConstants, Compile!CompileAssumption, Reader
<1>2. /\ reader[p].at = "reading" /\ pipe[p] > 0
      /\ pipe' = [pipe EXCEPT ![p] = 0] /\ sent' = sent
      /\ UNCHANGED <<where, phase, result, dir, child, fork>>
  BY DEF Compile!read_capped, Compile!main, Compile!group
<1>3. reader[p].got + pipe[p] = sent[p]
  BY <1>1, <1>2 DEF PipesOk
<1>4. reader[p] = [got |-> reader[p].got, at |-> "reading"]
  BY <1>1, <1>2 DEF Reader
<1>5. reader' = [reader EXCEPT ![p] = r] /\ (flag' => flag \/ pipe[p] > room)
  <2>1. CASE pipe[p] > room
    <3>1. /\ reader' = [reader EXCEPT ![p] = [got |-> reader[p].got + room, at |-> "over"]]
          /\ flag' = TRUE
      BY <2>1, <1>1 DEF Compile!read_capped, Compile!room
    <3> QED BY <2>1, <3>1
  <2>2. CASE ~(pipe[p] > room)
    <3>1. /\ reader' = [reader EXCEPT ![p] = [reader[p] EXCEPT !.got = reader[p].got + pipe[p]]]
          /\ flag' = flag
      BY <2>2, <1>1 DEF Compile!read_capped, Compile!room
    <3>2. [reader[p] EXCEPT !.got = reader[p].got + pipe[p]]
             = [got |-> reader[p].got + pipe[p], at |-> "reading"]
      BY <1>4
    <3> QED BY <2>2, <3>1, <3>2
  <2> QED BY <2>1, <2>2
<1>6. r \in Reader /\ r.got <= Limit
  BY <1>1 DEF Reader
<1>7. /\ r.at = "over" => sent[p] > Limit
      /\ r.at # "over" => r.got + 0 = sent[p]
      /\ r.at \in {"over", "reading"} /\ (r.at = "over" <=> pipe[p] > room)
  BY <1>1, <1>3
<1>8. sent' = [sent EXCEPT ![p] = sent[p]]
  BY <1>1, <1>2 DEF PipesOk
<1> HIDE DEF r, room
<1>9. PipesOk' /\ reader'[p] = r /\ \A q \in Compile!Pipes \ {p} : reader'[q] = reader[q]
  <2> DEFINE s == sent[p]
             b == 0
  <2>1. b \in Nat /\ s \in Nat /\ sent' = [sent EXCEPT ![p] = s] /\ pipe' = [pipe EXCEPT ![p] = b]
    BY <1>1, <1>2, <1>8
  <2>2. /\ r.at = "over" => s > Limit
        /\ r.at # "over" => r.got + b = s
        /\ r.at = "eof" => b = 0
    BY <1>7
  <2> HIDE DEF s, b
  <2> QED BY <1>1, <1>5, <1>6, <2>1, <2>2, OtherPipe
<1>10. Compile!Overrun \/ r.at = "over" => Compile!Overrun'
  BY <1>2, <1>9 DEF Compile!Overrun
<1>11. FlagOk'
  BY <1>1, <1>2, <1>5, <1>7, <1>9, <1>10 DEF FlagOk
<1>12. GroupOk'
  BY <1>1, <1>2 DEF GroupOk
<1> QED BY <1>9, <1>11, <1>12 DEF CompileInv

\* endOfPipe: the reader has all that was written.
LEMMA EndKeeps ==
    ASSUME CompileConstants, CompileInv, NEW p \in Compile!Pipes, Compile!endOfPipe(p)
    PROVE  CompileInv'
<1> DEFINE r == [got |-> reader[p].got, at |-> "eof"]
           s == sent[p]
           b == 0
<1>1. /\ PipesOk /\ FlagOk /\ GroupOk
      /\ reader[p] \in Reader /\ pipe[p] \in Nat /\ s \in Nat /\ b \in Nat
      /\ reader[p].got \in Nat /\ reader[p].got <= Limit
  BY DEF CompileInv, PipesOk, Reader
<1>2. /\ reader[p].at = "reading" /\ pipe[p] = 0
      /\ reader' = [reader EXCEPT ![p] = [reader[p] EXCEPT !.at = "eof"]]
      /\ pipe' = pipe /\ sent' = sent
      /\ UNCHANGED <<where, phase, result, dir, child, fork, flag>>
  BY <1>1 DEF Compile!endOfPipe, Compile!main, Compile!group
<1>3. reader[p].got + pipe[p] = s
  BY <1>1, <1>2 DEF PipesOk
<1>4. reader' = [reader EXCEPT ![p] = r] /\ r \in Reader
  <2>1. reader[p] = [got |-> reader[p].got, at |-> "reading"]
    BY <1>1, <1>2 DEF Reader
  <2>2. [reader[p] EXCEPT !.at = "eof"] = r
    BY <2>1
  <2> QED BY <1>1, <1>2, <2>2 DEF Reader
<1>5. sent' = [sent EXCEPT ![p] = s] /\ pipe' = [pipe EXCEPT ![p] = b]
  BY <1>1, <1>2 DEF PipesOk
<1>6. /\ r.got <= Limit /\ r.at = "eof" /\ r.got + b = s /\ b = 0
  BY <1>1, <1>2, <1>3
<1> HIDE DEF r, s, b
<1>7. PipesOk' /\ reader'[p] = r /\ \A q \in Compile!Pipes \ {p} : reader'[q] = reader[q]
  <2>1. /\ r.at = "over" => s > Limit
        /\ r.at # "over" => r.got + b = s
        /\ r.at = "eof" => b = 0
    BY <1>6
  <2> QED BY <1>1, <1>4, <1>5, <1>6, <2>1, OtherPipe
<1>8. Compile!Overrun => Compile!Overrun'
  BY <1>2, <1>7 DEF Compile!Overrun
<1>9. FlagOk'
  BY <1>1, <1>2, <1>6, <1>7, <1>8 DEF FlagOk
<1>10. GroupOk'
  BY <1>1, <1>2 DEF GroupOk
<1> QED BY <1>7, <1>9, <1>10 DEF CompileInv

\* A byte more in a pipe whose reader still reads.
LEMMA WriteKeeps ==
    ASSUME CompileConstants, CompileInv, NEW p \in Compile!Pipes, Compile!Write(p)
    PROVE  CompileInv'
<1> DEFINE r == reader[p]
           s == sent[p] + 1
           b == pipe[p] + 1
<1>1. /\ PipesOk /\ FlagOk /\ GroupOk
      /\ r \in Reader /\ pipe[p] \in Nat /\ sent[p] \in Nat /\ s \in Nat /\ b \in Nat
      /\ r.got \in Nat /\ r.got <= Limit
  BY DEF CompileInv, PipesOk, Reader
<1>2. /\ r.at = "reading" /\ reader' = reader
      /\ pipe' = [pipe EXCEPT ![p] = b] /\ sent' = [sent EXCEPT ![p] = s]
      /\ UNCHANGED <<where, phase, result, dir, child, fork, flag>>
  BY <1>1 DEF Compile!Write, Compile!main
<1>3. r.got + pipe[p] = sent[p]
  BY <1>1, <1>2 DEF PipesOk
<1>4. r.got + b = s /\ reader' = [reader EXCEPT ![p] = r]
  BY <1>1, <1>2, <1>3 DEF PipesOk
<1> HIDE DEF r, s, b
<1>5. PipesOk'
  <2>1. /\ r.at = "over" => s > Limit
        /\ r.at # "over" => r.got + b = s
        /\ r.at = "eof" => b = 0
    BY <1>2, <1>4
  <2> QED BY <1>1, <1>2, <1>4, <2>1, OtherPipe
<1>6. Compile!Overrun' <=> Compile!Overrun
  BY <1>2 DEF Compile!Overrun
<1>7. FlagOk'
  BY <1>1, <1>2, <1>6 DEF FlagOk
<1>8. GroupOk'
  BY <1>1, <1>2 DEF GroupOk
<1> QED BY <1>5, <1>7, <1>8 DEF CompileInv

\* A run begins with nothing read and nothing written.
LEMMA SpawnKeeps ==
    ASSUME CompileConstants, CompileInv, Compile!spawn
    PROVE  CompileInv'
<1>1. /\ FlagOk /\ GroupOk /\ Limit \in Nat
  BY DEF CompileInv, CompileConstants, Compile!CompileAssumption
<1>2. /\ where \in {"stage", "next"} /\ (where = "stage" => dir)
      /\ where' = "poll" /\ child' = "running"
      /\ pipe' = [p \in Compile!Pipes |-> 0] /\ sent' = [p \in Compile!Pipes |-> 0]
      /\ reader' = [p \in Compile!Pipes |-> [got |-> 0, at |-> "reading"]]
      /\ ~flag' /\ UNCHANGED <<dir, phase, result>>
  BY DEF Compile!spawn, Compile!Fresh
<1>3. PipesOk'
  BY <1>1, <1>2 DEF PipesOk, Reader
<1>4. result = "none"
  BY <1>1, <1>2 DEF GroupOk
<1>5. FlagOk'
  BY <1>2, <1>4 DEF FlagOk
<1>6. GroupOk'
  BY <1>1, <1>2, <1>4 DEF GroupOk
<1> QED BY <1>3, <1>5, <1>6 DEF CompileInv

\* The other steps leave the pipes alone.
LEMMA MainKeeps ==
    ASSUME CompileConstants, CompileInv,
           \/ Compile!create_private_dir \/ Compile!stageFile \/ Compile!spawnFailed
           \/ Compile!pollFlag \/ Compile!try_wait \/ Compile!kill_group
           \/ Compile!joinKilled \/ Compile!join_reader
    PROVE  CompileInv'
<1>1. PipesOk /\ FlagOk /\ GroupOk
  BY DEF CompileInv
<1>2. UNCHANGED <<reader, pipe, sent, flag>>
  BY DEF Compile!create_private_dir, Compile!stageFile, Compile!spawnFailed, Compile!pollFlag,
         Compile!try_wait, Compile!kill_group, Compile!joinKilled, Compile!join_reader
<1>3. PipesOk' /\ (Compile!Overrun' <=> Compile!Overrun)
  BY <1>1, <1>2, PipesStay
<1>4. CASE Compile!create_private_dir \/ Compile!stageFile \/ Compile!spawnFailed
  <2>1. /\ where \in {"stage", "next"} /\ result = "none" /\ (where = "stage" => child = "none")
        /\ (where = "next" => child = "reaped") /\ UNCHANGED <<child, phase>>
    BY <1>1, <1>4 DEF GroupOk, Compile!create_private_dir, Compile!stageFile, Compile!spawnFailed
  <2>2. \/ where = "stage" /\ where' = where /\ result' = result
        \/ /\ where' = "returned" /\ dir' = FALSE
           /\ result' \in {"setup", "limit", "encoding"} /\ (result' = "limit" => where = "stage")
    BY <1>4 DEF Compile!create_private_dir, Compile!stageFile, Compile!spawnFailed,
                Compile!Return, Compile!read_source, Compile!write_new
  <2>3. FlagOk'
    BY <1>1, <1>2, <1>3, <2>1, <2>2 DEF FlagOk
  <2>4. GroupOk'
    BY <1>1, <2>1, <2>2 DEF GroupOk
  <2> QED BY <1>3, <2>3, <2>4 DEF CompileInv
<1>5. CASE Compile!pollFlag \/ Compile!try_wait \/ Compile!kill_group
  <2>1. where \in {"poll", "wait", "killLimit", "killTimeout"} /\ result = "none"
        /\ UNCHANGED phase
    BY <1>1, <1>5 DEF GroupOk, Compile!pollFlag, Compile!try_wait, Compile!kill_group
  <2>2. \/ /\ UNCHANGED <<dir, result>>
           /\ \/ where' \in {"poll", "wait", "killTimeout"} /\ UNCHANGED child
              \/ where' = "killLimit" /\ flag /\ UNCHANGED child
              \/ where' \in {"join", "joinTimeout"} /\ child' = "reaped"
              \/ where' = "joinLimit" /\ where = "killLimit" /\ child' = "reaped"
        \/ where' = "returned" /\ result' = "unwaited" /\ dir' = FALSE /\ UNCHANGED child
    BY <1>5, <2>1 DEF Compile!pollFlag, Compile!try_wait, Compile!waitFailed, Compile!Return,
                      Compile!kill_group
  <2>3. FlagOk'
    BY <1>1, <1>2, <1>3, <2>1, <2>2 DEF FlagOk
  <2>4. GroupOk'
    BY <1>1, <2>1, <2>2 DEF GroupOk
  <2> QED BY <1>3, <2>3, <2>4 DEF CompileInv
<1>6. CASE Compile!joinKilled
  <2>1. /\ where \in {"joinLimit", "joinTimeout"} /\ where' = "returned" /\ dir' = FALSE
        /\ result' = (IF where = "joinLimit" THEN "limit" ELSE "timeout")
        /\ UNCHANGED <<child, phase>>
    BY <1>6 DEF Compile!joinKilled, Compile!Return
  <2>2. FlagOk'
    BY <1>1, <1>2, <1>3, <2>1 DEF FlagOk
  <2>3. GroupOk'
    BY <1>1, <2>1 DEF GroupOk
  <2> QED BY <1>3, <2>2, <2>3 DEF CompileInv
<1>7. CASE Compile!join_reader
  <2>1. /\ where = "join" /\ Compile!Joined /\ UNCHANGED child
        /\ result = "none" /\ child = "reaped"
    BY <1>1, <1>7 DEF Compile!join_reader, GroupOk
  <2>2. /\ phase' \in 1..3
        /\ \/ Compile!Overrun /\ where' = "returned" /\ result' = "limit" /\ dir' = FALSE
           \/ /\ ~Compile!Overrun /\ where' = "returned" /\ dir' = FALSE
              /\ result' \in {"version", "proof", "encoding", "program"}
           \/ ~Compile!Overrun /\ where' = "next" /\ UNCHANGED <<dir, result>>
    <3>1. Compile!Wrong \in {"version", "proof", "encoding"} /\ phase \in 1..3
      <4>1. phase = 1 \/ phase = 2 \/ phase = 3
        BY <1>1 DEF GroupOk
      <4>2. /\ phase = 1 => Compile!Phases[phase] = "version"
            /\ phase = 2 => Compile!Phases[phase] = "proof"
            /\ phase = 3 => Compile!Phases[phase] = "encode"
        BY DEF Compile!Phases
      <4>3. Compile!Phases[phase] \in {"version", "proof", "encode"}
        BY <4>1, <4>2
      <4> QED BY <4>1, <4>3 DEF Compile!Wrong
    <3>2. Len(Compile!Phases) = 3
      BY DEF Compile!Phases
    <3>3. \/ Compile!Overrun /\ Compile!Return("limit") /\ UNCHANGED phase
          \/ ~Compile!Overrun /\ Compile!Return(Compile!Wrong) /\ UNCHANGED phase
          \/ ~Compile!Overrun /\ phase < 3 /\ where' = "next" /\ phase' = phase + 1
             /\ UNCHANGED <<dir, result>>
          \/ ~Compile!Overrun /\ Compile!Return("program") /\ UNCHANGED phase
      <4>1. CASE Compile!Overrun
        BY <1>7, <4>1 DEF Compile!join_reader
      <4>2. CASE ~Compile!Overrun /\ ~Compile!Right
        BY <1>7, <4>2 DEF Compile!join_reader
      <4>3. CASE ~Compile!Overrun /\ Compile!Right /\ phase < Len(Compile!Phases)
        BY <1>7, <3>2, <4>3 DEF Compile!join_reader
      <4>4. CASE ~Compile!Overrun /\ Compile!Right /\ phase = Len(Compile!Phases)
        BY <1>7, <3>2, <4>4 DEF Compile!join_reader
      <4> QED BY <3>1, <3>2, <4>1, <4>2, <4>3, <4>4
    <3> QED BY <3>1, <3>3 DEF Compile!Return
  <2>3. ~Compile!Overrun => \A p \in Compile!Pipes : reader[p].at = "eof"
    BY <1>1, <2>1 DEF Compile!Overrun, Compile!Joined, PipesOk, Reader
  <2>4. FlagOk'
    BY <1>1, <1>2, <1>3, <2>1, <2>2, <2>3 DEF FlagOk
  <2>5. GroupOk'
    <3>1. CASE where' = "returned" /\ dir' = FALSE
      <4>1. result' # "none"
        BY <2>2, <3>1
      <4> QED BY <2>1, <2>2, <3>1, <4>1 DEF GroupOk
    <3>2. CASE where' = "next" /\ UNCHANGED <<dir, result>>
      <4>1. dir
        BY <1>1, <2>1 DEF GroupOk
      <4> QED BY <2>1, <2>2, <3>2, <4>1 DEF GroupOk
    <3> QED BY <2>2, <3>1, <3>2
  <2> QED BY <1>3, <2>4, <2>5 DEF CompileInv
<1> QED BY <1>4, <1>5, <1>6, <1>7

LEMMA BendKeeps ==
    ASSUME CompileConstants, CompileInv,
           \/ Compile!Fork \/ Compile!Exit \/ Compile!ForkEnds \/ Compile!Deadline
           \/ UNCHANGED Compile!vars
    PROVE  CompileInv'
<1>1. PipesOk /\ FlagOk /\ GroupOk
  BY DEF CompileInv
<1>2. /\ UNCHANGED <<reader, pipe, sent, flag, where, phase, result, dir>>
      /\ child' = child \/ (child = "running" /\ child' = "zombie")
  BY DEF Compile!Fork, Compile!Exit, Compile!ForkEnds, Compile!Deadline, Compile!vars,
         Compile!main, Compile!group
<1>3. PipesOk' /\ (Compile!Overrun' <=> Compile!Overrun)
  BY <1>1, <1>2, PipesStay
<1>4. FlagOk'
  BY <1>1, <1>2, <1>3 DEF FlagOk
<1>5. GroupOk'
  BY <1>1, <1>2 DEF GroupOk
<1> QED BY <1>3, <1>4, <1>5 DEF CompileInv

LEMMA CompileStarts ==
    ASSUME CompileConstants, Compile!Init PROVE CompileInv /\ ForksOk
<1>1. /\ where = "stage" /\ phase = 1 /\ child = "none" /\ ~fork /\ ~flag /\ result = "none"
      /\ pipe = [p \in Compile!Pipes |-> 0] /\ sent = [p \in Compile!Pipes |-> 0]
      /\ reader = [p \in Compile!Pipes |-> [got |-> 0, at |-> "reading"]]
      /\ Limit \in Nat
  BY DEF Compile!Init, Compile!Fresh, CompileConstants, Compile!CompileAssumption
<1>2. PipesOk
  BY <1>1 DEF PipesOk, Reader
<1>3. FlagOk
  BY <1>1 DEF FlagOk
<1>4. GroupOk
  BY <1>1 DEF GroupOk
<1> QED BY <1>1, <1>2, <1>3, <1>4 DEF CompileInv, ForksOk

LEMMA CompileKeeps ==
    ASSUME CompileConstants, CompileInv, [Compile!Next]_(Compile!vars) PROVE CompileInv'
<1>1. CASE Compile!Main
  <2>1. CASE Compile!spawn
    BY <2>1, SpawnKeeps
  <2>2. CASE ~Compile!spawn
    BY <1>1, <2>2, MainKeeps DEF Compile!Main
  <2> QED BY <2>1, <2>2
<1>2. CASE \/ Compile!Fork \/ Compile!Exit \/ Compile!ForkEnds \/ Compile!Deadline
           \/ UNCHANGED Compile!vars
  BY <1>2, BendKeeps
<1>3. ASSUME NEW p \in Compile!Pipes, Compile!Read(p) \/ Compile!Write(p) PROVE CompileInv'
  <2>1. CASE Compile!read_capped(p)
    BY <2>1, ReadKeeps
  <2>2. CASE Compile!endOfPipe(p)
    BY <2>2, EndKeeps
  <2>3. CASE Compile!Write(p)
    BY <2>3, WriteKeeps
  <2> QED BY <1>3, <2>1, <2>2, <2>3 DEF Compile!Read
<1> QED BY <1>1, <1>2, <1>3 DEF Compile!Next

\* A process that Bend started lives no longer than Bend, or than the kill of the group.
LEMMA ForksKeep ==
    ASSUME Forks = "waited", ForksOk, [Compile!Next]_(Compile!vars) PROVE ForksOk'
<1>1. CASE Compile!Main
  <2>1. CASE \/ Compile!create_private_dir \/ Compile!stageFile \/ Compile!spawnFailed
             \/ Compile!pollFlag \/ Compile!joinKilled \/ Compile!join_reader
    <3>1. UNCHANGED <<child, fork>>
      BY <2>1 DEF Compile!create_private_dir, Compile!stageFile, Compile!spawnFailed,
                  Compile!pollFlag, Compile!joinKilled, Compile!join_reader
    <3> QED BY <3>1 DEF ForksOk
  <2>2. CASE Compile!spawn \/ Compile!try_wait \/ Compile!kill_group
    <3>1. CASE Compile!spawn
      BY <3>1 DEF ForksOk, Compile!spawn
    <3>2. CASE Compile!try_wait
      BY <3>2 DEF ForksOk, Compile!try_wait, Compile!waitFailed
    <3>3. CASE Compile!kill_group
      BY <3>3 DEF ForksOk, Compile!kill_group
    <3> QED BY <2>2, <3>1, <3>2, <3>3
  <2> QED BY <1>1, <2>1, <2>2 DEF Compile!Main
<1>2. CASE Compile!Fork \/ Compile!Exit \/ Compile!ForkEnds
  BY <1>2 DEF ForksOk, Compile!Fork, Compile!Exit, Compile!ForkEnds
<1>3. CASE Compile!Deadline \/ UNCHANGED Compile!vars
  BY <1>3 DEF ForksOk, Compile!Deadline, Compile!vars, Compile!group
<1>4. ASSUME NEW p \in Compile!Pipes, Compile!Read(p) \/ Compile!Write(p) PROVE ForksOk'
  <2>1. UNCHANGED <<child, fork>>
    BY <1>4 DEF Compile!Read, Compile!Write, Compile!read_capped, Compile!endOfPipe,
                Compile!group
  <2> QED BY <2>1 DEF ForksOk
<1> QED BY <1>1, <1>2, <1>3, <1>4 DEF Compile!Next

\* A program rests on all that Bend wrote, and an output is refused as too long only
\* when it is: a flag is raised by a reader that cut its pipe, and a run that is let
\* past has both readers at the end of theirs.
THEOREM NoOutputIsCut ==
    ASSUME CompileConstants
    PROVE  Compile!Spec => [](Compile!WholeOutput /\ Compile!LimitMeansOverrun)
<1>1. Compile!Init => CompileInv
  BY CompileStarts
<1>2. CompileInv /\ [Compile!Next]_(Compile!vars) => CompileInv'
  BY CompileKeeps
<1>3. CompileInv => Compile!WholeOutput /\ Compile!LimitMeansOverrun
  <2> SUFFICES ASSUME CompileInv PROVE Compile!WholeOutput /\ Compile!LimitMeansOverrun
    OBVIOUS
  <2>1. Compile!WholeOutput
    <3> SUFFICES ASSUME where = "next" \/ result = "program", NEW p \in Compile!Pipes
                 PROVE  reader[p].got = sent[p] /\ pipe[p] = 0 /\ reader[p].at = "eof"
      BY DEF Compile!WholeOutput
    <3>1. reader[p].at = "eof"
      BY DEF CompileInv, FlagOk
    <3>2. /\ reader[p].got + pipe[p] = sent[p] /\ pipe[p] = 0
          /\ reader[p] \in Reader
      BY <3>1 DEF CompileInv, PipesOk
    <3> QED BY <3>1, <3>2 DEF Reader
  <2>2. Compile!LimitMeansOverrun
    BY DEF CompileInv, FlagOk, PipesOk, Compile!Overrun, Compile!LimitMeansOverrun
  <2> QED BY <2>1, <2>2
<1> QED BY <1>1, <1>2, <1>3, PTL DEF Compile!Spec

\* When Bend waits for what it starts, a compile that returned, and not because the wait
\* for its child failed, has left nothing: its child is reaped, no process of the group
\* lives and the directory is gone, which was there as long as one did.
THEOREM CompileLeavesNothing ==
    ASSUME CompileConstants, Forks = "waited"
    PROVE  Compile!Spec => []Compile!NothingLeft
<1> DEFINE Inv == CompileInv /\ ForksOk
<1>1. Compile!Init => Inv
  BY CompileStarts
<1>2. Inv /\ [Compile!Next]_(Compile!vars) => Inv'
  BY CompileKeeps, ForksKeep
<1>3. Inv => Compile!NothingLeft
  BY DEF CompileInv, GroupOk, ForksOk, Compile!NothingLeft
<1> QED BY <1>1, <1>2, <1>3, PTL DEF Compile!Spec

=============================================================================
