---------------------------- MODULE StreamsProofs ----------------------------
(***************************************************************************)
(* Proofs about the outbox and its streams: a client is fed as Feed        *)
(* promises, and no stream sleeps through an announced commit, for any     *)
(* runs, principals, clients, tasks, pruners and bounds.                   *)
(*                                                                         *)
(* The inductive invariant has three parts.  The store's: the outbox rows  *)
(* of a principal are exactly the stored entries behind the pruning mark,  *)
(* one row for each number, because a number is taken only under the       *)
(* counter's lock.  The wire's: what is on its way to a client continues   *)
(* the client's place, and the task at the other end stands where the wire *)
(* ends.  The tasks': a page continues its task's cursor without a gap.    *)
(***************************************************************************)
EXTENDS Streams, TLAPS, FiniteSetTheorems, SequenceTheorems, WellFoundedInduction

(***************************************************************************)
(* The invariant                                                           *)
(***************************************************************************)
\* The list a client watches: its length, its entries, how much was pruned.
End(c) == IF IsRun(c) THEN log[watches[c]].n ELSE counter[watches[c]].last
EntryAt(c, n) == IF IsRun(c) THEN <<watches[c], n>> ELSE stored[watches[c]][n]
PrunedAt(c) == IF IsRun(c) THEN 0 ELSE counter[watches[c]].pruned

TxType == [count : Nat \ {0}, ends : BOOLEAN, at : Nat, first : Nat]
RowType == [seq : Nat, run : Runs, runSeq : Nat, at : Nat]
MessageType == [id : Nat, entry : {<<>>} \cup (Runs \X Nat)]
TaskType == [client : Clients, cursor : Nat \cup {Nowhere}, pc : {"read", "send", "wait"},
             page : SUBSET MessageType, full : BOOLEAN, hinted : BOOLEAN]

StoreTypes ==
    /\ log \in [Runs -> [n : Nat, ended : BOOLEAN]]
    /\ tx \in [Runs -> {NoTx} \cup TxType]
    /\ counter \in [Principals -> [last : Nat, pruned : Nat]]
    /\ outbox \in [Principals -> SUBSET RowType]
    /\ cut \in [Pruners -> {NoCut} \cup [Principals -> Nat]]
    /\ now \in Nat
    /\ stored \in [Principals -> Seq(Runs \X Nat)]

\* The numbers are taken from the end of the list, by one transaction at a time.
Numbering ==
    /\ \A p \in Principals : counter[p].last = Len(stored[p]) /\ counter[p].pruned <= counter[p].last
    /\ \A r \in Runs : Numbered(r) => tx[r].first = counter[OwnerOf[r]].last + 1
    /\ \A r, x \in Runs : Numbered(r) /\ Numbered(x) /\ OwnerOf[r] = OwnerOf[x] => r = x
    /\ \A q \in Pruners : cut[q] # NoCut =>
         \A p \in Principals : cut[q][p] <= counter[p].last

\* The rows of p are the entries after the pruning mark, each once.
RowsMatch(p) ==
    /\ \A row \in outbox[p] : /\ row.seq \in (counter[p].pruned + 1)..counter[p].last
                              /\ stored[p][row.seq] = <<row.run, row.runSeq>>
    /\ \A row, other \in outbox[p] : row.seq = other.seq => row = other
    /\ \A n \in (counter[p].pruned + 1)..counter[p].last : \E row \in outbox[p] : row.seq = n

StoreInv == StoreTypes /\ Numbering /\ \A p \in Principals : RowsMatch(p)

ClientTypes ==
    /\ watches \in [Clients -> Watchable]
    /\ at \in [Clients -> Nat \cup {Nowhere}]
    /\ last \in [Clients -> {<<>>} \cup (Runs \X Nat)]
    /\ conn \in [Clients -> Tasks \cup {NoTask}]
    /\ wire \in [Clients -> Seq(MessageType)]
    /\ task \in [Tasks -> {NoTask} \cup TaskType]

\* m is what a client at `from` may be given next.
Follows(c, from, m) ==
    \/ ~IsRun(c) /\ m.entry = <<>> /\ m.id \in 1..PrunedAt(c) /\ from < m.id
    \/ m.id \in 1..End(c) /\ m.entry = EntryAt(c, m.id) /\ (from = Nowhere \/ m.id = from + 1)

\* Where the i-th message on the wire finds its client.
Before(c, i) == IF i = 1 THEN at[c] ELSE wire[c][i - 1].id

\* Where the client is when it has received everything sent.
WireEnd(c) == IF wire[c] = <<>> THEN at[c] ELSE wire[c][Len(wire[c])].id

WireInv(c) ==
    /\ at[c] <= End(c)
    /\ IsRun(c) => at[c] # Nowhere
    /\ conn[c] = NoTask => wire[c] = <<>>
    /\ \A i \in 1..Len(wire[c]) : Follows(c, Before(c, i), wire[c][i])

\* A page: a reset, or what follows the cursor with no number left out.
PageInv(c, cursor, page) ==
    \/ /\ ~IsRun(c)
       /\ \A m \in page : m.entry = <<>> /\ m.id \in 1..PrunedAt(c) /\ cursor < m.id
    \/ /\ \A m \in page : m.id \in (cursor + 1)..End(c) /\ m.entry = EntryAt(c, m.id)
       /\ \A m \in page : \A i \in (cursor + 1)..m.id : \E n \in page : n.id = i

TaskInv(s) ==
    task[s] # NoTask =>
        LET k == task[s]
        IN  /\ k.cursor <= End(k.client)
            /\ IsRun(k.client) \/ k.pc # "read" => k.cursor # Nowhere
            /\ k.pc = "send" => PageInv(k.client, k.cursor, k.page)
            /\ k.pc = "wait" => k.page = {}
            /\ conn[k.client] = s => WireEnd(k.client) \in {Nowhere, k.cursor}

FeedInv ==
    /\ StoreInv /\ ClientTypes
    /\ \A c \in Clients : WireInv(c)
    /\ \A s \in Tasks : TaskInv(s)

\* An announcement to p's streams is on its way, or the listener will wake all.
Told(p) == heard = FALSE \/ announce[p] > 0 \/ p \in notes

\* A task in state k will read again, or what it has yet to send, up to n, is
\* in its page.
Covered(k, n) ==
    \/ k.pc = "read" \/ (k.pc = "send" /\ k.full = TRUE)
    \/ \E m \in k.page : m.entry = <<>>
    \/ \A i \in (k.cursor + 1)..n : \E m \in k.page : m.id = i

Informed(s) ==
    task[s] # NoTask =>
        LET c == task[s].client
        IN  task[s].hinted = TRUE \/ Told(Owner(c)) \/ Covered(task[s], End(c))

NewsTypes == announce \in [Principals -> Nat] /\ heard \in BOOLEAN /\ notes \subseteq Principals

NewsInv == FeedInv /\ NewsTypes /\ \A s \in Tasks : Informed(s)

\* Every commit is announced, to this server's streams or to Postgres.
EachIsAnnounced == Announced # {} /\ <<FALSE, FALSE>> \notin Announced
(***************************************************************************)
(* Facts about sets of numbers                                             *)
(***************************************************************************)
\* A set of naturals that is not empty has a least element.
LEMMA LeastNatural ==
    ASSUME NEW T, T \subseteq Nat, T # {}
    PROVE  \E n \in T : \A m \in T : n <= m
<1> DEFINE R == {ss \in Nat \X Nat : ss[1] < ss[2]}
<1>1. IsWellFoundedOn(R, Nat)
  BY NatLessThanWellFounded DEF OpToRel
<1>2. PICK n \in T : \A m \in T : ~(<<m, n>> \in R)
  <2> HIDE DEF R
  <2> QED BY <1>1, WFMin
<1>3. ASSUME NEW m \in T PROVE n <= m
  <2>1. <<m, n>> \notin R
    BY <1>2
  <2>2. m \in Nat /\ n \in Nat
    OBVIOUS
  <2>3. ~(m < n)
    BY <2>1, <2>2
  <2> QED BY <2>2, <2>3
<1> QED BY <1>3

\* A bounded one has a greatest, which Max picks.
LEMMA MaxIsGreatest ==
    ASSUME NEW S, S \subseteq Nat, S # {}, NEW b \in Nat, \A n \in S : n <= b
    PROVE  Max(S) \in S /\ \A n \in S : n <= Max(S)
<1> DEFINE T == {m \in Nat : \A n \in S : n <= m}
<1>1. PICK top \in T : \A m \in T : top <= m
  BY LeastNatural
<1>2. top \in S
  <2> SUFFICES ASSUME top \notin S PROVE FALSE
    OBVIOUS
  <2>1. PICK n \in S : TRUE
    OBVIOUS
  <2>2. n <= top /\ n # top /\ n \in Nat /\ top \in Nat
    BY <1>1, <2>1
  <2>3. top - 1 \in T
    <3>1. ASSUME NEW m \in S PROVE m <= top - 1
      <4>1. m <= top /\ m # top /\ m \in Nat
        BY <1>1
      <4> QED BY <2>2, <4>1
    <3> QED BY <2>2, <3>1
  <2> QED BY <1>1, <2>2, <2>3
<1>3. \A n \in S : n <= top
  BY <1>1
<1> HIDE DEF T
<1> QED BY <1>2, <1>3 DEF Max

LEMMA MaxOfTwo ==
    ASSUME NEW a \in Nat, NEW b \in Nat
    PROVE  Max({a, b}) = IF a <= b THEN b ELSE a
<1>1. \E x \in {a, b} : \A y \in {a, b} : x >= y
  OBVIOUS
<1> QED BY <1>1 DEF Max

LEMMA MinOfTwo ==
    ASSUME NEW a \in Int, NEW b \in Int
    PROVE  Min({a, b}) = IF a <= b THEN a ELSE b
<1>1. \E x \in {a, b} : \A y \in {a, b} : x <= y
  OBVIOUS
<1> QED BY <1>1 DEF Min

\* A set whose members are keyed one to one by a row of n numbers has n members.
LEMMA KeyedCount ==
    ASSUME NEW S, NEW key \in [S -> Nat], NEW a \in Nat, NEW n \in Nat,
           \A x \in S : key[x] \in (a + 1)..(a + n),
           \A x, y \in S : key[x] = key[y] => x = y,
           \A i \in (a + 1)..(a + n) : \E x \in S : key[x] = i
    PROVE  Cardinality(S) = n
<1> DEFINE f == [i \in 1..n |-> CHOOSE x \in S : key[x] = a + i]
<1>1. ASSUME NEW i \in 1..n PROVE f[i] \in S /\ key[f[i]] = a + i
  <2>1. a + i \in (a + 1)..(a + n)
    OBVIOUS
  <2>2. \E x \in S : key[x] = a + i
    BY <2>1
  <2> QED BY <2>2
<1>2. f \in [1..n -> S]
  BY <1>1
<1>3. f \in Injection(1..n, S)
  <2>1. ASSUME NEW i \in 1..n, NEW j \in 1..n, f[i] = f[j] PROVE i = j
    <3>1. key[f[i]] = a + i /\ key[f[j]] = a + j
      BY <1>1
    <3> QED BY <2>1, <3>1
  <2> HIDE DEF f
  <2> QED BY <1>2, <2>1 DEF Injection, IsInjective
<1>4. f \in Surjection(1..n, S)
  <2>1. ASSUME NEW x \in S PROVE \E i \in 1..n : f[i] = x
    <3>1. key[x] \in (a + 1)..(a + n)
      OBVIOUS
    <3>2. key[x] - a \in 1..n
      BY <3>1
    <3>3. key[f[key[x] - a]] = key[x] /\ f[key[x] - a] \in S
      BY <1>1, <3>1, <3>2
    <3> QED BY <3>2, <3>3
  <2> HIDE DEF f
  <2> QED BY <1>2, <2>1 DEF Surjection
<1>5. ExistsBijection(1..n, S)
  <2> HIDE DEF f
  <2> QED BY <1>3, <1>4 DEF Bijection, ExistsBijection
<1> QED BY <1>5, FS_CountingElements

(***************************************************************************)
(* The store                                                               *)
(***************************************************************************)
LEMMA TxIsSomething ==
    ASSUME NEW k \in TxType
    PROVE  k # NoTx
<1>1. "count" \in DOMAIN k
  BY DEF TxType
<1>2. DOMAIN NoTx = {}
  BY DEF NoTx
<1> QED BY <1>1, <1>2

LEMMA InsertKeepsStore ==
    ASSUME StoreInv, NEW r \in Runs, Insert(r)
    PROVE  StoreInv'
<1>1. StoreTypes /\ Numbering
  BY DEF StoreInv
<1>2. PICK k \in 1..MaxBatch, ends \in BOOLEAN :
         tx' = [tx EXCEPT ![r] = [count |-> k, ends |-> ends, at |-> now, first |-> 0]]
  BY DEF Insert
<1>3. tx' \in [Runs -> {NoTx} \cup TxType]
  BY <1>1, <1>2, OutboxAssumption DEF StoreTypes, TxType
<1>4. UNCHANGED <<log, counter, outbox, cut, now, stored>>
  BY DEF Insert
<1>5. \A x \in Runs : Numbered(x)' => Numbered(x) /\ tx'[x] = tx[x]
  BY <1>1, <1>2 DEF Numbered, StoreTypes
<1> QED BY <1>1, <1>3, <1>4, <1>5 DEF StoreInv, StoreTypes, Numbering, RowsMatch

LEMMA NumberKeepsStore ==
    ASSUME StoreInv, NEW r \in Runs, Number(r)
    PROVE  StoreInv'
<1>1. StoreTypes /\ Numbering
  BY DEF StoreInv
<1>2. /\ tx[r] \in TxType /\ ~Numbered(r) /\ CounterFree(OwnerOf[r])
      /\ tx' = [tx EXCEPT ![r].first = counter[OwnerOf[r]].last + 1]
      /\ UNCHANGED <<log, counter, outbox, cut, now, stored>>
  BY <1>1 DEF Number, StoreTypes
<1>3. OwnerOf[r] \in Principals /\ counter[OwnerOf[r]].last \in Nat
  BY <1>1, OutboxAssumption DEF StoreTypes
<1>4. tx' \in [Runs -> {NoTx} \cup TxType]
  <2> DEFINE n == counter[OwnerOf[r]].last + 1
  <2>1. n \in Nat /\ tx' = [tx EXCEPT ![r] = [tx[r] EXCEPT !.first = n]]
    BY <1>2, <1>3
  <2> HIDE DEF n
  <2>2. [tx[r] EXCEPT !.first = n] \in TxType
    BY <1>2, <2>1 DEF TxType
  <2> QED BY <1>1, <2>1, <2>2 DEF StoreTypes
<1>5. tx'[r].first = counter[OwnerOf[r]].last + 1
  BY <1>1, <1>2 DEF StoreTypes, TxType
<1>6. \A x \in Runs : x # r => tx'[x] = tx[x]
  BY <1>1, <1>2 DEF StoreTypes
<1>7. \A x \in Runs : x # r => (Numbered(x)' <=> Numbered(x))
  BY <1>6 DEF Numbered
<1>8. \A x \in Runs : Numbered(x)' => tx'[x].first = counter'[OwnerOf[x]].last + 1
  BY <1>1, <1>2, <1>5, <1>6, <1>7 DEF Numbering
<1>9. \A x, y \in Runs : Numbered(x)' /\ Numbered(y)' /\ OwnerOf[x] = OwnerOf[y] => x = y
  BY <1>1, <1>2, <1>7 DEF Numbering, CounterFree
<1> QED BY <1>1, <1>2, <1>4, <1>8, <1>9 DEF StoreInv, StoreTypes, Numbering, RowsMatch

LEMMA RollBackKeepsStore ==
    ASSUME StoreInv, NEW r \in Runs, RollBack(r)
    PROVE  StoreInv'
<1>1. StoreTypes /\ Numbering
  BY DEF StoreInv
<1>2. tx' = [tx EXCEPT ![r] = NoTx] /\ UNCHANGED <<log, counter, outbox, cut, now, stored>>
  BY DEF RollBack
<1>3. tx' \in [Runs -> {NoTx} \cup TxType]
  BY <1>1, <1>2 DEF StoreTypes
<1>4. \A x \in Runs : Numbered(x)' => Numbered(x) /\ tx'[x] = tx[x]
  BY <1>1, <1>2 DEF Numbered, StoreTypes
<1> QED BY <1>1, <1>2, <1>3, <1>4 DEF StoreInv, StoreTypes, Numbering, RowsMatch

LEMMA TickKeepsStore ==
    ASSUME StoreInv, Tick
    PROVE  StoreInv'
<1>1. now' \in Nat /\ UNCHANGED <<log, tx, counter, outbox, cut, stored>>
  BY DEF StoreInv, StoreTypes, Tick
<1> QED BY <1>1 DEF StoreInv, StoreTypes, Numbering, RowsMatch, Numbered

LEMMA CutKeepsStore ==
    ASSUME StoreInv, NEW q \in Pruners, Cut(q)
    PROVE  StoreInv'
<1>1. StoreTypes /\ Numbering /\ \A p \in Principals : RowsMatch(p)
  BY DEF StoreInv
<1> DEFINE Old(p, before) == {row.seq : row \in {x \in outbox[p] : x.at < before}}
<1>2. PICK before \in 0..now :
         cut' = [cut EXCEPT ![q] = [p \in Principals |-> Max({0} \cup Old(p, before))]]
  BY DEF Cut
<1>3. UNCHANGED <<log, tx, counter, outbox, now, stored>>
  BY DEF Cut
<1>4. ASSUME NEW p \in Principals
      PROVE  Max({0} \cup Old(p, before)) \in 0..counter[p].last
  <2>1. counter[p].last \in Nat /\ counter[p].pruned \in Nat
    BY <1>1 DEF StoreTypes
  <2>2. \A n \in {0} \cup Old(p, before) : n \in 0..counter[p].last
    BY <1>1, <2>1 DEF RowsMatch
  <2> HIDE DEF Old
  <2> DEFINE S == {0} \cup Old(p, before)
  <2>3. S \subseteq Nat /\ S # {} /\ \A n \in S : n <= counter[p].last
    BY <2>2
  <2> HIDE DEF S
  <2>4. Max(S) \in S
    BY <2>1, <2>3, MaxIsGreatest
  <2>5. Max(S) \in 0..counter[p].last
    BY <2>2, <2>4 DEF S
  <2> QED BY <2>5 DEF S
<1> HIDE DEF Old
<1>5. [p \in Principals |-> Max({0} \cup Old(p, before))] \in [Principals -> Nat]
  BY <1>1, <1>4 DEF StoreTypes
<1>6. cut' \in [Pruners -> {NoCut} \cup [Principals -> Nat]]
  BY <1>1, <1>2, <1>5 DEF StoreTypes
<1>7. ASSUME NEW x \in Pruners, cut'[x] # NoCut, NEW p \in Principals
      PROVE  cut'[x][p] <= counter[p].last
  <2>1. CASE x = q
    <3>1. cut'[x][p] = Max({0} \cup Old(p, before))
      BY <1>1, <1>2, <2>1 DEF StoreTypes
    <3>2. counter[p].last \in Nat
      BY <1>1 DEF StoreTypes
    <3> QED BY <1>4, <3>1, <3>2
  <2>2. CASE x # q
    BY <1>1, <1>2, <1>7, <2>2 DEF StoreTypes, Numbering
  <2> QED BY <2>1, <2>2
<1> QED BY <1>1, <1>3, <1>6, <1>7 DEF StoreInv, StoreTypes, Numbering, RowsMatch, Numbered

LEMMA MarkKeepsStore ==
    ASSUME StoreInv, NEW q \in Pruners, Mark(q)
    PROVE  /\ StoreInv'
           /\ \A p \in Principals : /\ counter'[p].last = counter[p].last
                                    /\ counter[p].pruned <= counter'[p].pruned
<1>1. StoreTypes /\ Numbering /\ \A p \in Principals : RowsMatch(p)
  BY DEF StoreInv
<1>2. /\ cut[q] # NoCut
      /\ outbox' = [p \in Principals |-> {row \in outbox[p] : row.seq > cut[q][p]}]
      /\ counter' = [p \in Principals |-> [counter[p] EXCEPT !.pruned = Max({@, cut[q][p]})]]
      /\ cut' = [cut EXCEPT ![q] = NoCut]
      /\ UNCHANGED <<log, tx, now, stored>>
  BY DEF Mark
<1>3. ASSUME NEW p \in Principals
      PROVE  /\ counter'[p] \in [last : Nat, pruned : Nat]
             /\ counter'[p].last = counter[p].last
             /\ counter'[p].pruned = IF counter[p].pruned <= cut[q][p] THEN cut[q][p]
                                     ELSE counter[p].pruned
             /\ counter[p] \in [last : Nat, pruned : Nat]
             /\ cut[q][p] \in Nat /\ cut[q][p] <= counter[p].last
             /\ counter[p].pruned <= counter[p].last
  <2>1. /\ counter[p] \in [last : Nat, pruned : Nat]
        /\ cut[q][p] \in Nat /\ cut[q][p] <= counter[p].last /\ counter[p].pruned <= counter[p].last
    BY <1>1, <1>2 DEF StoreTypes, Numbering
  <2>2. counter'[p] = [counter[p] EXCEPT !.pruned = Max({counter[p].pruned, cut[q][p]})]
    BY <1>2
  <2>3. Max({counter[p].pruned, cut[q][p]}) = IF counter[p].pruned <= cut[q][p] THEN cut[q][p]
                                              ELSE counter[p].pruned
    BY <2>1, MaxOfTwo
  <2> DEFINE new == Max({counter[p].pruned, cut[q][p]})
  <2>4. new \in Nat
    BY <2>1, <2>3
  <2> HIDE DEF new
  <2>5. counter'[p] = [counter[p] EXCEPT !.pruned = new]
    BY <2>2 DEF new
  <2>6. counter'[p] \in [last : Nat, pruned : Nat] /\ counter'[p].last = counter[p].last
        /\ counter'[p].pruned = new
    BY <2>1, <2>4, <2>5
  <2> QED BY <2>1, <2>3, <2>6 DEF new
<1>4. counter' \in [Principals -> [last : Nat, pruned : Nat]]
  <2>1. ASSUME NEW p \in Principals PROVE counter'[p] \in [last : Nat, pruned : Nat]
    BY <1>3
  <2>2. DOMAIN counter' = Principals /\ counter' = [p \in Principals |-> counter'[p]]
    BY <1>2
  <2> QED BY <2>1, <2>2
<1>5. outbox' \in [Principals -> SUBSET RowType] /\ cut' \in [Pruners -> {NoCut} \cup [Principals -> Nat]]
  BY <1>1, <1>2 DEF StoreTypes
<1>6. \A p \in Principals : counter'[p].last = counter[p].last
  BY <1>3
<1>7. Numbering'
  <2>1. \A x \in Runs : (Numbered(x)' <=> Numbered(x)) /\ tx'[x] = tx[x]
    BY <1>2 DEF Numbered
  <2>2. \A p \in Principals : counter'[p].last = Len(stored'[p]) /\ counter'[p].pruned <= counter'[p].last
    BY <1>1, <1>2, <1>3 DEF Numbering
  <2>3. \A x \in Pruners : cut'[x] # NoCut => cut[x] # NoCut /\ cut'[x] = cut[x]
    BY <1>1, <1>2 DEF StoreTypes
  <2>4. \A x \in Runs : Numbered(x)' => tx'[x].first = counter'[OwnerOf[x]].last + 1
    BY <1>1, <1>6, <2>1, OutboxAssumption DEF Numbering
  <2> QED BY <1>1, <1>6, <2>1, <2>2, <2>3, <2>4 DEF Numbering
<1>8. ASSUME NEW p \in Principals PROVE RowsMatch(p)'
  <2>1. RowsMatch(p) /\ outbox'[p] = {row \in outbox[p] : row.seq > cut[q][p]} /\ stored'[p] = stored[p]
    BY <1>1, <1>2
  <2>2. \A row \in outbox[p] : row.seq \in Nat
    BY <1>1 DEF StoreTypes, RowType
  <2>3. counter'[p].last = counter[p].last /\ counter[p].last \in Nat
        /\ counter[p].pruned \in Nat /\ cut[q][p] \in Nat
        /\ counter'[p].pruned = IF counter[p].pruned <= cut[q][p] THEN cut[q][p]
                                ELSE counter[p].pruned
    BY <1>3
  <2>4. ASSUME NEW row \in outbox'[p]
        PROVE  /\ row.seq \in (counter'[p].pruned + 1)..counter'[p].last
               /\ stored'[p][row.seq] = <<row.run, row.runSeq>>
    <3>1. /\ row \in outbox[p] /\ row.seq > cut[q][p] /\ row.seq \in Nat
          /\ row.seq \in (counter[p].pruned + 1)..counter[p].last
      BY <2>1, <2>2 DEF RowsMatch
    <3>2. row.seq \in (counter'[p].pruned + 1)..counter'[p].last
      BY <2>3, <3>1
    <3> QED BY <2>1, <3>1, <3>2 DEF RowsMatch
  <2>5. \A row, other \in outbox'[p] : row.seq = other.seq => row = other
    BY <2>1 DEF RowsMatch
  <2>6. ASSUME NEW n \in (counter'[p].pruned + 1)..counter'[p].last
        PROVE  \E row \in outbox'[p] : row.seq = n
    <3>1. n \in (counter[p].pruned + 1)..counter[p].last /\ n > cut[q][p]
      BY <2>3
    <3>2. PICK row \in outbox[p] : row.seq = n
      BY <2>1, <3>1 DEF RowsMatch
    <3> QED BY <2>1, <3>1, <3>2
  <2> QED BY <2>4, <2>5, <2>6 DEF RowsMatch
<1>9. \A p \in Principals : counter[p].pruned <= counter'[p].pruned
  BY <1>3
<1> QED BY <1>1, <1>2, <1>4, <1>5, <1>6, <1>7, <1>8, <1>9 DEF StoreInv, StoreTypes
\* What a commit writes: the entries of r's transaction, after what is stored.
LEMMA CommitWrites ==
    ASSUME StoreInv, NEW r \in Runs, Commit(r)
    PROVE  LET p == OwnerOf[r]
               k == tx[r].count
               n == counter[p].last
           IN  /\ p \in Principals /\ k \in Nat \ {0} /\ n \in Nat /\ log[r].n \in Nat
               /\ n = Len(stored[p]) /\ tx[r].first = n + 1
               /\ log' = [log EXCEPT ![r] = [n |-> log[r].n + k, ended |-> tx[r].ends]]
               /\ counter' = [counter EXCEPT ![p] = [last |-> n + k, pruned |-> counter[p].pruned]]
               /\ outbox' = [outbox EXCEPT ![p] = outbox[p] \cup NewRows(r)]
               /\ stored' = [stored EXCEPT ![p] = stored[p] \o [i \in 1..k |-> <<r, log[r].n + i>>]]
               /\ tx' = [tx EXCEPT ![r] = NoTx]
               /\ UNCHANGED <<cut, now>>
<1> DEFINE p == OwnerOf[r]
           k == tx[r].count
           n == counter[p].last
<1>1. StoreTypes /\ Numbering /\ Numbered(r)
  BY DEF StoreInv, Commit
<1>2. p \in Principals /\ counter[p] \in [last : Nat, pruned : Nat]
  BY <1>1, OutboxAssumption DEF StoreTypes
<1>3. tx[r] \in TxType /\ log[r].n \in Nat
  BY <1>1 DEF StoreTypes, Numbered
<1>4. k \in Nat \ {0} /\ n \in Nat /\ n = Len(stored[p]) /\ tx[r].first = n + 1
  BY <1>1, <1>2, <1>3 DEF Numbering, TxType
<1>5. Max({n, tx[r].first + k - 1}) = n + k
  <2> HIDE DEF n, k
  <2>1. tx[r].first + k - 1 = n + k /\ n + k \in Nat /\ n <= n + k
    BY <1>4
  <2> QED BY <1>4, <2>1, MaxOfTwo
<1>6. /\ log' = [log EXCEPT ![r] = [n |-> log[r].n + k, ended |-> tx[r].ends]]
      /\ counter' = [counter EXCEPT ![p].last = Max({n, tx[r].first + k - 1})]
      /\ outbox' = [outbox EXCEPT ![p] = outbox[p] \cup NewRows(r)]
      /\ stored' = [stored EXCEPT ![p] = stored[p] \o [i \in 1..k |-> <<r, log[r].n + i>>]]
      /\ tx' = [tx EXCEPT ![r] = NoTx]
      /\ UNCHANGED <<cut, now>>
  BY DEF Commit, Batch
<1>7. counter' = [counter EXCEPT ![p] = [last |-> n + k, pruned |-> counter[p].pruned]]
  <2>1. counter' = [counter EXCEPT ![p] = [counter[p] EXCEPT !.last = n + k]]
    BY <1>5, <1>6
  <2>2. [counter[p] EXCEPT !.last = n + k] = [last |-> n + k, pruned |-> counter[p].pruned]
    BY <1>2
  <2> QED BY <2>1, <2>2
<1> HIDE DEF p, k, n
<1> QED BY <1>2, <1>3, <1>4, <1>6, <1>7 DEF p, k, n

LEMMA ConcatSecond ==
    ASSUME NEW S, NEW s \in Seq(S), NEW t \in Seq(S), NEW i \in 1..Len(t)
    PROVE  (s \o t)[Len(s) + i] = t[i]
<1>1. Len(s) \in Nat /\ Len(t) \in Nat
  BY LenProperties
<1>2. Len(s) + i \in 1..(Len(s) + Len(t)) /\ ~(Len(s) + i <= Len(s)) /\ Len(s) + i - Len(s) = i
  BY <1>1
<1>3. \A j \in 1..(Len(s) + Len(t)) : (s \o t)[j] = IF j <= Len(s) THEN s[j] ELSE t[j - Len(s)]
  BY ConcatProperties
<1>4. (s \o t)[Len(s) + i] = IF Len(s) + i <= Len(s) THEN s[Len(s) + i] ELSE t[Len(s) + i - Len(s)]
  BY <1>2, <1>3
<1> QED BY <1>2, <1>4

LEMMA BatchIsSeq ==
    ASSUME NEW r \in Runs, NEW n \in Nat, NEW k \in Nat
    PROVE  LET new == [i \in 1..k |-> <<r, n + i>>]
           IN  new \in Seq(Runs \X Nat) /\ Len(new) = k
<1> DEFINE new == [i \in 1..k |-> <<r, n + i>>]
<1>1. new \in [1..k -> Runs \X Nat]
  OBVIOUS
<1>2. new \in Seq(Runs \X Nat)
  <2> HIDE DEF new
  <2> QED BY <1>1, SeqDef
<1>3. DOMAIN new = 1..k
  OBVIOUS
<1>4. Len(new) = k
  <2> HIDE DEF new
  <2>1. 1..k = 1..Len(new) /\ Len(new) \in Nat
    BY <1>2, <1>3, LenProperties
  <2> QED BY <2>1
<1> QED BY <1>2, <1>4

LEMMA CommitKeepsStore ==
    ASSUME StoreInv, NEW r \in Runs, Commit(r)
    PROVE  StoreInv'
<1> DEFINE p == OwnerOf[r]
           k == tx[r].count
           n == counter[p].last
           new == [i \in 1..k |-> <<r, log[r].n + i>>]
<1>1. StoreTypes /\ Numbering /\ (\A x \in Principals : RowsMatch(x)) /\ Numbered(r)
  BY DEF StoreInv, Commit
<1>2. /\ p \in Principals /\ k \in Nat \ {0} /\ n \in Nat /\ log[r].n \in Nat
      /\ n = Len(stored[p]) /\ tx[r].first = n + 1
      /\ log' = [log EXCEPT ![r] = [n |-> log[r].n + k, ended |-> tx[r].ends]]
      /\ counter' = [counter EXCEPT ![p] = [last |-> n + k, pruned |-> counter[p].pruned]]
      /\ outbox' = [outbox EXCEPT ![p] = outbox[p] \cup NewRows(r)]
      /\ stored' = [stored EXCEPT ![p] = stored[p] \o new]
      /\ tx' = [tx EXCEPT ![r] = NoTx]
      /\ UNCHANGED <<cut, now>>
  BY CommitWrites
<1>3. tx[r] \in TxType
  BY <1>1 DEF StoreTypes, Numbered
<1>4. new \in Seq(Runs \X Nat) /\ Len(new) = k /\ stored[p] \in Seq(Runs \X Nat)
  <2>1. stored[p] \in Seq(Runs \X Nat)
    BY <1>1, <1>2 DEF StoreTypes
  <2> QED BY <1>2, <2>1, BatchIsSeq
<1>5. NewRows(r) = {[seq |-> n + i, run |-> r, runSeq |-> log[r].n + i, at |-> tx[r].at] : i \in 1..k}
  <2>1. \A i \in 1..k : tx[r].first + i - 1 = n + i
    BY <1>2
  <2> QED BY <2>1 DEF NewRows, Batch
<1>6. NewRows(r) \subseteq RowType
  <2> SUFFICES ASSUME NEW i \in 1..k
               PROVE  [seq |-> n + i, run |-> r, runSeq |-> log[r].n + i, at |-> tx[r].at] \in RowType
    BY <1>5
  <2>1. tx[r].at \in Nat
    BY <1>3 DEF TxType
  <2> DEFINE base == log[r].n
  <2>2. base \in Nat /\ n \in Nat /\ k \in Nat
    BY <1>2
  <2> HIDE DEF n, k, base
  <2>3. n + i \in Nat /\ base + i \in Nat
    BY <2>2
  <2> QED BY <2>1, <2>3 DEF RowType, base
<1> HIDE DEF new
<1>7. /\ stored'[p] \in Seq(Runs \X Nat) /\ Len(stored'[p]) = n + k
      /\ \A i \in 1..n : stored'[p][i] = stored[p][i]
      /\ \A i \in 1..k : stored'[p][n + i] = <<r, log[r].n + i>>
  <2>1. stored'[p] = stored[p] \o new
    BY <1>1, <1>2 DEF StoreTypes
  <2> HIDE DEF n, k, p
  <2>2. Len(stored[p] \o new) = n + k /\ stored[p] \o new \in Seq(Runs \X Nat)
    BY <1>2, <1>4, ConcatProperties
  <2>3. \A i \in 1..n : (stored[p] \o new)[i] = stored[p][i]
    BY <1>2, <1>4
  <2>4. ASSUME NEW i \in 1..k PROVE (stored[p] \o new)[n + i] = <<r, log[r].n + i>>
    <3>1. i \in 1..Len(new) /\ n = Len(stored[p])
      BY <1>2, <1>4
    <3>2. (stored[p] \o new)[Len(stored[p]) + i] = new[i]
      BY <1>4, <3>1, ConcatSecond
    <3> QED BY <3>1, <3>2 DEF new
  <2> QED BY <2>1, <2>2, <2>3, <2>4
<1>8. /\ \A x \in Principals : x # p => /\ counter'[x] = counter[x] /\ stored'[x] = stored[x]
                                         /\ outbox'[x] = outbox[x]
      /\ counter'[p].last = n + k /\ counter'[p].pruned = counter[p].pruned
      /\ outbox'[p] = outbox[p] \cup NewRows(r)
  BY <1>1, <1>2 DEF StoreTypes
<1> HIDE DEF n, k, p
<1>9. StoreTypes'
  <2>1. log' \in [Runs -> [n : Nat, ended : BOOLEAN]]
    BY <1>1, <1>2, <1>3 DEF StoreTypes, TxType
  <2>2. tx' \in [Runs -> {NoTx} \cup TxType]
    BY <1>1, <1>2 DEF StoreTypes
  <2>3. counter' \in [Principals -> [last : Nat, pruned : Nat]]
    BY <1>1, <1>2 DEF StoreTypes
  <2>4. outbox' \in [Principals -> SUBSET RowType]
    BY <1>1, <1>2, <1>6 DEF StoreTypes
  <2>5. stored' \in [Principals -> Seq(Runs \X Nat)]
    BY <1>1, <1>2, <1>4 DEF StoreTypes
  <2> QED BY <1>1, <1>2, <2>1, <2>2, <2>3, <2>4, <2>5 DEF StoreTypes
<1>10. Numbering'
  <2>1. \A x \in Principals : counter'[x].last = Len(stored'[x]) /\ counter'[x].pruned <= counter'[x].last
                              /\ counter[x].last <= counter'[x].last
    <3>1. counter[p].pruned \in Nat /\ counter[p].pruned <= n /\ n = counter[p].last
      BY <1>1, <1>2 DEF StoreTypes, Numbering, n
    <3>2. ASSUME NEW x \in Principals, x # p
          PROVE  counter'[x].last = Len(stored'[x]) /\ counter'[x].pruned <= counter'[x].last
                 /\ counter[x].last <= counter'[x].last
      BY <1>1, <1>8, <3>2 DEF Numbering, StoreTypes
    <3> QED BY <1>2, <1>7, <1>8, <3>1, <3>2
  <2>2. ~Numbered(r)' /\ \A x \in Runs : x # r => tx'[x] = tx[x]
    BY <1>1, <1>2 DEF Numbered, StoreTypes
  <2>3. ASSUME NEW x \in Runs, Numbered(x)'
        PROVE  Numbered(x) /\ tx'[x] = tx[x] /\ OwnerOf[x] # p /\ counter'[OwnerOf[x]] = counter[OwnerOf[x]]
    <3>1. x # r /\ tx'[x] = tx[x]
      BY <2>2, <2>3
    <3>2. Numbered(x)
      BY <2>3, <3>1 DEF Numbered
    <3>3. OwnerOf[x] # p
      BY <1>1, <3>1, <3>2 DEF Numbering, p
    <3> QED BY <1>8, <3>1, <3>2, <3>3, OutboxAssumption
  <2>4. \A q \in Pruners : cut'[q] # NoCut => \A x \in Principals : cut'[q][x] <= counter'[x].last
    <3> SUFFICES ASSUME NEW q \in Pruners, cut[q] # NoCut, NEW x \in Principals
                 PROVE  cut[q][x] <= counter'[x].last
      BY <1>2
    <3>1. cut[q][x] \in Nat /\ counter[x].last \in Nat /\ counter'[x].last \in Nat
      BY <1>1, <1>9 DEF StoreTypes
    <3>2. cut[q][x] <= counter[x].last /\ counter[x].last <= counter'[x].last
      BY <1>1, <2>1 DEF Numbering
    <3> QED BY <3>1, <3>2
  <2> QED BY <1>1, <2>1, <2>3, <2>4 DEF Numbering
<1>11. ASSUME NEW x \in Principals PROVE RowsMatch(x)'
  <2>1. CASE x # p
    <3>1. counter'[x] = counter[x] /\ stored'[x] = stored[x] /\ outbox'[x] = outbox[x]
      BY <1>8, <2>1
    <3>2. RowsMatch(x)
      BY <1>1
    <3> QED BY <3>1, <3>2 DEF RowsMatch
  <2>2. CASE x = p
    <3>1. /\ counter[p].pruned \in Nat /\ counter[p].pruned <= n /\ n = counter[p].last /\ n \in Nat
          /\ k \in Nat /\ RowsMatch(p)
      BY <1>1, <1>2 DEF StoreTypes, Numbering, n
    <3>2. ASSUME NEW row \in outbox[p]
          PROVE  /\ row.seq \in (counter[p].pruned + 1)..n
                 /\ stored'[p][row.seq] = <<row.run, row.runSeq>>
      <4>1. row.seq \in (counter[p].pruned + 1)..n /\ stored[p][row.seq] = <<row.run, row.runSeq>>
        BY <3>1 DEF RowsMatch
      <4>2. row.seq \in 1..n
        BY <3>1, <4>1
      <4> QED BY <1>7, <4>1, <4>2
    <3>3. ASSUME NEW row \in NewRows(r)
          PROVE  /\ row.seq \in (n + 1)..(n + k)
                 /\ stored'[p][row.seq] = <<row.run, row.runSeq>>
                 /\ row = [seq |-> row.seq, run |-> r, runSeq |-> log[r].n + (row.seq - n), at |-> tx[r].at]
      <4>1. PICK i \in 1..k : row = [seq |-> n + i, run |-> r, runSeq |-> log[r].n + i, at |-> tx[r].at]
        BY <1>5
      <4>2. row.seq = n + i /\ row.seq - n = i /\ row.run = r /\ row.runSeq = log[r].n + i
        BY <3>1, <4>1
      <4>3. stored'[p][n + i] = <<r, log[r].n + i>>
        BY <1>7
      <4>4. row.seq \in (n + 1)..(n + k)
        BY <3>1, <4>2
      <4> QED BY <4>1, <4>2, <4>3, <4>4
    <3>4. \A row \in outbox'[p] : /\ row.seq \in (counter'[p].pruned + 1)..counter'[p].last
                                  /\ stored'[p][row.seq] = <<row.run, row.runSeq>>
      BY <1>8, <3>1, <3>2, <3>3
    <3>5. ASSUME NEW row \in outbox'[p], NEW other \in outbox'[p], row.seq = other.seq
          PROVE  row = other
      <4>1. CASE row \in outbox[p] /\ other \in outbox[p]
        BY <3>1, <3>5, <4>1 DEF RowsMatch
      <4>2. CASE row \in NewRows(r) /\ other \in NewRows(r)
        BY <3>3, <3>5, <4>2
      <4>3. CASE row \in outbox[p] /\ other \in NewRows(r)
        BY <3>1, <3>2, <3>3, <3>5, <4>3
      <4>4. CASE row \in NewRows(r) /\ other \in outbox[p]
        BY <3>1, <3>2, <3>3, <3>5, <4>4
      <4> QED BY <1>8, <4>1, <4>2, <4>3, <4>4
    <3>6. ASSUME NEW m \in (counter'[p].pruned + 1)..counter'[p].last
          PROVE  \E row \in outbox'[p] : row.seq = m
      <4>1. m \in (counter[p].pruned + 1)..(n + k)
        BY <1>8
      <4>2. CASE m <= n
        BY <1>8, <3>1, <4>1, <4>2 DEF RowsMatch
      <4>3. CASE m > n
        <5>1. m - n \in 1..k /\ m = n + (m - n)
          BY <3>1, <4>1, <4>3
        <5> DEFINE row == [seq |-> n + (m - n), run |-> r, runSeq |-> log[r].n + (m - n), at |-> tx[r].at]
        <5>2. row \in NewRows(r) /\ row.seq = m
          BY <1>5, <5>1
        <5> HIDE DEF row
        <5> QED BY <1>8, <5>2
      <4> QED BY <3>1, <4>1, <4>2, <4>3
    <3> QED BY <2>2, <3>4, <3>5, <3>6 DEF RowsMatch
  <2> QED BY <2>1, <2>2
<1> QED BY <1>9, <1>10, <1>11 DEF StoreInv
\* What a step of the store does to the lists: they grow at their ends, and
\* their marks move up.
Grown ==
    /\ \A r \in Runs : log[r].n <= log'[r].n
    /\ \A p \in Principals : /\ counter[p].last <= counter'[p].last
                             /\ counter[p].pruned <= counter'[p].pruned
                             /\ \A n \in 1..counter[p].last : stored'[p][n] = stored[p][n]

StoreStep ==
    \/ \E r \in Runs : Insert(r) \/ Number(r) \/ RollBack(r) \/ Commit(r)
    \/ \E q \in Pruners : Cut(q) \/ Mark(q)
    \/ Tick

LEMMA StoreKept ==
    ASSUME StoreInv, StoreStep
    PROVE  StoreInv'
BY InsertKeepsStore, NumberKeepsStore, RollBackKeepsStore, CommitKeepsStore, CutKeepsStore,
   MarkKeepsStore, TickKeepsStore
   DEF StoreStep

LEMMA StoreGrows ==
    ASSUME StoreInv, StoreStep
    PROVE  Grown
<1>1. StoreTypes
  BY DEF StoreInv
<1>2. CASE UNCHANGED <<log, counter, stored>>
  BY <1>1, <1>2 DEF Grown, StoreTypes
<1>3. ASSUME NEW q \in Pruners, Mark(q) PROVE Grown
  <2>1. \A p \in Principals : counter'[p].last = counter[p].last /\ counter[p].pruned <= counter'[p].pruned
    BY <1>3, MarkKeepsStore
  <2>2. log' = log /\ stored' = stored
    BY <1>3 DEF Mark
  <2> QED BY <1>1, <2>1, <2>2 DEF Grown, StoreTypes
<1>4. ASSUME NEW r \in Runs, Commit(r) PROVE Grown
  <2> DEFINE p == OwnerOf[r]
             k == tx[r].count
             n == counter[p].last
             new == [i \in 1..k |-> <<r, log[r].n + i>>]
  <2>1. /\ p \in Principals /\ k \in Nat \ {0} /\ n \in Nat /\ log[r].n \in Nat
        /\ n = Len(stored[p])
        /\ log' = [log EXCEPT ![r] = [n |-> log[r].n + k, ended |-> tx[r].ends]]
        /\ counter' = [counter EXCEPT ![p] = [last |-> n + k, pruned |-> counter[p].pruned]]
        /\ stored' = [stored EXCEPT ![p] = stored[p] \o new]
    BY <1>4, CommitWrites
  <2>2. new \in Seq(Runs \X Nat) /\ stored[p] \in Seq(Runs \X Nat)
    BY <1>1, <2>1, BatchIsSeq DEF StoreTypes
  <2> HIDE DEF new
  <2>3. \A i \in 1..n : (stored[p] \o new)[i] = stored[p][i]
    BY <2>1, <2>2
  <2>4. ASSUME NEW x \in Runs PROVE log[x].n <= log'[x].n
    <3>1. x # r => log'[x] = log[x]
      BY <1>1, <2>1 DEF StoreTypes
    <3>2. log'[r].n = log[r].n + k
      BY <1>1, <2>1 DEF StoreTypes
    <3>3. log[x].n \in Nat
      BY <1>1 DEF StoreTypes
    <3> HIDE DEF k
    <3> QED BY <2>1, <3>1, <3>2, <3>3
  <2>5. ASSUME NEW x \in Principals
        PROVE  /\ counter[x].last <= counter'[x].last
               /\ counter[x].pruned <= counter'[x].pruned
               /\ \A i \in 1..counter[x].last : stored'[x][i] = stored[x][i]
    <3>1. x # p => counter'[x] = counter[x] /\ stored'[x] = stored[x]
      BY <1>1, <2>1 DEF StoreTypes
    <3>2. counter'[p].last = n + k /\ counter'[p].pruned = counter[p].pruned
          /\ stored'[p] = stored[p] \o new
      BY <1>1, <2>1 DEF StoreTypes
    <3>3. counter[x].last \in Nat /\ counter[x].pruned \in Nat
      BY <1>1 DEF StoreTypes
    <3>4. CASE x # p
      BY <3>1, <3>3, <3>4
    <3>5. CASE x = p
      <4> HIDE DEF k
      <4> QED BY <2>1, <2>3, <3>2, <3>3, <3>5
    <3> QED BY <3>4, <3>5
  <2> QED BY <2>4, <2>5 DEF Grown
<1>5. CASE Tick
  BY <1>2, <1>5 DEF Tick
<1>6. ASSUME NEW r \in Runs, Insert(r) \/ Number(r) \/ RollBack(r) PROVE Grown
  BY <1>2, <1>6 DEF Insert, Number, RollBack
<1>7. ASSUME NEW q \in Pruners, Cut(q) PROVE Grown
  BY <1>2, <1>7 DEF Cut
<1> QED BY <1>3, <1>4, <1>5, <1>6, <1>7 DEF StoreStep
(***************************************************************************)
(* A client's list                                                         *)
(***************************************************************************)
LEMMA ListTypes ==
    ASSUME StoreInv, watches \in [Clients -> Watchable], NEW c \in Clients
    PROVE  /\ IsRun(c) => watches[c] \in Runs
           /\ ~IsRun(c) => watches[c] \in Principals
           /\ Owner(c) \in Principals
           /\ End(c) \in Nat /\ PrunedAt(c) \in Nat /\ PrunedAt(c) <= End(c)
           /\ \A n \in 1..End(c) : EntryAt(c, n) \in Runs \X Nat
<1>1. StoreTypes /\ Numbering
  BY DEF StoreInv
<1>2. watches[c] \in Principals \cup Runs
  BY StreamsAssumption
<1>3. CASE IsRun(c)
  <2>1. watches[c] \in Runs
    BY <1>3 DEF IsRun
  <2>2. log[watches[c]].n \in Nat
    BY <1>1, <2>1 DEF StoreTypes
  <2> QED BY <1>3, <2>1, <2>2, OutboxAssumption DEF End, PrunedAt, EntryAt, Owner
<1>4. CASE ~IsRun(c)
  <2>1. watches[c] \in Principals
    BY <1>2, <1>4 DEF IsRun
  <2>2. /\ counter[watches[c]].last \in Nat /\ counter[watches[c]].pruned \in Nat
        /\ counter[watches[c]].last = Len(stored[watches[c]])
        /\ counter[watches[c]].pruned <= counter[watches[c]].last
        /\ stored[watches[c]] \in Seq(Runs \X Nat)
    BY <1>1, <2>1 DEF StoreTypes, Numbering
  <2> QED BY <1>4, <2>1, <2>2, ElementOfSeq DEF End, PrunedAt, EntryAt, Owner
<1> QED BY <1>3, <1>4

LEMMA ListTypesNext ==
    ASSUME StoreInv', watches' \in [Clients -> Watchable], NEW c \in Clients
    PROVE  End(c)' \in Nat /\ PrunedAt(c)' \in Nat
<1>1. StoreTypes'
  BY DEF StoreInv
<1>2. watches'[c] \in Principals \cup Runs
  BY StreamsAssumption
<1>3. CASE watches'[c] \in Runs
  BY <1>1, <1>3 DEF StoreTypes, End, PrunedAt, IsRun
<1>4. CASE watches'[c] \notin Runs
  BY <1>1, <1>2, <1>4 DEF StoreTypes, End, PrunedAt, IsRun
<1> QED BY <1>3, <1>4

\* The lists of the clients grow with the store's.
LEMMA ListsGrow ==
    ASSUME StoreInv, watches \in [Clients -> Watchable], Grown, watches' = watches, NEW c \in Clients
    PROVE  /\ IsRun(c)' <=> IsRun(c)
           /\ End(c) <= End(c)' /\ PrunedAt(c) <= PrunedAt(c)'
           /\ \A n \in 1..End(c) : EntryAt(c, n)' = EntryAt(c, n)
<1>1. IsRun(c)' <=> IsRun(c)
  BY DEF IsRun
<1>2. CASE IsRun(c)
  BY <1>1, <1>2, ListTypes DEF Grown, End, PrunedAt, EntryAt
<1>3. CASE ~IsRun(c)
  BY <1>1, <1>3, ListTypes DEF Grown, End, PrunedAt, EntryAt
<1> QED BY <1>1, <1>2, <1>3

LEMMA FollowsStays ==
    ASSUME StoreInv, StoreInv', watches \in [Clients -> Watchable], Grown, watches' = watches,
           NEW c \in Clients, NEW from, NEW m, Follows(c, from, m)
    PROVE  Follows(c, from, m)'
<1>1. /\ IsRun(c)' <=> IsRun(c)
      /\ End(c) <= End(c)' /\ PrunedAt(c) <= PrunedAt(c)'
      /\ \A n \in 1..End(c) : EntryAt(c, n)' = EntryAt(c, n)
  BY ListsGrow
<1>2. End(c) \in Nat /\ PrunedAt(c) \in Nat
  BY ListTypes
<1>3. End(c)' \in Nat /\ PrunedAt(c)' \in Nat
  BY ListTypesNext
<1>4. CASE ~IsRun(c) /\ m.entry = <<>> /\ m.id \in 1..PrunedAt(c) /\ from < m.id
  <2>1. m.id \in 1..PrunedAt(c)'
    BY <1>1, <1>2, <1>3, <1>4
  <2> QED BY <1>1, <1>4, <2>1 DEF Follows
<1>5. CASE m.id \in 1..End(c) /\ m.entry = EntryAt(c, m.id) /\ (from = Nowhere \/ m.id = from + 1)
  <2>1. m.id \in 1..End(c)' /\ EntryAt(c, m.id)' = EntryAt(c, m.id)
    BY <1>1, <1>2, <1>3, <1>5
  <2> QED BY <1>5, <2>1 DEF Follows
<1> QED BY <1>4, <1>5 DEF Follows

LEMMA PageStays ==
    ASSUME StoreInv, StoreInv', watches \in [Clients -> Watchable], Grown, watches' = watches,
           NEW c \in Clients, NEW cursor \in Nat, NEW page, PageInv(c, cursor, page)
    PROVE  PageInv(c, cursor, page)'
<1>1. /\ IsRun(c)' <=> IsRun(c)
      /\ End(c) <= End(c)' /\ PrunedAt(c) <= PrunedAt(c)'
      /\ \A n \in 1..End(c) : EntryAt(c, n)' = EntryAt(c, n)
  BY ListsGrow
<1>2. End(c) \in Nat /\ PrunedAt(c) \in Nat
  BY ListTypes
<1>3. End(c)' \in Nat /\ PrunedAt(c)' \in Nat
  BY ListTypesNext
<1>4. CASE /\ ~IsRun(c)
           /\ \A m \in page : m.entry = <<>> /\ m.id \in 1..PrunedAt(c) /\ cursor < m.id
  <2>1. \A m \in page : m.id \in 1..PrunedAt(c)'
    BY <1>1, <1>2, <1>3, <1>4
  <2> QED BY <1>1, <1>4, <2>1 DEF PageInv
<1>5. CASE /\ \A m \in page : m.id \in (cursor + 1)..End(c) /\ m.entry = EntryAt(c, m.id)
           /\ \A m \in page : \A i \in (cursor + 1)..m.id : \E n \in page : n.id = i
  <2>1. ASSUME NEW m \in page
        PROVE  m.id \in (cursor + 1)..End(c)' /\ m.entry = EntryAt(c, m.id)'
    <3>1. m.id \in (cursor + 1)..End(c) /\ m.entry = EntryAt(c, m.id)
      BY <1>5
    <3>2. m.id \in 1..End(c) /\ m.id \in (cursor + 1)..End(c)'
      BY <1>1, <1>2, <1>3, <3>1
    <3> QED BY <1>1, <3>1, <3>2
  <2> QED BY <1>5, <2>1 DEF PageInv
<1> QED BY <1>4, <1>5 DEF PageInv
(***************************************************************************)
(* Steps of the store leave the streams in order                           *)
(***************************************************************************)
StreamsStand == UNCHANGED <<watches, at, last, conn, wire, task>>

LEMMA TaskFields ==
    ASSUME ClientTypes, NEW s \in Tasks, task[s] # NoTask
    PROVE  /\ task[s].client \in Clients /\ task[s].cursor \in Nat \cup {Nowhere}
           /\ task[s].pc \in {"read", "send", "wait"} /\ task[s].page \subseteq MessageType
           /\ task[s].full \in BOOLEAN /\ task[s].hinted \in BOOLEAN
           /\ task[s] \in TaskType
<1>1. task[s] \in TaskType
  BY DEF ClientTypes
<1> QED BY <1>1 DEF TaskType

LEMMA TaskIsSomething ==
    ASSUME NEW k \in TaskType
    PROVE  k # NoTask
<1>1. "client" \in DOMAIN k
  BY DEF TaskType
<1>2. DOMAIN NoTask = {}
  BY DEF NoTask
<1> QED BY <1>1, <1>2

\* A client's wire and a task stay in order while their lists grow.
LEMMA WireStays ==
    ASSUME FeedInv, StoreInv', Grown, watches' = watches, NEW c \in Clients,
           at'[c] = at[c], wire'[c] = wire[c], conn'[c] = NoTask => wire'[c] = <<>>
    PROVE  WireInv(c)'
<1>1. StoreInv /\ ClientTypes /\ watches \in [Clients -> Watchable] /\ WireInv(c)
  BY DEF FeedInv, ClientTypes
<1>2. /\ End(c) <= End(c)' /\ End(c) \in Nat /\ End(c)' \in Nat
      /\ IsRun(c)' <=> IsRun(c)
  BY <1>1, ListsGrow, ListTypes, ListTypesNext
<1>3. at'[c] <= End(c)'
  <2>1. at[c] \in Int /\ at[c] <= End(c)
    BY <1>1 DEF WireInv, ClientTypes, Nowhere
  <2> QED BY <1>2, <2>1
<1>4. IsRun(c)' => at'[c] # Nowhere
  BY <1>1, <1>2 DEF WireInv
<1>5. ASSUME NEW i \in 1..Len(wire'[c]) PROVE Follows(c, Before(c, i), wire[c][i])'
  <2>1. Follows(c, Before(c, i), wire[c][i])
    BY <1>1 DEF WireInv
  <2>2. Before(c, i)' = Before(c, i) /\ wire'[c][i] = wire[c][i]
    BY DEF Before
  <2>3. \A x, y : Follows(c, x, y) => Follows(c, x, y)'
    BY <1>1, FollowsStays
  <2> QED BY <2>1, <2>2, <2>3 DEF Follows
<1> QED BY <1>3, <1>4, <1>5 DEF WireInv

LEMMA TaskStays ==
    ASSUME FeedInv, StoreInv', Grown, watches' = watches, NEW s \in Tasks,
           NEW k, k = task[s], NEW j, j = task'[s], k # NoTask, j # NoTask,
           j.client = k.client, j.cursor = k.cursor, j.pc = k.pc, j.page = k.page,
           conn'[k.client] = s => conn[k.client] = s /\ WireEnd(k.client)' = WireEnd(k.client)
    PROVE  TaskInv(s)'
<1>1. StoreInv /\ ClientTypes /\ watches \in [Clients -> Watchable] /\ TaskInv(s)
  BY DEF FeedInv, ClientTypes
<1>2. k.client \in Clients /\ k.cursor \in Nat \cup {Nowhere}
  BY <1>1, TaskFields
<1>3. /\ k.cursor <= End(k.client)
      /\ IsRun(k.client) \/ k.pc # "read" => k.cursor # Nowhere
      /\ k.pc = "send" => PageInv(k.client, k.cursor, k.page)
      /\ k.pc = "wait" => k.page = {}
      /\ conn[k.client] = s => WireEnd(k.client) \in {Nowhere, k.cursor}
  BY <1>1 DEF TaskInv
<1>4. /\ End(k.client) <= End(k.client)' /\ End(k.client) \in Nat /\ End(k.client)' \in Nat
      /\ IsRun(k.client)' <=> IsRun(k.client)
  BY <1>1, <1>2, ListsGrow, ListTypes, ListTypesNext
<1>5. k.cursor <= End(k.client)'
  <2>1. k.cursor \in Int
    BY <1>2 DEF Nowhere
  <2> QED BY <1>3, <1>4, <2>1
<1>6. k.pc = "send" => PageInv(k.client, k.cursor, k.page)'
  <2> SUFFICES ASSUME k.pc = "send" PROVE PageInv(k.client, k.cursor, k.page)'
    OBVIOUS
  <2>1. k.cursor \in Nat /\ PageInv(k.client, k.cursor, k.page)
    BY <1>2, <1>3
  <2> QED BY <1>1, <1>2, <2>1, PageStays
<1> QED BY <1>3, <1>4, <1>5, <1>6 DEF TaskInv

LEMMA StoreStepKeepsFeed ==
    ASSUME FeedInv, StoreInv', Grown, StreamsStand
    PROVE  FeedInv'
<1>1. ClientTypes /\ UNCHANGED <<watches, at, conn, wire, task>>
  BY DEF FeedInv, StreamsStand
<1>2. ClientTypes'
  BY <1>1 DEF ClientTypes, StreamsStand
<1>3. ASSUME NEW c \in Clients PROVE WireInv(c)'
  <2>1. conn[c] = NoTask => wire[c] = <<>>
    BY DEF FeedInv, WireInv
  <2> QED BY <1>1, <2>1, WireStays
<1>4. ASSUME NEW s \in Tasks PROVE TaskInv(s)'
  <2> SUFFICES ASSUME task'[s] # NoTask PROVE TaskInv(s)'
    BY DEF TaskInv
  <2>1. PICK k : k = task[s]
    OBVIOUS
  <2>2. task'[s] = k /\ k # NoTask
    BY <1>1, <2>1
  <2>3. WireEnd(k.client)' = WireEnd(k.client) /\ conn' = conn
    BY <1>1 DEF WireEnd
  <2> QED BY <1>1, <2>1, <2>2, <2>3, TaskStays
<1> QED BY <1>2, <1>3, <1>4 DEF FeedInv

(***************************************************************************)
(* Steps that leave the store as it is                                     *)
(***************************************************************************)
StoreStands == UNCHANGED <<storeVars, watches>>

LEMMA StandingStore ==
    ASSUME FeedInv, StoreStands
    PROVE  /\ StoreInv' /\ Grown
           /\ \A c : /\ End(c)' = End(c) /\ PrunedAt(c)' = PrunedAt(c) /\ (IsRun(c)' <=> IsRun(c))
                     /\ \A n : EntryAt(c, n)' = EntryAt(c, n)
           /\ \A c, from, m : Follows(c, from, m) => Follows(c, from, m)'
           /\ \A c, u, g : PageInv(c, u, g) => PageInv(c, u, g)'
<1>1. StoreInv /\ StoreTypes /\ UNCHANGED <<log, tx, counter, outbox, cut, now, stored, watches>>
  BY DEF FeedInv, StoreInv, StoreStands, storeVars
<1>2. StoreInv'
  BY <1>1 DEF StoreInv, StoreTypes, Numbering, RowsMatch, Numbered
<1>3. Grown
  BY <1>1 DEF Grown, StoreTypes
<1>4. \A c : /\ End(c)' = End(c) /\ PrunedAt(c)' = PrunedAt(c) /\ (IsRun(c)' <=> IsRun(c))
            /\ \A n : EntryAt(c, n)' = EntryAt(c, n)
  BY <1>1 DEF End, PrunedAt, IsRun, EntryAt
<1>5. ASSUME NEW c, NEW from, NEW m, Follows(c, from, m) PROVE Follows(c, from, m)'
  BY <1>4, <1>5 DEF Follows
<1>6. ASSUME NEW c, NEW u, NEW g, PageInv(c, u, g) PROVE PageInv(c, u, g)'
  BY <1>4, <1>6 DEF PageInv
<1> QED BY <1>2, <1>3, <1>4, <1>5, <1>6

\* A step of one task: what is left to show is that task's part.
LEMMA TaskStepKeepsFeed ==
    ASSUME FeedInv, StoreStands, UNCHANGED <<at, last, conn, wire>>, NEW s \in Tasks,
           NEW j \in {NoTask} \cup TaskType, task' = [task EXCEPT ![s] = j],
           j # NoTask =>
             /\ j.cursor <= End(j.client)
             /\ IsRun(j.client) \/ j.pc # "read" => j.cursor # Nowhere
             /\ j.pc = "send" => PageInv(j.client, j.cursor, j.page)
             /\ j.pc = "wait" => j.page = {}
             /\ conn[j.client] = s => WireEnd(j.client) \in {Nowhere, j.cursor}
    PROVE  FeedInv'
<1>1. ClientTypes /\ watches' = watches
  BY DEF FeedInv, StoreStands
<1>2. StoreInv' /\ Grown
  BY StandingStore
<1>3. ClientTypes'
  BY <1>1 DEF ClientTypes
<1>4. ASSUME NEW c \in Clients PROVE WireInv(c)'
  <2>1. conn[c] = NoTask => wire[c] = <<>>
    BY DEF FeedInv, WireInv
  <2> QED BY <1>1, <1>2, <2>1, WireStays
<1>5. \A c : WireEnd(c)' = WireEnd(c)
  BY DEF WireEnd
<1>6. TaskInv(s)'
  <2>1. task'[s] = j
    BY <1>1 DEF ClientTypes
  <2>2. j # NoTask => /\ End(j.client)' = End(j.client) /\ (IsRun(j.client)' <=> IsRun(j.client))
                      /\ PageInv(j.client, j.cursor, j.page) => PageInv(j.client, j.cursor, j.page)'
    BY StandingStore
  <2> QED BY <1>5, <2>1, <2>2 DEF TaskInv
<1>7. ASSUME NEW x \in Tasks, x # s PROVE TaskInv(x)'
  <2> SUFFICES ASSUME task'[x] # NoTask PROVE TaskInv(x)'
    BY DEF TaskInv
  <2>1. PICK k : k = task[x]
    OBVIOUS
  <2>2. task'[x] = k /\ k # NoTask
    BY <1>1, <1>7, <2>1 DEF ClientTypes
  <2> QED BY <1>1, <1>2, <1>5, <2>1, <2>2, TaskStays
<1> QED BY <1>2, <1>3, <1>4, <1>6, <1>7 DEF FeedInv

LEMMA WakeKeepsFeed ==
    ASSUME FeedInv, StoreStands, UNCHANGED <<at, last, conn, wire>>, NEW ps, task' = Wakened(ps)
    PROVE  FeedInv'
<1>1. ClientTypes /\ watches' = watches
  BY DEF FeedInv, StoreStands
<1>2. StoreInv' /\ Grown
  BY StandingStore
<1>3. ASSUME NEW s \in Tasks
      PROVE  \/ task[s] = NoTask /\ task'[s] = NoTask
             \/ /\ task[s] # NoTask /\ task'[s] # NoTask /\ task'[s] \in TaskType
                /\ task'[s].client = task[s].client /\ task'[s].cursor = task[s].cursor
                /\ task'[s].pc = task[s].pc /\ task'[s].page = task[s].page
  <2>1. CASE task[s] = NoTask
    BY <2>1 DEF Wakened
  <2>2. CASE task[s] # NoTask
    <3>1. task[s] \in TaskType
      BY <1>1, <2>2, TaskFields
    <3>2. task'[s] \in {task[s], [task[s] EXCEPT !.hinted = TRUE]}
      BY DEF Wakened
    <3> QED BY <2>2, <3>1, <3>2, TaskIsSomething DEF TaskType
  <2> QED BY <2>1, <2>2
<1>4. ClientTypes'
  <2>1. task' = [s \in Tasks |-> task'[s]]
    BY DEF Wakened
  <2>2. \A s \in Tasks : task'[s] \in {NoTask} \cup TaskType
    BY <1>3
  <2>3. task' \in [Tasks -> {NoTask} \cup TaskType]
    BY <2>1, <2>2
  <2> QED BY <1>1, <2>3 DEF ClientTypes
<1>5. ASSUME NEW c \in Clients PROVE WireInv(c)'
  <2>1. conn[c] = NoTask => wire[c] = <<>>
    BY DEF FeedInv, WireInv
  <2> QED BY <1>1, <1>2, <2>1, WireStays
<1>6. ASSUME NEW s \in Tasks PROVE TaskInv(s)'
  <2> SUFFICES ASSUME task'[s] # NoTask PROVE TaskInv(s)'
    BY DEF TaskInv
  <2>1. PICK k : k = task[s]
    OBVIOUS
  <2>2. PICK j : j = task'[s]
    OBVIOUS
  <2>3. WireEnd(k.client)' = WireEnd(k.client) /\ conn' = conn
    BY DEF WireEnd
  <2>4. /\ k # NoTask /\ j # NoTask /\ j.client = k.client /\ j.cursor = k.cursor
        /\ j.pc = k.pc /\ j.page = k.page
    BY <1>3, <2>1, <2>2
  <2> QED BY <1>1, <1>2, <2>1, <2>2, <2>3, <2>4, TaskStays
<1> QED BY <1>2, <1>4, <1>5, <1>6 DEF FeedInv

(***************************************************************************)
(* Pages                                                                   *)
(***************************************************************************)
\* A page of `count` messages that continues the cursor of c.
IsPage(c, cursor, page, count) ==
    /\ page \subseteq MessageType /\ count \in Nat /\ cursor + count <= End(c)
    /\ \A m \in page : m.id \in (cursor + 1)..(cursor + count) /\ m.entry = EntryAt(c, m.id)
    /\ \A i \in (cursor + 1)..(cursor + count) : \E m \in page : m.id = i

LEMMA PageCounts ==
    ASSUME NEW c, NEW cursor \in Nat, NEW page, NEW count, IsPage(c, cursor, page, count)
    PROVE  Cardinality(page) = count
<1> DEFINE key == [m \in page |-> m.id]
<1>1. key \in [page -> Nat]
  BY DEF IsPage, MessageType
<1>2. \A m \in page : key[m] \in (cursor + 1)..(cursor + count)
  BY DEF IsPage
<1>3. ASSUME NEW m \in page, NEW n \in page, key[m] = key[n] PROVE m = n
  <2>1. m \in MessageType /\ n \in MessageType /\ m.id = n.id /\ m.entry = n.entry
    BY <1>3 DEF IsPage
  <2> QED BY <2>1 DEF MessageType
<1>4. \A i \in (cursor + 1)..(cursor + count) : \E m \in page : key[m] = i
  BY DEF IsPage
<1>5. count \in Nat
  BY DEF IsPage
<1> HIDE DEF key
<1> QED BY <1>1, <1>2, <1>3, <1>4, <1>5, KeyedCount

LEMMA PageContinues ==
    ASSUME StoreInv, watches \in [Clients -> Watchable], NEW c \in Clients,
           NEW cursor \in Nat, NEW page, NEW count, IsPage(c, cursor, page, count)
    PROVE  PageInv(c, cursor, page)
<1>1. End(c) \in Nat /\ count \in Nat /\ cursor + count <= End(c)
  BY ListTypes DEF IsPage
<1>2. ASSUME NEW m \in page PROVE m.id \in (cursor + 1)..End(c) /\ m.entry = EntryAt(c, m.id)
  <2>1. m.id \in (cursor + 1)..(cursor + count) /\ m.entry = EntryAt(c, m.id)
    BY DEF IsPage
  <2> QED BY <1>1, <2>1
<1>3. ASSUME NEW m \in page, NEW i \in (cursor + 1)..m.id PROVE \E n \in page : n.id = i
  <2>1. m.id \in (cursor + 1)..(cursor + count)
    BY DEF IsPage
  <2>2. i \in (cursor + 1)..(cursor + count)
    BY <1>1, <2>1
  <2> QED BY <2>2 DEF IsPage
<1> QED BY <1>2, <1>3 DEF PageInv

Fewer(a, b) == IF a <= b THEN a ELSE b

\* run_stream reads one event more than a page, from one before the cursor,
\* and so sends Page events, or all there are.
LEMMA RunPageIsPage ==
    ASSUME StoreInv, watches \in [Clients -> Watchable], NEW c \in Clients, IsRun(c),
           NEW cursor \in Nat, cursor <= End(c)
    PROVE  IsPage(c, cursor, RunPage(watches[c], cursor), Fewer(Page, End(c) - cursor))
<1> DEFINE r    == watches[c]
           n    == log[r].n
           from == IF cursor = 0 THEN 0 ELSE cursor - 1
           got  == Min({n - from, Page + 1})
           skip == IF cursor > 0 THEN 1 ELSE 0
           count == Fewer(Page, End(c) - cursor)
<1>1. r \in Runs /\ n \in Nat /\ End(c) = n /\ Page \in Nat /\ Page > 0
  BY ListTypes, StreamsAssumption DEF End
<1> HIDE DEF r, n
<1>2. got = Fewer(n - from, Page + 1)
  BY <1>1, MinOfTwo DEF Fewer
<1>3. Min({Page, got - skip}) = count
  <2>1. got - skip \in Int
    BY <1>1, <1>2 DEF Fewer
  <2> HIDE DEF got
  <2>2. Min({Page, got - skip}) = Fewer(Page, got - skip)
    BY <1>1, <2>1, MinOfTwo DEF Fewer
  <2> QED BY <1>1, <1>2, <2>2 DEF Fewer
<1>4. from + skip = cursor
  OBVIOUS
<1>5. RunPage(r, cursor) = {[id |-> cursor + i, entry |-> <<r, from + skip + i>>] : i \in 1..count}
  <2>1. RunPage(r, cursor) = {[id |-> cursor + i, entry |-> <<r, from + skip + i>>] :
                                 i \in 1..Min({Page, got - skip})}
    BY DEF RunPage, n
  <2> HIDE DEF got, skip, from, count
  <2> QED BY <1>3, <2>1
<1>6. count \in Nat /\ cursor + count <= End(c)
  BY <1>1 DEF Fewer
<1> HIDE DEF count, from, skip
<1>7. ASSUME NEW i \in 1..count
      PROVE  LET m == [id |-> cursor + i, entry |-> <<r, from + skip + i>>]
             IN  /\ m \in MessageType /\ m.id \in (cursor + 1)..(cursor + count)
                 /\ m.entry = EntryAt(c, m.id)
  <2>1. cursor + i \in (cursor + 1)..(cursor + count) /\ cursor + i \in Nat
    BY <1>6
  <2>2. <<r, cursor + i>> \in Runs \X Nat
    BY <1>1, <2>1
  <2>3. EntryAt(c, cursor + i) = <<r, cursor + i>>
    BY DEF EntryAt, r
  <2> QED BY <1>4, <2>1, <2>2, <2>3 DEF MessageType
<1>8. RunPage(r, cursor) \subseteq MessageType
  BY <1>5, <1>7
<1>9. \A m \in RunPage(r, cursor) : m.id \in (cursor + 1)..(cursor + count) /\ m.entry = EntryAt(c, m.id)
  BY <1>5, <1>7
<1>10. ASSUME NEW i \in (cursor + 1)..(cursor + count)
       PROVE  \E m \in RunPage(r, cursor) : m.id = i
  <2>1. i - cursor \in 1..count /\ cursor + (i - cursor) = i
    BY <1>6
  <2> DEFINE m == [id |-> cursor + (i - cursor), entry |-> <<r, from + skip + (i - cursor)>>]
  <2>2. m \in RunPage(r, cursor) /\ m.id = i
    BY <1>5, <2>1
  <2> HIDE DEF m
  <2> QED BY <2>2
<1> QED BY <1>6, <1>8, <1>9, <1>10 DEF IsPage, r, count

\* outbox_stream's page: the first Page rows after the cursor, and so, as no
\* number is left out, the next Page entries or all there are.
LEMMA OutboxPageIsPage ==
    ASSUME StoreInv, watches \in [Clients -> Watchable], NEW c \in Clients, ~IsRun(c),
           NEW cursor \in Nat, cursor <= End(c), ~(cursor < counter[watches[c]].pruned)
    PROVE  IsPage(c, cursor, OutboxPage(watches[c], cursor), Fewer(Page, End(c) - cursor))
<1> DEFINE p == watches[c]
           n == counter[p].last
           rows == {row \in outbox[p] : row.seq > cursor}
           Below(row) == {x \in rows : x.seq < row.seq}
           count == Fewer(Page, n - cursor)
           page == OutboxPage(p, cursor)
<1>1. /\ p \in Principals /\ n \in Nat /\ End(c) = n /\ Page \in Nat
      /\ counter[p].pruned \in Nat /\ counter[p].pruned <= cursor
      /\ RowsMatch(p) /\ outbox[p] \subseteq RowType
  <2>1. p \in Principals /\ End(c) = n /\ Page \in Nat
    BY ListTypes, StreamsAssumption DEF End
  <2>2. StoreTypes
    BY DEF StoreInv
  <2> QED BY <2>1, <2>2 DEF StoreInv, StoreTypes
<1> HIDE DEF n
<1>2. \A row \in rows : row.seq \in (cursor + 1)..n /\ row.seq \in Nat /\ row \in RowType
                        /\ stored[p][row.seq] = <<row.run, row.runSeq>>
  BY <1>1 DEF RowsMatch, RowType, n
<1>3. \A row, other \in rows : row.seq = other.seq => row = other
  BY <1>1 DEF RowsMatch
<1>4. ASSUME NEW i \in (cursor + 1)..n PROVE \E row \in rows : row.seq = i
  <2>1. i \in (counter[p].pruned + 1)..counter[p].last
    BY <1>1 DEF n
  <2> QED BY <1>1, <2>1 DEF RowsMatch
<1> HIDE DEF rows
<1>5. ASSUME NEW row \in rows PROVE Cardinality(Below(row)) = row.seq - 1 - cursor
  <2> DEFINE key == [x \in Below(row) |-> x.seq]
             k == row.seq - 1 - cursor
  <2>1. k \in Nat /\ row.seq \in Nat
    BY <1>1, <1>2
  <2>2. key \in [Below(row) -> Nat] /\ \A x \in Below(row) : key[x] \in (cursor + 1)..(cursor + k)
    <3>1. ASSUME NEW x \in Below(row) PROVE x.seq \in Nat /\ x.seq \in (cursor + 1)..(cursor + k)
      BY <1>1, <1>2, <2>1
    <3> QED BY <3>1
  <2>3. \A x, y \in Below(row) : key[x] = key[y] => x = y
    BY <1>3
  <2>4. ASSUME NEW i \in (cursor + 1)..(cursor + k) PROVE \E x \in Below(row) : key[x] = i
    <3>1. i \in (cursor + 1)..n /\ i < row.seq
      BY <1>1, <1>2, <2>1
    <3>2. PICK x \in rows : x.seq = i
      BY <1>4, <3>1
    <3> QED BY <3>1, <3>2
  <2> HIDE DEF key, k
  <2>5. Cardinality(Below(row)) = k
    BY <2>1, <2>2, <2>3, <2>4, KeyedCount
  <2> QED BY <2>5 DEF k
<1>6. page = {[id |-> row.seq, entry |-> <<row.run, row.runSeq>>] :
                 row \in {x \in rows : Cardinality(Below(x)) < Page}}
  BY DEF OutboxPage, RowsAfter, rows
<1> HIDE DEF Below, page
<1>7. count \in Nat /\ cursor + count <= n
  BY <1>1 DEF Fewer
<1>8. ASSUME NEW m \in page
      PROVE  m \in MessageType /\ m.id \in (cursor + 1)..(cursor + count) /\ m.entry = EntryAt(c, m.id)
  <2>1. PICK row \in rows : /\ Cardinality(Below(row)) < Page
                            /\ m = [id |-> row.seq, entry |-> <<row.run, row.runSeq>>]
    BY <1>6
  <2>2. row.seq - 1 - cursor < Page /\ row.seq \in (cursor + 1)..n
    BY <1>2, <1>5, <2>1
  <2>3. row.seq \in (cursor + 1)..(cursor + count)
    BY <1>1, <2>2 DEF Fewer
  <2>4. EntryAt(c, row.seq) = <<row.run, row.runSeq>>
    BY <1>2 DEF EntryAt
  <2>5. row.run \in Runs /\ row.runSeq \in Nat /\ row.seq \in Nat
    BY <1>2 DEF RowType
  <2> QED BY <2>1, <2>3, <2>4, <2>5 DEF MessageType
<1>9. ASSUME NEW i \in (cursor + 1)..(cursor + count) PROVE \E m \in page : m.id = i
  <2>1. i \in (cursor + 1)..n /\ i - 1 - cursor < Page
    BY <1>1 DEF Fewer
  <2>2. PICK row \in rows : row.seq = i
    BY <1>4, <2>1
  <2>3. Cardinality(Below(row)) < Page
    BY <1>5, <2>1, <2>2
  <2> DEFINE m == [id |-> row.seq, entry |-> <<row.run, row.runSeq>>]
  <2>4. m \in page /\ m.id = i
    BY <1>6, <2>2, <2>3
  <2> HIDE DEF m
  <2> QED BY <2>4
<1> QED BY <1>1, <1>7, <1>8, <1>9 DEF IsPage, page, count, n
(***************************************************************************)
(* The tasks' steps                                                        *)
(***************************************************************************)
\* What the invariant says of a task's state k.
TaskIs(s, k) ==
    /\ k = task[s] /\ k # NoTask /\ k \in TaskType
    /\ k.client \in Clients /\ k.cursor \in Nat \cup {Nowhere}
    /\ k.cursor <= End(k.client)
    /\ IsRun(k.client) \/ k.pc # "read" => k.cursor # Nowhere
    /\ k.pc = "send" => PageInv(k.client, k.cursor, k.page)
    /\ k.pc = "wait" => k.page = {}
    /\ conn[k.client] = s => WireEnd(k.client) \in {Nowhere, k.cursor}

LEMMA TaskFacts ==
    ASSUME FeedInv, NEW s \in Tasks, task[s] # NoTask
    PROVE  TaskIs(s, task[s])
<1>1. ClientTypes /\ TaskInv(s)
  BY DEF FeedInv
<1>2. task[s].client \in Clients /\ task[s].cursor \in Nat \cup {Nowhere} /\ task[s] \in TaskType
  BY <1>1, TaskFields
<1> QED BY <1>1, <1>2 DEF TaskInv, TaskIs

LEMMA TaskEndsKeepsFeed ==
    ASSUME FeedInv, StoreStands, UNCHANGED <<at, last, conn, wire>>, NEW s \in Tasks,
           task' = [task EXCEPT ![s] = NoTask]
    PROVE  FeedInv'
BY TaskStepKeepsFeed

LEMMA ReadEndKeepsFeed ==
    ASSUME FeedInv, NEW s \in Tasks, ReadEnd(s)
    PROVE  FeedInv'
<1>1. PICK k : k = task[s]
  OBVIOUS
<1>2. TaskIs(s, k) /\ k.pc = "read" /\ k.cursor = Nowhere
  BY <1>1, TaskFacts DEF ReadEnd
<1> DEFINE n == counter[Owner(k.client)].last
           j == [k EXCEPT !.cursor = n]
<1>3. StoreInv /\ watches \in [Clients -> Watchable] /\ k.client \in Clients /\ k \in TaskType
  BY <1>2 DEF FeedInv, ClientTypes, TaskIs
<1>4. ~IsRun(k.client)
  BY <1>2 DEF TaskIs
<1>5. n = End(k.client) /\ n \in Nat
  BY <1>3, <1>4, ListTypes DEF Owner, End
<1>6. StoreStands /\ UNCHANGED <<at, last, conn, wire>> /\ task' = [task EXCEPT ![s] = j]
  BY <1>1 DEF ReadEnd, StoreStands
<1> HIDE DEF n
<1>7. j \in TaskType /\ j.cursor = n /\ j.client = k.client /\ j.pc = "read"
  BY <1>2, <1>3, <1>5 DEF TaskType
<1>8. conn[k.client] = s => WireEnd(k.client) = Nowhere
  BY <1>2 DEF TaskIs
<1>9. n # Nowhere /\ n <= n
  BY <1>5 DEF Nowhere
<1> HIDE DEF j
<1> QED BY <1>5, <1>6, <1>7, <1>8, <1>9, TaskStepKeepsFeed

\* What a task sends from where it stands: what follows, or a reset.
ReadOf(c, cursor) ==
    IF IsRun(c) THEN RunPage(watches[c], cursor) ELSE OutboxPage(watches[c], cursor)

LEMMA ReadIsPage ==
    ASSUME StoreInv, watches \in [Clients -> Watchable], NEW c \in Clients,
           NEW cursor \in Nat, cursor <= End(c)
    PROVE  /\ PageInv(c, cursor, ReadOf(c, cursor)) /\ ReadOf(c, cursor) \subseteq MessageType
           /\ \/ \E m \in ReadOf(c, cursor) : m.entry = <<>>
              \/ Cardinality(ReadOf(c, cursor)) = Page
              \/ \A i \in (cursor + 1)..End(c) : \E m \in ReadOf(c, cursor) : m.id = i
<1> DEFINE page == ReadOf(c, cursor)
<1>1. CASE ~IsRun(c) /\ cursor < counter[watches[c]].pruned
  <2>1. page = {[id |-> counter[watches[c]].pruned, entry |-> <<>>]}
    BY <1>1 DEF ReadOf, OutboxPage
  <2>2. PrunedAt(c) = counter[watches[c]].pruned /\ PrunedAt(c) \in Nat
    BY <1>1, ListTypes DEF PrunedAt
  <2> QED BY <1>1, <2>1, <2>2 DEF PageInv, MessageType
<1>2. CASE IsRun(c) \/ ~(cursor < counter[watches[c]].pruned)
  <2> DEFINE count == Fewer(Page, End(c) - cursor)
  <2>1. IsPage(c, cursor, page, count)
    BY <1>2, RunPageIsPage, OutboxPageIsPage DEF ReadOf
  <2>2. End(c) \in Nat /\ Page \in Nat
    BY ListTypes, StreamsAssumption
  <2>3. count = Page \/ cursor + count = End(c)
    BY <2>2 DEF Fewer
  <2> HIDE DEF page, count
  <2>4. PageInv(c, cursor, page) /\ Cardinality(page) = count /\ page \subseteq MessageType
    BY <2>1, PageContinues, PageCounts DEF IsPage
  <2>5. cursor + count = End(c) => \A i \in (cursor + 1)..End(c) : \E m \in page : m.id = i
    BY <2>1 DEF IsPage
  <2> QED BY <2>3, <2>4, <2>5 DEF page
<1> QED BY <1>1, <1>2

Sending(k, page, full) == [k EXCEPT !.pc = "send", !.page = page, !.full = full]

\* A read ends the task, or leaves it with the page it is to send.
AfterRead(s, k, page) ==
    \/ task' = [task EXCEPT ![s] = NoTask]
    \/ Cardinality(page) = Page /\ task' = [task EXCEPT ![s] = Sending(k, page, TRUE)]
    \/ Cardinality(page) # Page /\ task' = [task EXCEPT ![s] = Sending(k, page, FALSE)]

LEMMA ReadGives ==
    ASSUME NEW s \in Tasks, NEW k, k = task[s], Read(s),
           NEW page, page = ReadOf(k.client, k.cursor)
    PROVE  /\ StoreStands /\ UNCHANGED <<at, last, conn, wire, heard, announce, notes>>
           /\ k # NoTask /\ k.pc = "read" /\ k.cursor # Nowhere
           /\ AfterRead(s, k, page)
<1>1. /\ StoreStands /\ UNCHANGED <<at, last, conn, wire, heard, announce, notes>>
      /\ k # NoTask /\ k.pc = "read" /\ k.cursor # Nowhere
  BY DEF Read, StoreStands
<1> DEFINE full == (Cardinality(page) = Page)
           j == Sending(k, page, full)
<1>2. task' = [task EXCEPT ![s] = NoTask] \/ task' = [task EXCEPT ![s] = j]
  BY DEF Read, ReadOf, Sending
<1>3. CASE Cardinality(page) = Page
  <2>1. full = TRUE
    BY <1>3
  <2>2. j = Sending(k, page, TRUE)
    BY <2>1
  <2> HIDE DEF j, full
  <2> QED BY <1>1, <1>2, <1>3, <2>2 DEF AfterRead
<1>4. CASE Cardinality(page) # Page
  <2>1. full = FALSE
    BY <1>4
  <2>2. j = Sending(k, page, FALSE)
    BY <2>1
  <2> HIDE DEF j, full
  <2> QED BY <1>1, <1>2, <1>4, <2>2 DEF AfterRead
<1> QED BY <1>3, <1>4

LEMMA ReadKeepsFeed ==
    ASSUME FeedInv, NEW s \in Tasks, Read(s)
    PROVE  FeedInv'
<1>1. PICK k : k = task[s]
  OBVIOUS
<1>2. TaskIs(s, k)
  BY <1>1, TaskFacts DEF Read
<1>3. StoreInv /\ watches \in [Clients -> Watchable] /\ k.client \in Clients /\ k \in TaskType
  BY <1>2 DEF FeedInv, ClientTypes, TaskIs
<1>4. StoreStands /\ UNCHANGED <<at, last, conn, wire>> /\ k.cursor # Nowhere
  BY <1>1, ReadGives
<1>5. k.cursor \in Nat /\ k.cursor <= End(k.client)
  BY <1>2, <1>4 DEF TaskIs
<1>6. PICK page : page = ReadOf(k.client, k.cursor)
  OBVIOUS
<1>7. PageInv(k.client, k.cursor, page) /\ page \subseteq MessageType
  BY <1>3, <1>5, <1>6, ReadIsPage
<1>8. CASE task' = [task EXCEPT ![s] = NoTask]
  BY <1>4, <1>8, TaskEndsKeepsFeed
<1>9. ASSUME NEW full \in BOOLEAN,
              task' = [task EXCEPT ![s] = Sending(k, page, full)]
       PROVE  FeedInv'
  <2> DEFINE j == Sending(k, page, full)
  <2>1. /\ j \in TaskType /\ j.client = k.client /\ j.cursor = k.cursor /\ j.pc = "send"
        /\ j.page = page
    BY <1>3, <1>7 DEF TaskType, Sending
  <2>2. task' = [task EXCEPT ![s] = j]
    BY <1>9
  <2> HIDE DEF j
  <2>3. conn[k.client] = s => WireEnd(k.client) \in {Nowhere, k.cursor}
    BY <1>2 DEF TaskIs
  <2> QED BY <1>4, <1>5, <1>7, <2>1, <2>2, <2>3, TaskStepKeepsFeed
<1>10. \/ task' = [task EXCEPT ![s] = NoTask]
       \/ task' = [task EXCEPT ![s] = Sending(k, page, TRUE)]
       \/ task' = [task EXCEPT ![s] = Sending(k, page, FALSE)]
  <2>1. AfterRead(s, k, page)
    BY <1>1, <1>6, ReadGives
  <2> QED BY <2>1 DEF AfterRead
<1> QED BY <1>8, <1>9, <1>10

LEMMA MoveKeepsFeed ==
    ASSUME FeedInv, NEW s \in Tasks, PageSent(s) \/ Hinted(s) \/ Poll(s)
    PROVE  FeedInv'
<1>1. PICK k : k = task[s]
  OBVIOUS
<1>2. TaskIs(s, k) /\ k.page = {} /\ k.pc # "read"
  BY <1>1, TaskFacts DEF PageSent, Hinted, Poll, TaskIs
<1>3. /\ StoreStands /\ UNCHANGED <<at, last, conn, wire>>
      /\ \E pc \in {"read", "wait"}, hinted \in BOOLEAN :
            task' = [task EXCEPT ![s] = [k EXCEPT !.pc = pc, !.hinted = hinted]]
  <2>1. CASE PageSent(s) \/ Poll(s)
    <3>1. StoreStands /\ UNCHANGED <<at, last, conn, wire>>
      BY <2>1 DEF PageSent, Poll, StoreStands
    <3>2. PICK pc \in {"read", "wait"} : task' = [task EXCEPT ![s].pc = pc]
      BY <2>1 DEF PageSent, Poll, To
    <3>3. [k EXCEPT !.pc = pc] = [k EXCEPT !.pc = pc, !.hinted = k.hinted] /\ k.hinted \in BOOLEAN
      BY <1>2 DEF TaskIs, TaskType
    <3>4. task' = [task EXCEPT ![s] = [k EXCEPT !.pc = pc]]
      BY <1>1, <3>2
    <3> QED BY <3>1, <3>3, <3>4
  <2>2. CASE Hinted(s)
    <3>1. StoreStands /\ UNCHANGED <<at, last, conn, wire>>
      BY <2>2 DEF Hinted, StoreStands
    <3>2. task' = [task EXCEPT ![s] = [k EXCEPT !.pc = "read", !.hinted = FALSE]]
      BY <1>1, <2>2 DEF Hinted
    <3> QED BY <3>1, <3>2
  <2> QED BY <2>1, <2>2
<1>4. PICK pc \in {"read", "wait"}, hinted \in BOOLEAN :
         task' = [task EXCEPT ![s] = [k EXCEPT !.pc = pc, !.hinted = hinted]]
  BY <1>3
<1> DEFINE j == [k EXCEPT !.pc = pc, !.hinted = hinted]
<1>5. j \in TaskType /\ j.client = k.client /\ j.cursor = k.cursor /\ j.page = {} /\ j.pc = pc
  BY <1>2 DEF TaskIs, TaskType
<1>6. task' = [task EXCEPT ![s] = j]
  BY <1>4
<1> HIDE DEF j
<1>7. /\ k.cursor <= End(k.client) /\ k.cursor # Nowhere
      /\ conn[k.client] = s => WireEnd(k.client) \in {Nowhere, k.cursor}
  BY <1>2 DEF TaskIs
<1> QED BY <1>3, <1>5, <1>6, <1>7, TaskStepKeepsFeed

LEMMA GoneKeepsFeed ==
    ASSUME FeedInv, NEW s \in Tasks, NoticeGone(s) \/ ReadFails(s)
    PROVE  FeedInv'
BY TaskEndsKeepsFeed DEF NoticeGone, ReadFails, StoreStands
\* The number Send picks is the next one after the cursor, or a reset's.
LEMMA SendFollows ==
    ASSUME NEW c, NEW cursor \in Nat, NEW page, page \subseteq MessageType, PageInv(c, cursor, page),
           NEW m \in page, \A other \in page : m.id <= other.id, NEW from, from \in {Nowhere, cursor}
    PROVE  /\ Follows(c, from, m)
           /\ m.entry # <<>> => PageInv(c, m.id, page \ {m})
<1>1. m.id \in Nat /\ from < m.id + 1
  BY DEF MessageType, Nowhere, PageInv
<1>2. CASE /\ ~IsRun(c)
           /\ \A x \in page : x.entry = <<>> /\ x.id \in 1..PrunedAt(c) /\ cursor < x.id
  <2>1. from < m.id
    BY <1>1, <1>2 DEF Nowhere
  <2> QED BY <1>2, <2>1 DEF Follows
<1>3. CASE /\ \A x \in page : x.id \in (cursor + 1)..End(c) /\ x.entry = EntryAt(c, x.id)
           /\ \A x \in page : \A i \in (cursor + 1)..x.id : \E y \in page : y.id = i
  <2>1. m.id = cursor + 1
    <3>1. m.id \in (cursor + 1)..End(c)
      BY <1>3
    <3>2. cursor + 1 \in (cursor + 1)..m.id
      BY <1>1, <3>1
    <3>3. PICK y \in page : y.id = cursor + 1
      BY <1>3, <3>2
    <3> QED BY <1>1, <3>1, <3>3
  <2>2. Follows(c, from, m)
    <3>1. m.id \in (cursor + 1)..End(c) /\ m.entry = EntryAt(c, m.id)
      BY <1>3
    <3>2. m.id \in 1..End(c)
      BY <3>1
    <3> QED BY <2>1, <3>1, <3>2 DEF Follows
  <2>3. ASSUME NEW x \in page \ {m}
        PROVE  /\ x.id \in (m.id + 1)..End(c) /\ x.entry = EntryAt(c, x.id)
               /\ \A i \in (m.id + 1)..x.id : \E y \in page \ {m} : y.id = i
    <3>1. x.id \in (cursor + 1)..End(c) /\ x.entry = EntryAt(c, x.id) /\ m.entry = EntryAt(c, m.id)
      BY <1>3
    <3>2. x.id # m.id
      <4>1. x \in MessageType /\ m \in MessageType
        OBVIOUS
      <4>2. x.id = m.id => x.entry = m.entry
        BY <3>1
      <4> QED BY <4>1, <4>2 DEF MessageType
    <3>3. x.id \in (m.id + 1)..End(c)
      BY <2>1, <3>1, <3>2
    <3>4. ASSUME NEW i \in (m.id + 1)..x.id PROVE \E y \in page \ {m} : y.id = i
      <4>1. i \in (cursor + 1)..x.id /\ i # m.id
        BY <2>1, <3>1
      <4>2. PICK y \in page : y.id = i
        BY <1>3, <4>1
      <4> QED BY <4>1, <4>2
    <3> QED BY <3>1, <3>3, <3>4
  <2> QED BY <2>2, <2>3 DEF PageInv
<1> QED BY <1>2, <1>3 DEF PageInv

\* A send, in terms of the task's state k and the message m.
SendOf(s, k, m) ==
    /\ k.pc = "send" /\ conn[k.client] = s
    /\ m \in k.page /\ \A other \in k.page : m.id <= other.id
    /\ wire' = [wire EXCEPT ![k.client] = Append(wire[k.client], m)]
    /\ \/ task' = [task EXCEPT ![s] = NoTask]
       \/ m.entry # <<>> /\ task' = [task EXCEPT ![s] = [k EXCEPT !.page = k.page \ {m}, !.cursor = m.id]]

LEMMA SendGives ==
    ASSUME NEW s \in Tasks, NEW k, k = task[s], Send(s)
    PROVE  /\ StoreStands /\ UNCHANGED <<at, last, conn, heard, announce, notes>> /\ k # NoTask
           /\ \E m \in k.page : SendOf(s, k, m)
<1>1. /\ StoreStands /\ UNCHANGED <<at, last, conn, heard, announce, notes>> /\ k # NoTask
      /\ k.pc = "send" /\ conn[k.client] = s
  BY DEF Send, StoreStands, Gone
<1>2. PICK m \in k.page :
         /\ \A other \in k.page : m.id <= other.id
         /\ wire' = [wire EXCEPT ![k.client] = Append(@, m)]
         /\ task' = [task EXCEPT ![s] = IF IsLast(k.client, m) THEN NoTask
                                        ELSE [k EXCEPT !.page = k.page \ {m}, !.cursor = m.id]]
  BY DEF Send
<1>3. CASE IsLast(k.client, m)
  BY <1>1, <1>2, <1>3 DEF SendOf
<1>4. CASE ~IsLast(k.client, m)
  <2>1. m.entry # <<>>
    BY <1>4 DEF IsLast
  <2>2. task' = [task EXCEPT ![s] = [k EXCEPT !.page = k.page \ {m}, !.cursor = m.id]]
    BY <1>2, <1>4
  <2>3. SendOf(s, k, m)
    BY <1>1, <1>2, <2>1, <2>2 DEF SendOf
  <2> QED BY <1>1, <2>3
<1> QED BY <1>3, <1>4

LEMMA SendKeepsFeed ==
    ASSUME FeedInv, NEW s \in Tasks, Send(s)
    PROVE  FeedInv'
<1>1. PICK k : k = task[s]
  OBVIOUS
<1>2. PICK m \in k.page : SendOf(s, k, m)
  BY <1>1, SendGives
<1>3. StoreStands /\ UNCHANGED <<at, last, conn>> /\ k # NoTask /\ watches' = watches
  BY <1>1, SendGives DEF StoreStands
<1>4. TaskIs(s, k)
  BY <1>1, <1>3, TaskFacts
<1>5. PICK c \in Clients : c = k.client
  BY <1>4 DEF TaskIs
<1>6. /\ k \in TaskType /\ k.cursor \in Nat /\ k.page \subseteq MessageType /\ m \in MessageType
      /\ PageInv(c, k.cursor, k.page) /\ conn[c] = s /\ WireEnd(c) \in {Nowhere, k.cursor}
      /\ m.id \in Nat
  BY <1>2, <1>4, <1>5 DEF TaskIs, SendOf, TaskType, MessageType
<1>7. Follows(c, WireEnd(c), m) /\ (m.entry # <<>> => PageInv(c, m.id, k.page \ {m}))
  BY <1>2, <1>6, SendFollows DEF SendOf
<1>8. ClientTypes /\ StoreInv /\ WireInv(c) /\ watches \in [Clients -> Watchable]
  BY DEF FeedInv, ClientTypes
<1>9. wire[c] \in Seq(MessageType) /\ wire'[c] = Append(wire[c], m)
      /\ \A d \in Clients : d # c => wire'[d] = wire[d]
  BY <1>2, <1>5, <1>8 DEF SendOf, ClientTypes
<1>10. /\ wire'[c] \in Seq(MessageType) /\ Len(wire'[c]) = Len(wire[c]) + 1 /\ Len(wire[c]) \in Nat
       /\ wire'[c] # <<>> /\ wire'[c][Len(wire[c]) + 1] = m
       /\ \A i \in 1..Len(wire[c]) : wire'[c][i] = wire[c][i]
  BY <1>6, <1>9, AppendProperties, LenProperties
<1>11. StoreInv' /\ Grown
  BY <1>3, StandingStore
<1>12. ClientTypes'
  <2>1. wire' \in [Clients -> Seq(MessageType)]
    BY <1>2, <1>5, <1>8, <1>9, <1>10 DEF SendOf, ClientTypes
  <2>2. task' \in [Tasks -> {NoTask} \cup TaskType]
    <3>1. [k EXCEPT !.page = k.page \ {m}, !.cursor = m.id] \in TaskType
      BY <1>6 DEF TaskType
    <3> QED BY <1>2, <1>8, <3>1 DEF SendOf, ClientTypes
  <2> QED BY <1>3, <1>8, <2>1, <2>2 DEF ClientTypes
<1>13. ASSUME NEW d \in Clients PROVE WireInv(d)'
  <2>1. CASE d # c
    <3>1. conn'[d] = NoTask => wire'[d] = <<>>
      BY <1>3, <1>9, <2>1 DEF FeedInv, WireInv
    <3> QED BY <1>3, <1>9, <1>11, <2>1, <3>1, WireStays
  <2>2. CASE d = c
    <3>1. End(c)' = End(c) /\ (IsRun(c)' <=> IsRun(c)) /\ at' = at
      BY <1>3, StandingStore
    <3>2. conn'[c] # NoTask
      BY <1>3, <1>6, StreamsAssumption DEF NoTask
    <3>3. ASSUME NEW i \in 1..Len(wire'[c]) PROVE Follows(c, Before(c, i), wire[c][i])'
      <4>1. PICK b : b = Before(c, i)'
        OBVIOUS
      <4>2. PICK n : n = wire'[c][i]
        OBVIOUS
      <4>3. Follows(c, b, n)
        <5>1. CASE i \in 1..Len(wire[c])
          <6>1. i # 1 => i - 1 \in 1..Len(wire[c])
            BY <1>10, <5>1
          <6>2. b = Before(c, i) /\ n = wire[c][i]
            BY <1>3, <1>10, <4>1, <4>2, <5>1, <6>1 DEF Before
          <6> QED BY <1>8, <5>1, <6>2 DEF WireInv
        <5>2. CASE i \notin 1..Len(wire[c])
          <6>1. i = Len(wire[c]) + 1 /\ n = m
            BY <1>10, <4>2, <5>2
          <6>2. b = WireEnd(c)
            <7>1. CASE wire[c] = <<>>
              BY <1>3, <4>1, <6>1, <7>1 DEF Before, WireEnd
            <7>2. CASE wire[c] # <<>>
              <8>1. Len(wire[c]) \in 1..Len(wire[c]) /\ i # 1 /\ i - 1 = Len(wire[c])
                BY <1>9, <1>10, <6>1, <7>2, EmptySeq
              <8> QED BY <1>10, <4>1, <7>2, <8>1 DEF Before, WireEnd
            <7> QED BY <7>1, <7>2
          <6> QED BY <1>7, <6>1, <6>2
        <5> QED BY <5>1, <5>2
      <4>4. Follows(c, b, n)'
        BY <1>3, <4>3, StandingStore
      <4> QED BY <4>1, <4>2, <4>4 DEF Follows
    <3> QED BY <1>8, <2>2, <3>1, <3>2, <3>3 DEF WireInv
  <2> QED BY <2>1, <2>2
<1>14. TaskInv(s)'
  <2>1. CASE task' = [task EXCEPT ![s] = NoTask]
    BY <1>8, <2>1 DEF TaskInv, ClientTypes
  <2>2. CASE m.entry # <<>> /\ task' = [task EXCEPT ![s] = [k EXCEPT !.page = k.page \ {m}, !.cursor = m.id]]
    <3> DEFINE j == [k EXCEPT !.page = k.page \ {m}, !.cursor = m.id]
    <3>1. /\ j.client = c /\ j.cursor = m.id /\ j.page = k.page \ {m} /\ j.pc = "send"
          /\ task'[s] = j
      BY <1>2, <1>5, <1>6, <1>8, <2>2 DEF SendOf, TaskType, ClientTypes
    <3> HIDE DEF j
    <3>2. PageInv(c, m.id, k.page \ {m})'
      BY <1>3, <1>7, <2>2, StandingStore
    <3>3. m.id <= End(c)'
      <4>1. m.id <= End(c)
        <5>1. PrunedAt(c) <= End(c) /\ PrunedAt(c) \in Nat /\ End(c) \in Nat
          BY <1>8, ListTypes
        <5> QED BY <1>6, <1>7, <5>1 DEF Follows
      <4>2. End(c)' = End(c)
        BY <1>3, StandingStore
      <4> QED BY <4>1, <4>2
    <3>4. WireEnd(c)' = m.id
      BY <1>10 DEF WireEnd
    <3>5. m.id # Nowhere
      BY <1>6 DEF Nowhere
    <3> QED BY <3>1, <3>2, <3>3, <3>4, <3>5 DEF TaskInv
  <2> QED BY <1>2, <2>1, <2>2 DEF SendOf
<1>15. ASSUME NEW x \in Tasks, x # s PROVE TaskInv(x)'
  <2> SUFFICES ASSUME task'[x] # NoTask PROVE TaskInv(x)'
    BY DEF TaskInv
  <2>1. PICK y : y = task[x]
    OBVIOUS
  <2>2. task'[x] = y /\ y # NoTask
    BY <1>2, <1>8, <1>15, <2>1 DEF SendOf, ClientTypes
  <2>3. conn'[y.client] = x => conn[y.client] = x /\ y.client # c
    BY <1>3, <1>6, <1>15
  <2>4. y.client \in Clients
    BY <1>8, <2>1, <2>2, TaskFields
  <2>5. y.client # c => WireEnd(y.client)' = WireEnd(y.client)
    BY <1>3, <1>9, <2>4 DEF WireEnd
  <2> QED BY <1>3, <1>11, <2>1, <2>2, <2>3, <2>5, TaskStays
<1> QED BY <1>11, <1>12, <1>13, <1>14, <1>15 DEF FeedInv
(***************************************************************************)
(* The clients' steps                                                      *)
(***************************************************************************)
LEMMA ConnectKeepsFeed ==
    ASSUME FeedInv, NEW c \in Clients, Connect(c)
    PROVE  FeedInv'
<1>1. ClientTypes /\ StoreInv /\ WireInv(c) /\ conn[c] = NoTask /\ wire[c] = <<>>
  BY DEF FeedInv, Connect, WireInv
<1>2. StoreStands /\ UNCHANGED <<at, last, wire>> /\ watches' = watches
  BY DEF Connect, StoreStands
<1>3. StoreInv' /\ Grown
  BY <1>2, StandingStore
<1> DEFINE j == [client |-> c, cursor |-> at[c], pc |-> "read", page |-> {}, full |-> FALSE,
                 hinted |-> FALSE]
<1>4. PICK s \in Tasks : /\ Free(s) /\ task' = [task EXCEPT ![s] = j]
                         /\ conn' = [conn EXCEPT ![c] = s]
  <2> DEFINE free == CHOOSE x \in Tasks : Free(x)
  <2>1. free \in Tasks /\ Free(free)
    BY DEF Connect
  <2>2. task' = [task EXCEPT ![free] = j] /\ conn' = [conn EXCEPT ![c] = free]
    BY DEF Connect
  <2> HIDE DEF free
  <2> QED BY <2>1, <2>2
<1>5. j \in TaskType /\ j.client = c /\ j.cursor = at[c] /\ j.pc = "read"
  BY <1>1 DEF TaskType, ClientTypes
<1> HIDE DEF j
<1>6. /\ conn'[c] = s /\ task'[s] = j /\ s # NoTask
      /\ \A d \in Clients : d # c => conn'[d] = conn[d]
      /\ \A x \in Tasks : x # s => task'[x] = task[x]
  BY <1>1, <1>4, StreamsAssumption DEF ClientTypes, NoTask
<1>7. ClientTypes'
  BY <1>1, <1>2, <1>4, <1>5 DEF ClientTypes
<1>8. ASSUME NEW d \in Clients PROVE WireInv(d)'
  <2>1. conn[d] = NoTask => wire[d] = <<>>
    BY DEF FeedInv, WireInv
  <2> QED BY <1>2, <1>3, <1>6, <2>1, WireStays
<1>9. TaskInv(s)'
  <2>1. End(c)' = End(c) /\ (IsRun(c)' <=> IsRun(c)) /\ WireEnd(c)' = at[c]
    BY <1>1, <1>2, StandingStore DEF WireEnd
  <2>2. PICK u : u = at[c]
    OBVIOUS
  <2>3. u <= End(c) /\ (IsRun(c) => u # Nowhere)
    BY <1>1, <2>2 DEF WireInv
  <2>4. task'[s].client = c /\ task'[s].cursor = u /\ task'[s].pc = "read"
    BY <1>5, <1>6, <2>2
  <2> QED BY <2>1, <2>2, <2>3, <2>4 DEF TaskInv
<1>10. ASSUME NEW x \in Tasks, x # s PROVE TaskInv(x)'
  <2> SUFFICES ASSUME task'[x] # NoTask PROVE TaskInv(x)'
    BY DEF TaskInv
  <2>1. PICK y : y = task[x]
    OBVIOUS
  <2>2. task'[x] = y /\ y # NoTask /\ y.client \in Clients
    BY <1>1, <1>6, <1>10, <2>1, TaskFields
  <2>3. conn'[y.client] = x => conn[y.client] = x
    BY <1>6, <1>10, <2>2
  <2>4. WireEnd(y.client)' = WireEnd(y.client)
    BY <1>2 DEF WireEnd
  <2> QED BY <1>2, <1>3, <2>1, <2>2, <2>3, <2>4, TaskStays
<1> QED BY <1>3, <1>7, <1>8, <1>9, <1>10 DEF FeedInv

\* A connection is closed, by either end.
LEMMA CloseKeepsFeed ==
    ASSUME FeedInv, NEW c \in Clients, Drop(c) \/ StreamEnds(c)
    PROVE  FeedInv'
<1>1. ClientTypes
  BY DEF FeedInv
<1>2. /\ StoreStands /\ UNCHANGED <<at, last, task>> /\ watches' = watches
      /\ conn' = [conn EXCEPT ![c] = NoTask] /\ wire' = [wire EXCEPT ![c] = <<>>]
  <2>1. CASE Drop(c)
    BY <2>1 DEF Drop, StoreStands
  <2>2. CASE StreamEnds(c)
    <3>1. wire' = wire /\ wire[c] = <<>>
      BY <2>2 DEF StreamEnds
    <3>2. wire' = [wire EXCEPT ![c] = <<>>]
      BY <1>1, <3>1 DEF ClientTypes
    <3> QED BY <2>2, <3>2 DEF StreamEnds, StoreStands
  <2> QED BY <2>1, <2>2
<1>3. StoreInv' /\ Grown
  BY <1>2, StandingStore
<1>4. ClientTypes'
  <2>1. <<>> \in Seq(MessageType)
    BY EmptySeq
  <2> QED BY <1>1, <1>2, <2>1 DEF ClientTypes
<1>5. /\ conn'[c] = NoTask /\ wire'[c] = <<>>
      /\ \A d \in Clients : d # c => conn'[d] = conn[d] /\ wire'[d] = wire[d]
  BY <1>1, <1>2 DEF ClientTypes
<1>6. ASSUME NEW d \in Clients, d # c PROVE WireInv(d)'
  <2>1. conn[d] = NoTask => wire[d] = <<>>
    BY DEF FeedInv, WireInv
  <2> QED BY <1>2, <1>3, <1>5, <1>6, <2>1, WireStays
<1>7. WireInv(c)'
  <2>1. End(c)' = End(c) /\ (IsRun(c)' <=> IsRun(c)) /\ at' = at
    BY <1>2, StandingStore
  <2>2. at[c] <= End(c) /\ (IsRun(c) => at[c] # Nowhere)
    BY DEF FeedInv, WireInv
  <2>3. Len(wire'[c]) = 0
    BY <1>5, EmptySeq
  <2>4. \A i \in 1..Len(wire'[c]) : FALSE
    BY <2>3
  <2> QED BY <1>5, <2>1, <2>2, <2>4 DEF WireInv
<1>8. ASSUME NEW x \in Tasks PROVE TaskInv(x)'
  <2> SUFFICES ASSUME task'[x] # NoTask PROVE TaskInv(x)'
    BY DEF TaskInv
  <2>1. PICK y : y = task[x]
    OBVIOUS
  <2>2. task'[x] = y /\ y # NoTask /\ y.client \in Clients
    BY <1>1, <1>2, <2>1, TaskFields
  <2>3. conn'[y.client] = x => conn[y.client] = x /\ y.client # c
    BY <1>5, <2>2, StreamsAssumption DEF NoTask
  <2>4. y.client # c => WireEnd(y.client)' = WireEnd(y.client)
    BY <1>2, <1>5, <2>2 DEF WireEnd
  <2> QED BY <1>2, <1>3, <2>1, <2>2, <2>3, <2>4, TaskStays
<1> QED BY <1>3, <1>4, <1>6, <1>7, <1>8 DEF FeedInv

LEMMA ReceiveKeepsFeed ==
    ASSUME FeedInv, NEW c \in Clients, Receive(c)
    PROVE  FeedInv' /\ Follows(c, at[c], wire[c][1]) /\ wire[c][1] \in MessageType
<1>1. ClientTypes /\ StoreInv /\ WireInv(c) /\ wire[c] # <<>> /\ wire[c] \in Seq(MessageType)
      /\ watches \in [Clients -> Watchable]
  BY DEF FeedInv, Receive, ClientTypes
<1>2. PICK m : m = wire[c][1]
  OBVIOUS
<1>3. /\ StoreStands /\ UNCHANGED <<conn, task>> /\ watches' = watches
      /\ at' = [at EXCEPT ![c] = m.id] /\ last' = [last EXCEPT ![c] = m.entry]
      /\ wire' = [wire EXCEPT ![c] = Tail(wire[c])]
  BY <1>1, <1>2 DEF Receive, StoreStands
<1>4. Len(wire[c]) \in Nat \ {0} /\ 1 \in 1..Len(wire[c])
  BY <1>1, EmptySeq
<1>5. m \in MessageType /\ m.id \in Nat /\ m.entry \in {<<>>} \cup (Runs \X Nat)
  <2>1. m \in MessageType
    BY <1>1, <1>2, <1>4, ElementOfSeq
  <2> QED BY <2>1 DEF MessageType
<1>6. Follows(c, at[c], m)
  BY <1>1, <1>2, <1>4 DEF WireInv, Before
<1>7. /\ Tail(wire[c]) \in Seq(MessageType) /\ Len(Tail(wire[c])) = Len(wire[c]) - 1
      /\ \A i \in 1..Len(Tail(wire[c])) : Tail(wire[c])[i] = wire[c][i + 1]
  BY <1>1, HeadTailProperties
<1>8. StoreInv' /\ Grown
  BY <1>3, StandingStore
<1>9. ClientTypes'
  BY <1>1, <1>3, <1>5, <1>7 DEF ClientTypes
<1>10. /\ at'[c] = m.id /\ wire'[c] = Tail(wire[c])
       /\ \A d \in Clients : d # c => at'[d] = at[d] /\ wire'[d] = wire[d]
  BY <1>1, <1>3 DEF ClientTypes
<1>11. m.id \in 1..End(c)
  <2>1. PrunedAt(c) <= End(c) /\ PrunedAt(c) \in Nat /\ End(c) \in Nat
    BY <1>1, ListTypes
  <2> QED BY <1>6, <2>1 DEF Follows
<1>12. ASSUME NEW d \in Clients, d # c PROVE WireInv(d)'
  <2>1. conn[d] = NoTask => wire[d] = <<>>
    BY DEF FeedInv, WireInv
  <2> QED BY <1>3, <1>8, <1>10, <1>12, <2>1, WireStays
<1>13. WireInv(c)'
  <2>1. End(c)' = End(c) /\ (IsRun(c)' <=> IsRun(c)) /\ conn'[c] # NoTask
    BY <1>1, <1>3, StandingStore DEF WireInv
  <2>2. at'[c] <= End(c)' /\ at'[c] # Nowhere
    BY <1>10, <1>11, <2>1 DEF Nowhere
  <2>3. ASSUME NEW i \in 1..Len(wire'[c]) PROVE Follows(c, Before(c, i), wire[c][i])'
    <3>1. i + 1 \in 1..Len(wire[c]) /\ i + 1 # 1 /\ i + 1 - 1 = i /\ i \in Nat
      BY <1>4, <1>7, <1>10
    <3>2. PICK b : b = wire[c][i].id
      OBVIOUS
    <3>3. PICK n : n = wire[c][i + 1]
      OBVIOUS
    <3>4. Follows(c, b, n)
      BY <1>1, <3>1, <3>2, <3>3 DEF WireInv, Before
    <3>5. wire'[c][i] = n
      BY <1>7, <1>10, <3>3
    <3>6. Before(c, i)' = b
      <4>1. CASE i = 1
        BY <1>2, <1>10, <3>2, <4>1 DEF Before
      <4>2. CASE i # 1
        <5>1. i - 1 \in 1..Len(Tail(wire[c])) /\ i - 1 + 1 = i
          BY <1>10, <1>7, <1>4, <4>2
        <5> QED BY <1>7, <1>10, <3>2, <4>2, <5>1 DEF Before
      <4> QED BY <4>1, <4>2
    <3>7. Follows(c, b, n)'
      BY <1>3, <3>4, StandingStore
    <3> QED BY <3>5, <3>6, <3>7 DEF Follows
  <2> QED BY <2>1, <2>2, <2>3 DEF WireInv
<1>14. WireEnd(c)' = WireEnd(c)
  <2>1. CASE Len(wire[c]) = 1
    <3>1. Tail(wire[c]) = <<>>
      <4>1. Tail(wire[c]) \in Seq(MessageType) /\ Len(Tail(wire[c])) = 0
        BY <1>7, <2>1
      <4> QED BY <4>1, EmptySeq
    <3> QED BY <1>1, <1>2, <1>10, <2>1, <3>1 DEF WireEnd
  <2>2. CASE Len(wire[c]) # 1
    <3>1. /\ Len(wire[c]) - 1 \in 1..Len(Tail(wire[c])) /\ Len(wire[c]) - 1 + 1 = Len(wire[c])
          /\ Len(Tail(wire[c])) # 0
      <4>1. PICK n \in Nat : n = Len(wire[c])
        BY <1>4
      <4>2. n # 0 /\ n # 1
        BY <1>4, <2>2, <4>1
      <4>3. n - 1 \in 1..(n - 1) /\ n - 1 + 1 = n /\ n - 1 # 0
        BY <4>2
      <4>4. Len(Tail(wire[c])) = n - 1
        BY <1>7, <4>1
      <4> QED BY <4>1, <4>3, <4>4
    <3>2. Tail(wire[c]) # <<>>
      BY <3>1, EmptySeq
    <3> QED BY <1>1, <1>7, <1>10, <3>1, <3>2 DEF WireEnd
  <2> QED BY <2>1, <2>2
<1>15. ASSUME NEW x \in Tasks PROVE TaskInv(x)'
  <2> SUFFICES ASSUME task'[x] # NoTask PROVE TaskInv(x)'
    BY DEF TaskInv
  <2>1. PICK y : y = task[x]
    OBVIOUS
  <2>2. task'[x] = y /\ y # NoTask /\ y.client \in Clients
    BY <1>1, <1>3, <2>1, TaskFields
  <2>3. WireEnd(y.client)' = WireEnd(y.client)
    <3>1. y.client # c => WireEnd(y.client)' = WireEnd(y.client)
      BY <1>10, <2>2 DEF WireEnd
    <3> QED BY <1>14, <3>1
  <2> QED BY <1>3, <1>8, <2>1, <2>2, <2>3, TaskStays
<1> QED BY <1>2, <1>5, <1>6, <1>8, <1>9, <1>12, <1>13, <1>15 DEF FeedInv
(***************************************************************************)
(* The invariant                                                           *)
(***************************************************************************)
LEMMA FeedInit == Init => FeedInv
<1> SUFFICES ASSUME Init PROVE FeedInv
  OBVIOUS
<1> USE DEF Init, StoreInit
<1>1. StoreTypes
  BY EmptySeq DEF StoreTypes
<1>2. Numbering
  <2>1. \A p \in Principals : counter[p].last = 0 /\ counter[p].pruned = 0 /\ stored[p] = <<>>
    OBVIOUS
  <2>2. Len(<<>>) = 0
    OBVIOUS
  <2>3. \A r \in Runs : ~Numbered(r)
    BY DEF Numbered
  <2>4. \A q \in Pruners : cut[q] = NoCut
    OBVIOUS
  <2> QED BY <2>1, <2>2, <2>3, <2>4 DEF Numbering
<1>3. \A p \in Principals : RowsMatch(p)
  BY DEF RowsMatch
<1>4. StoreInv
  BY <1>1, <1>2, <1>3 DEF StoreInv
<1>5. ClientTypes
  BY EmptySeq DEF ClientTypes, IsRun, Nowhere
<1>6. ASSUME NEW c \in Clients PROVE WireInv(c)
  <2>1. End(c) \in Nat
    BY <1>4, <1>5, ListTypes DEF ClientTypes
  <2>2. at[c] \in {0, Nowhere} /\ (IsRun(c) => at[c] # Nowhere) /\ wire[c] = <<>> /\ Len(wire[c]) = 0
    BY EmptySeq DEF Nowhere, IsRun
  <2>3. at[c] <= End(c)
    BY <2>1, <2>2 DEF Nowhere
  <2>4. \A i \in 1..Len(wire[c]) : FALSE
    BY <2>2
  <2> QED BY <2>2, <2>3, <2>4 DEF WireInv
<1>7. \A s \in Tasks : TaskInv(s)
  BY DEF TaskInv
<1> QED BY <1>4, <1>5, <1>6, <1>7 DEF FeedInv

\* The steps, sorted by what they touch.
LEMMA StepKinds ==
    ASSUME [Next]_vars
    PROVE  \/ StoreStep /\ StreamsStand
           \/ StoreStands /\ StreamsStand
           \/ \E ps : StoreStands /\ UNCHANGED <<at, last, conn, wire>> /\ task' = Wakened(ps)
           \/ \E c \in Clients : Connect(c) \/ Receive(c) \/ Drop(c) \/ StreamEnds(c)
           \/ \E s \in Tasks : \/ ReadEnd(s) \/ Read(s) \/ Send(s) \/ PageSent(s) \/ Hinted(s)
                               \/ Poll(s) \/ NoticeGone(s) \/ ReadFails(s)
<1>1. CASE \E r \in Runs : Store(r)
  <2>1. StoreStep
    BY <1>1 DEF Store, StoreStep
  <2>2. StreamsStand
    BY <1>1 DEF Store, StreamsStand, streamVars
  <2> QED BY <2>1, <2>2
<1>2. CASE \E q \in Pruners : Prune(q)
  <2>1. StoreStep
    BY <1>2 DEF Prune, StoreStep
  <2>2. StreamsStand
    BY <1>2 DEF Prune, StreamsStand, streamVars
  <2> QED BY <2>1, <2>2
<1>3. CASE Time
  BY <1>3 DEF Time, StoreStep, StreamsStand, streamVars
<1>4. CASE \E p \in Principals : Notify(p) \/ Listen(p)
  BY <1>4 DEF Notify, Listen, StoreStands
<1>5. CASE ListenerLost
  BY <1>5 DEF ListenerLost, StoreStands, StreamsStand
<1>6. CASE ListenerBack
  BY <1>6 DEF ListenerBack, StoreStands
<1>7. CASE \E c \in Clients : Watch(c) \/ Drop(c)
  BY <1>7 DEF Watch, NoContent, StoreStands, StreamsStand
<1>8. CASE \E s \in Tasks : Serve(s) \/ ReadFails(s)
  BY <1>8 DEF Serve
<1>9. CASE UNCHANGED vars
  BY <1>9 DEF vars, streamVars, StoreStands, StreamsStand
<1> QED BY <1>1, <1>2, <1>3, <1>4, <1>5, <1>6, <1>7, <1>8, <1>9 DEF Next

LEMMA FeedStep == FeedInv /\ [Next]_vars => FeedInv'
<1> SUFFICES ASSUME FeedInv, [Next]_vars PROVE FeedInv'
  OBVIOUS
<1>1. CASE StoreStep /\ StreamsStand
  <2>1. StoreInv
    BY DEF FeedInv
  <2> QED BY <1>1, <2>1, StoreKept, StoreGrows, StoreStepKeepsFeed
<1>2. CASE StoreStands /\ StreamsStand
  BY <1>2, StandingStore, StoreStepKeepsFeed
<1>3. CASE \E ps : StoreStands /\ UNCHANGED <<at, last, conn, wire>> /\ task' = Wakened(ps)
  BY <1>3, WakeKeepsFeed
<1>4. CASE \E c \in Clients : Connect(c) \/ Receive(c) \/ Drop(c) \/ StreamEnds(c)
  BY <1>4, ConnectKeepsFeed, ReceiveKeepsFeed, CloseKeepsFeed
<1>5. CASE \E s \in Tasks : \/ ReadEnd(s) \/ Read(s) \/ Send(s) \/ PageSent(s) \/ Hinted(s)
                            \/ Poll(s) \/ NoticeGone(s) \/ ReadFails(s)
  BY <1>5, ReadEndKeepsFeed, ReadKeepsFeed, SendKeepsFeed, MoveKeepsFeed, GoneKeepsFeed
<1> QED BY <1>1, <1>2, <1>3, <1>4, <1>5, StepKinds

LEMMA FeedsAreKept == Spec => []FeedInv
BY FeedInit, FeedStep, PTL DEF Spec
(***************************************************************************)
(* The streams implement the feed                                          *)
(***************************************************************************)
Lists == Principals \cup Runs

LEMMA FeedTypes ==
    ASSUME StoreTypes, NEW l \in Lists
    PROVE  /\ Feeds[l] \in Seq(Runs \X Nat)
           /\ l \in Runs => /\ Len(Feeds[l]) = log[l].n /\ log[l].n \in Nat
                            /\ \A i \in 1..log[l].n : Feeds[l][i] = <<l, i>>
           /\ l \notin Runs => l \in Principals /\ Feeds[l] = stored[l]
<1>1. CASE l \in Runs
  <2> DEFINE f == [i \in 1..log[l].n |-> <<l, i>>]
  <2>1. log[l].n \in Nat /\ Feeds[l] = f
    BY <1>1 DEF StoreTypes, Feeds, Lists
  <2>2. f = [i \in 1..log[l].n |-> <<l, 0 + i>>]
    BY <2>1
  <2>3. f \in Seq(Runs \X Nat) /\ Len(f) = log[l].n
    BY <1>1, <2>1, <2>2, BatchIsSeq
  <2> QED BY <1>1, <2>1, <2>3
<1>2. CASE l \notin Runs
  BY <1>2 DEF StoreTypes, Feeds, Lists
<1> QED BY <1>1, <1>2

LEMMA FeedTypesNext ==
    ASSUME StoreTypes', NEW l \in Lists
    PROVE  /\ Feeds'[l] \in Seq(Runs \X Nat)
           /\ l \in Runs => /\ Len(Feeds'[l]) = log'[l].n /\ log'[l].n \in Nat
                            /\ \A i \in 1..log'[l].n : Feeds'[l][i] = <<l, i>>
           /\ l \notin Runs => l \in Principals /\ Feeds'[l] = stored'[l]
<1>1. CASE l \in Runs
  <2> DEFINE f == [i \in 1..log'[l].n |-> <<l, i>>]
  <2>1. log'[l].n \in Nat /\ Feeds'[l] = f
    BY <1>1 DEF StoreTypes, Feeds, Lists
  <2>2. f = [i \in 1..log'[l].n |-> <<l, 0 + i>>]
    BY <2>1
  <2>3. f \in Seq(Runs \X Nat) /\ Len(f) = log'[l].n
    BY <1>1, <2>1, <2>2, BatchIsSeq
  <2> QED BY <1>1, <2>1, <2>3
<1>2. CASE l \notin Runs
  BY <1>2 DEF StoreTypes, Feeds, Lists
<1> QED BY <1>1, <1>2

Entries == Runs \X Nat

\* u is s, of length n, followed by t, of length k.
Joined(s, t, n, k, u) ==
    /\ s \in Seq(Entries) /\ t \in Seq(Entries) /\ n \in Nat /\ k \in Nat
    /\ Len(s) = n /\ Len(t) = k /\ u = s \o t

InTwoParts(s, t, n, k, u) ==
    /\ u \in Seq(Entries) /\ Len(u) = n + k
    /\ \A i \in 1..n : u[i] = s[i]
    /\ \A i \in 1..k : u[n + i] = t[i]

LEMMA ConcatParts ==
    ASSUME NEW s, NEW t, NEW n, NEW k, NEW u, Joined(s, t, n, k, u)
    PROVE  InTwoParts(s, t, n, k, u)
<1> USE DEF Joined
<1>0. n \in Nat /\ k \in Nat
  OBVIOUS
<1>1. /\ s \o t \in Seq(Entries) /\ Len(s \o t) = Len(s) + Len(t)
      /\ \A i \in 1..(Len(s) + Len(t)) : (s \o t)[i] = IF i <= Len(s) THEN s[i] ELSE t[i - Len(s)]
  BY ConcatProperties
<1>2. u \in Seq(Entries) /\ Len(u) = n + k /\ \A i \in 1..(n + k) : u[i] = IF i <= n THEN s[i] ELSE t[i - n]
  BY <1>1
<1>3. ASSUME NEW i \in 1..n PROVE u[i] = s[i]
  <2>1. i \in 1..(n + k) /\ i <= n
    BY <1>0
  <2> QED BY <1>2, <2>1
<1>4. ASSUME NEW i \in 1..k PROVE u[n + i] = t[i]
  <2>1. n + i \in 1..(n + k) /\ ~(n + i <= n) /\ (n + i) - n = i
    BY <1>0
  <2> QED BY <1>2, <2>1
<1> QED BY <1>2, <1>3, <1>4 DEF InTwoParts

\* t continues s with entries of one run, in a row.
Continued(s, t) ==
    LET batch == SubSeq(t, Len(s) + 1, Len(t))
    IN  t = s \o batch /\ F!InARow(batch)

\* t is s, of length n, and k entries of r from b on.
Longer(s, t, n, k, r, b) ==
    /\ s \in Seq(Entries) /\ t \in Seq(Entries) /\ k \in Nat /\ n \in Nat /\ b \in Nat
    /\ Len(s) = n /\ Len(t) = n + k
    /\ \A i \in 1..n : t[i] = s[i]
    /\ \A i \in 1..k : t[n + i] = <<r, b + i>>

LEMMA ContinuesInARow ==
    ASSUME NEW s, NEW t, NEW n, NEW k, NEW r, NEW b, Longer(s, t, n, k, r, b)
    PROVE  Continued(s, t)
<1> USE DEF Longer
<1>1. PICK batch : batch = SubSeq(t, n + 1, n + k)
  OBVIOUS
<1>2. /\ batch \in Seq(Entries) /\ Len(batch) = k
      /\ \A i \in 1..k : batch[i] = t[n + i]
  <2>1. \A i \in (n + 1)..(n + k) : t[i] \in Entries
    <3> SUFFICES ASSUME NEW i \in (n + 1)..(n + k) PROVE t[i] \in Entries
      OBVIOUS
    <3>1. i \in 1..Len(t)
      OBVIOUS
    <3> QED BY <3>1, ElementOfSeq
  <2>2. /\ batch \in Seq(Entries) /\ Len(batch) = IF n + 1 <= n + k THEN (n + k) - (n + 1) + 1 ELSE 0
        /\ \A i \in 1..((n + k) - (n + 1) + 1) : batch[i] = t[(n + 1) + i - 1]
    BY <1>1, <2>1, SubSeqProperties
  <2>3. (n + k) - (n + 1) + 1 = k /\ \A i \in 1..k : (n + 1) + i - 1 = n + i
    OBVIOUS
  <2>4. Len(batch) = k
    BY <2>2, <2>3
  <2> QED BY <2>2, <2>3, <2>4
<1>3. t = s \o batch
  <2>1. PICK u : u = s \o batch
    OBVIOUS
  <2>0. Joined(s, batch, n, k, u)
    BY <1>2, <2>1 DEF Joined
  <2>2. u \in Seq(Entries) /\ Len(u) = n + k /\ \A i \in 1..n : u[i] = s[i]
    BY <2>0, ConcatParts DEF InTwoParts
  <2>3. \A i \in 1..k : u[n + i] = batch[i]
    <3> HIDE DEF Longer
    <3> QED BY <2>0, ConcatParts DEF InTwoParts
  <2>4. ASSUME NEW i \in 1..(n + k) PROVE t[i] = u[i]
    <3>1. CASE i <= n
      <4>1. i \in 1..n
        BY <3>1
      <4> QED BY <2>2, <4>1
    <3>2. CASE i > n
      <4>1. i - n \in 1..k /\ n + (i - n) = i
        BY <3>2
      <4>2. u[n + (i - n)] = batch[i - n] /\ batch[i - n] = t[n + (i - n)]
        BY <1>2, <2>3, <4>1
      <4> QED BY <4>1, <4>2
    <3> QED BY <3>1, <3>2
  <2>5. t = u
    BY <2>2, <2>4, SeqEqual
  <2> QED BY <2>1, <2>5
<1>4. F!InARow(batch)
  <2> SUFFICES ASSUME NEW i \in 1..(Len(batch) - 1)
               PROVE  batch[i + 1] = <<batch[i][1], batch[i][2] + 1>>
    BY DEF F!InARow
  <2>1. i \in 1..k /\ i + 1 \in 1..k /\ b + (i + 1) = (b + i) + 1
    BY <1>2
  <2>2. batch[i] = <<r, b + i>> /\ batch[i + 1] = <<r, b + (i + 1)>>
    BY <1>2, <2>1
  <2> QED BY <2>1, <2>2
<1> QED BY <1>1, <1>3, <1>4 DEF Continued

LEMMA CommitExtends ==
    ASSUME StoreInv, StoreInv', NEW r \in Runs, Commit(r), StreamsStand
    PROVE  F!Extend
<1> DEFINE p == OwnerOf[r]
           k == tx[r].count
           new == [i \in 1..k |-> <<r, log[r].n + i>>]
<1>1. StoreTypes /\ StoreTypes'
  BY DEF StoreInv
<1>2. /\ p \in Principals /\ k \in Nat \ {0} /\ log[r].n \in Nat
      /\ log' = [log EXCEPT ![r] = [n |-> log[r].n + k, ended |-> tx[r].ends]]
      /\ stored' = [stored EXCEPT ![p] = stored[p] \o new]
      /\ counter' = [counter EXCEPT ![p] = [last |-> counter[p].last + k, pruned |-> counter[p].pruned]]
  BY CommitWrites
<1>3. new \in Seq(Runs \X Nat) /\ Len(new) = k
  BY <1>2, BatchIsSeq
<1>4. Marks' = Marks
  <2>1. \A x \in Principals : counter'[x].pruned = counter[x].pruned
    BY <1>1, <1>2 DEF StoreTypes
  <2> QED BY <2>1 DEF Marks
<1>5. DOMAIN Feeds' = Principals \cup Runs
  BY DEF Feeds
<1>6. ASSUME NEW l \in Lists PROVE Continued(Feeds[l], Feeds'[l])
  <2>1. PICK s \in Seq(Entries) : s = Feeds[l]
    BY <1>1, FeedTypes DEF Entries
  <2>2. PICK t \in Seq(Entries) : t = Feeds'[l]
    BY <1>1, FeedTypesNext DEF Entries
  <2>3. PICK m \in Nat : m = log[r].n
    BY <1>2
  <2>4. PICK j \in Nat : j = k
    BY <1>2
  <2>5. CASE l = r
    <3>1. log'[r].n = m + j
      BY <1>1, <1>2, <2>3, <2>4 DEF StoreTypes
    <3>2. Len(s) = m /\ \A i \in 1..m : s[i] = <<r, i>>
      BY <1>1, <2>1, <2>3, <2>5, FeedTypes
    <3>3. Len(t) = m + j /\ \A i \in 1..(m + j) : t[i] = <<r, i>>
      BY <1>1, <2>2, <2>5, <3>1, FeedTypesNext
    <3>4. \A i \in 1..m : i \in 1..(m + j)
      OBVIOUS
    <3>5. \A i \in 1..m : t[i] = s[i]
      BY <3>2, <3>3, <3>4
    <3>6. \A i \in 1..j : m + i \in 1..(m + j)
      OBVIOUS
    <3>7. \A i \in 1..j : t[m + i] = <<r, m + i>>
      BY <3>3, <3>6
    <3>8. Longer(s, t, m, j, r, m)
      BY <3>2, <3>3, <3>5, <3>7 DEF Longer
    <3>9. Continued(s, t)
      BY <3>8, ContinuesInARow
    <3> QED BY <2>1, <2>2, <3>9
  <2>6. CASE l \notin Runs /\ l = p
    <3>1. s = stored[p] /\ t = s \o new
      <4>1. s = stored[p] /\ t = stored'[p]
        BY <1>1, <2>1, <2>2, <2>6, FeedTypes, FeedTypesNext
      <4> QED BY <1>1, <1>2, <4>1 DEF StoreTypes
    <3>2. PICK batch : batch = new
      OBVIOUS
    <3>3. /\ batch \in Seq(Entries) /\ Len(batch) = j /\ t = s \o batch
          /\ \A i \in 1..j : batch[i] = <<r, m + i>>
      BY <1>3, <2>3, <2>4, <3>1, <3>2 DEF Entries
    <3>4. PICK n \in Nat : n = Len(s)
      BY LenProperties
    <3>5. Joined(s, batch, n, j, t)
      BY <3>3, <3>4 DEF Joined
    <3>6. InTwoParts(s, batch, n, j, t)
      BY <3>5, ConcatParts
    <3>7. Len(t) = n + j /\ (\A i \in 1..n : t[i] = s[i]) /\ \A i \in 1..j : t[n + i] = batch[i]
      BY <3>6 DEF InTwoParts
    <3>8. Longer(s, t, n, j, r, m)
      BY <3>3, <3>4, <3>7 DEF Longer
    <3>9. Continued(s, t)
      BY <3>8, ContinuesInARow
    <3> QED BY <2>1, <2>2, <3>9
  <2>7. CASE l # r /\ ~(l \notin Runs /\ l = p)
    <3>1. t = s
      <4>1. CASE l \in Runs
        <5>1. log'[l] = log[l]
          BY <1>1, <1>2, <2>7, <4>1 DEF StoreTypes
        <5> QED BY <2>1, <2>2, <4>1, <5>1 DEF Feeds, Lists
      <4>2. CASE l \notin Runs
        <5>1. stored'[l] = stored[l] /\ l \in Principals
          BY <1>1, <1>2, <2>7, <4>2 DEF StoreTypes, Lists
        <5> QED BY <2>1, <2>2, <4>2, <5>1 DEF Feeds
      <4> QED BY <4>1, <4>2
    <3>2. PICK n \in Nat : n = Len(s)
      BY LenProperties
    <3>3. Len(t) = n + 0 /\ \A i \in 1..0 : t[n + i] = <<r, 0 + i>>
      BY <3>1, <3>2
    <3>4. Longer(s, t, n, 0, r, 0)
      BY <3>1, <3>2, <3>3 DEF Longer
    <3>5. Continued(s, t)
      BY <3>4, ContinuesInARow
    <3> QED BY <2>1, <2>2, <3>5
  <2> QED BY <2>5, <2>6, <2>7
<1> QED BY <1>4, <1>5, <1>6 DEF F!Extend, StreamsStand, Lists, Continued

LEMMA ListsStand ==
    ASSUME UNCHANGED <<log, counter, stored>>
    PROVE  Feeds' = Feeds /\ Marks' = Marks
BY DEF Feeds, Marks

LEMMA MarkPrunes ==
    ASSUME StoreInv, StoreInv', NEW q \in Pruners, Mark(q), StreamsStand
    PROVE  F!Prune
<1>1. StoreTypes /\ StoreTypes' /\ Numbering'
  BY DEF StoreInv
<1>2. UNCHANGED <<log, stored>>
  BY DEF Mark
<1>3. Feeds' = Feeds
  BY <1>2 DEF Feeds
<1>4. Marks' \in [Lists -> Nat]
  BY <1>1 DEF Marks, StoreTypes, Lists
<1>5. ASSUME NEW l \in Lists PROVE Marks[l] <= Marks'[l] /\ Marks'[l] <= Len(Feeds[l])
  <2>1. CASE l \in Runs
    <3>1. Marks[l] = 0 /\ Marks'[l] = 0
      BY <2>1 DEF Marks, Lists
    <3>2. Len(Feeds[l]) \in Nat
      BY <1>1, <2>1, FeedTypes
    <3> QED BY <3>1, <3>2
  <2>2. CASE l \notin Runs
    <3>1. l \in Principals /\ Feeds[l] = stored[l]
      BY <1>1, <2>2, FeedTypes
    <3>2. Marks[l] = counter[l].pruned /\ Marks'[l] = counter'[l].pruned
      BY <2>2, <3>1 DEF Marks
    <3>3. counter[l].pruned <= counter'[l].pruned
      BY <3>1, MarkKeepsStore
    <3>4. counter'[l].last = Len(stored'[l]) /\ counter'[l].pruned <= counter'[l].last
      BY <1>1, <3>1 DEF Numbering
    <3> QED BY <1>2, <3>1, <3>2, <3>3, <3>4
  <2> QED BY <2>1, <2>2
<1> QED BY <1>3, <1>4, <1>5 DEF F!Prune, StreamsStand, Lists

LEMMA StoreStepFeeds ==
    ASSUME StoreInv, StoreInv', StoreStep, StreamsStand
    PROVE  F!Extend \/ F!Prune \/ UNCHANGED F!feedVars
<1>1. CASE UNCHANGED <<log, counter, stored>>
  BY <1>1, ListsStand DEF F!feedVars, StreamsStand
<1>2. CASE Tick
  BY <1>1, <1>2 DEF Tick
<1>3. ASSUME NEW r \in Runs, Insert(r) \/ Number(r) \/ RollBack(r)
      PROVE  UNCHANGED <<log, counter, stored>>
  BY <1>3 DEF Insert, Number, RollBack
<1>4. ASSUME NEW q \in Pruners, Cut(q) PROVE UNCHANGED <<log, counter, stored>>
  BY <1>4 DEF Cut
<1> QED BY <1>1, <1>2, <1>3, <1>4, CommitExtends, MarkPrunes DEF StoreStep

\* A client's list is its feed.
LEMMA ClientsFeed ==
    ASSUME StoreInv, watches \in [Clients -> Watchable], NEW c \in Clients
    PROVE  /\ Len(Feeds[watches[c]]) = End(c) /\ Marks[watches[c]] = PrunedAt(c)
           /\ \A n \in 1..End(c) : Feeds[watches[c]][n] = EntryAt(c, n)
<1>1. StoreTypes /\ Numbering /\ watches[c] \in Lists
  BY StreamsAssumption DEF StoreInv, Lists
<1>2. CASE watches[c] \in Runs
  BY <1>1, <1>2, FeedTypes DEF End, EntryAt, PrunedAt, IsRun, Marks, Lists
<1>3. CASE watches[c] \notin Runs
  BY <1>1, <1>3, FeedTypes DEF End, EntryAt, PrunedAt, IsRun, Marks, Lists, Numbering
<1> QED BY <1>2, <1>3

LEMMA ReceiveGives ==
    ASSUME FeedInv, NEW c \in Clients, Receive(c)
    PROVE  F!Give(c) \/ F!StartOver(c)
<1>1. StoreInv /\ watches \in [Clients -> Watchable] /\ at \in [Clients -> Nat \cup {Nowhere}]
      /\ last \in [Clients -> {<<>>} \cup (Runs \X Nat)] /\ wire[c] \in Seq(MessageType) /\ wire[c] # <<>>
  BY DEF FeedInv, ClientTypes, Receive
<1>2. PICK m : m = wire[c][1]
  OBVIOUS
<1>3. Follows(c, at[c], m)
  BY <1>2, ReceiveKeepsFeed
<1>4. /\ UNCHANGED <<log, counter, stored, watches>>
      /\ at' = [at EXCEPT ![c] = m.id] /\ last' = [last EXCEPT ![c] = m.entry]
  BY <1>1, <1>2 DEF Receive, storeVars
<1>5. at'[c] = m.id
  BY <1>1, <1>4
<1>6. Feeds' = Feeds /\ Marks' = Marks
  BY <1>4, ListsStand
<1>7. Len(Feeds[watches[c]]) = End(c) /\ Marks[watches[c]] = PrunedAt(c)
      /\ \A n \in 1..End(c) : Feeds[watches[c]][n] = EntryAt(c, n)
  BY <1>1, ClientsFeed
<1>8. CASE m.entry = <<>> /\ m.id \in 1..PrunedAt(c) /\ at[c] < m.id
  BY <1>4, <1>5, <1>6, <1>7, <1>8 DEF F!StartOver
<1>9. CASE m.id \in 1..End(c) /\ m.entry = EntryAt(c, m.id) /\ (at[c] = Nowhere \/ m.id = at[c] + 1)
  <2>1. at[c] = F!Nowhere \/ at'[c] = at[c] + 1
    BY <1>5, <1>9 DEF Nowhere, F!Nowhere
  <2>2. m.entry = Feeds[watches[c]][at'[c]] /\ at'[c] \in 1..Len(Feeds[watches[c]])
    BY <1>5, <1>7, <1>9
  <2> QED BY <1>4, <1>5, <1>6, <2>1, <2>2 DEF F!Give
<1> QED BY <1>3, <1>8, <1>9 DEF Follows

LEMMA FeedStarts == Init => F!Init
<1> SUFFICES ASSUME Init PROVE F!Init
  OBVIOUS
<1>1. watches \in [Clients -> Principals \cup Runs]
  BY StreamsAssumption DEF Init
<1>2. Feeds = [l \in Principals \cup Runs |-> <<>>]
  <2>1. \A l \in Runs : [i \in 1..log[l].n |-> <<l, i>>] = <<>>
    BY DEF Init, StoreInit
  <2>2. \A l \in Principals : stored[l] = <<>>
    BY DEF Init, StoreInit
  <2> QED BY <2>1, <2>2 DEF Feeds
<1>3. Marks = [l \in Principals \cup Runs |-> 0]
  <2>1. \A l \in Principals : counter[l].pruned = 0
    BY DEF Init, StoreInit
  <2> QED BY <2>1 DEF Marks
<1>4. at \in [Clients -> {F!Nowhere, 0}] /\ last = [c \in Clients |-> <<>>]
  BY DEF Init, Nowhere, F!Nowhere
<1> QED BY <1>1, <1>2, <1>3, <1>4 DEF F!Init

LEMMA FeedStepFeeds ==
    ASSUME FeedInv, FeedInv', [Next]_vars
    PROVE  [F!Next]_(F!feedVars)
<1>1. CASE StoreStep /\ StreamsStand
  <2>1. StoreInv /\ StoreInv'
    BY DEF FeedInv
  <2> QED BY <1>1, <2>1, StoreStepFeeds DEF F!Next
<1>2. CASE StoreStands /\ UNCHANGED <<at, last>>
  <2>1. Feeds' = Feeds /\ Marks' = Marks
    BY <1>2, ListsStand DEF StoreStands, storeVars
  <2> QED BY <1>2, <2>1 DEF F!feedVars, StoreStands
<1>3. CASE StoreStands /\ StreamsStand
  BY <1>2, <1>3 DEF StreamsStand
<1>4. ASSUME NEW c \in Clients, Connect(c) \/ Drop(c) \/ StreamEnds(c) PROVE [F!Next]_(F!feedVars)
  BY <1>2, <1>4 DEF Connect, Drop, StreamEnds, StoreStands
<1>5. ASSUME NEW c \in Clients, Receive(c) PROVE [F!Next]_(F!feedVars)
  BY <1>5, ReceiveGives DEF F!Next
<1>6. ASSUME NEW s \in Tasks, \/ ReadEnd(s) \/ Read(s) \/ Send(s) \/ PageSent(s) \/ Hinted(s)
                              \/ Poll(s) \/ NoticeGone(s) \/ ReadFails(s)
      PROVE  StoreStands /\ UNCHANGED <<at, last>>
  <2>1. CASE ReadEnd(s) \/ PageSent(s) \/ Hinted(s) \/ Poll(s) \/ NoticeGone(s) \/ ReadFails(s)
    BY <2>1, Zenon DEF ReadEnd, PageSent, Hinted, Poll, NoticeGone, ReadFails, StoreStands
  <2>2. CASE Read(s)
    BY <2>2, Zenon DEF Read, StoreStands
  <2>3. CASE Send(s)
    BY <2>3, Zenon DEF Send, StoreStands
  <2> QED BY <1>6, <2>1, <2>2, <2>3
<1> QED BY <1>1, <1>2, <1>3, <1>4, <1>5, <1>6, StepKinds

\* The streams implement the feed (stream.rs outbox_stream and run_stream,
\* over EventRows::insert and prune_outbox of postgres.rs): whatever commits,
\* rolls back, is pruned, breaks or reconnects, in any order, a client is
\* given each entry of its list once and in order, or a reset to what was
\* pruned, and only when it has fallen behind it.
THEOREM StreamsImplementFeed == Spec => ClientsAreFed
<1>1. FeedInv /\ FeedInv' /\ [Next]_vars => [F!Next]_(F!feedVars)
  BY FeedStepFeeds
<1> QED BY <1>1, FeedsAreKept, FeedStarts, PTL DEF Spec, ClientsAreFed, F!Spec
(***************************************************************************)
(* No stream sleeps on news                                                *)
(***************************************************************************)
LEMMA InformedNow ==
    ASSUME NEW s \in Tasks, NEW k, k = task[s], k # NoTask, Informed(s)
    PROVE  k.hinted = TRUE \/ Told(Owner(k.client)) \/ Covered(k, End(k.client))
BY DEF Informed

LEMMA InformedNext ==
    ASSUME NEW s \in Tasks, NEW j, j = task'[s],
           j # NoTask => j.hinted = TRUE \/ Told(Owner(j.client))' \/ Covered(j, End(j.client)')
    PROVE  Informed(s)'
BY DEF Informed, Covered

\* A step that leaves the lists alone and takes back no announcement.
NewsStand ==
    /\ \A p \in Principals : Told(p) => Told(p)'
    /\ \A c \in Clients : End(c)' = End(c) /\ Owner(c)' = Owner(c)

LEMMA StandingNews ==
    ASSUME StoreStands, UNCHANGED <<heard, announce, notes>>
    PROVE  NewsStand
<1>1. ASSUME NEW c \in Clients PROVE End(c)' = End(c) /\ Owner(c)' = Owner(c)
  BY DEF StoreStands, storeVars, End, Owner, IsRun
<1>2. ASSUME NEW p \in Principals, Told(p) PROVE Told(p)'
  BY <1>2 DEF Told
<1> QED BY <1>1, <1>2 DEF NewsStand

\* A task that stays as it is, or is hinted, is as informed as before.
LEMMA InformedStays ==
    ASSUME FeedInv, NewsStand, NEW s \in Tasks, Informed(s),
           task'[s] = task[s] \/ (task[s] # NoTask /\ task'[s] = [task[s] EXCEPT !.hinted = TRUE])
    PROVE  Informed(s)'
<1>1. PICK k : k = task[s]
  OBVIOUS
<1>2. CASE k = NoTask
  <2>1. task'[s] = k
    BY <1>1, <1>2
  <2> QED BY <1>1, <1>2, <2>1, InformedNext
<1>3. CASE k # NoTask
  <2>1. k \in TaskType /\ k.client \in Clients
    BY <1>1, <1>3, TaskFacts DEF TaskIs
  <2>2. StoreInv /\ watches \in [Clients -> Watchable]
    BY DEF FeedInv, ClientTypes
  <2>3. Owner(k.client) \in Principals
    BY <2>1, <2>2, ListTypes
  <2>4. PICK c : c = k.client
    OBVIOUS
  <2>5. /\ End(c)' = End(c) /\ Owner(c)' = Owner(c)
        /\ Told(Owner(c)) => Told(Owner(c))'
    <3>1. PICK p : p = Owner(c)
      OBVIOUS
    <3>2. End(c)' = End(c) /\ Owner(c)' = p /\ (Told(p) => Told(p)')
      BY <2>1, <2>3, <2>4, <3>1 DEF NewsStand
    <3>3. Told(p)' => Told(Owner(c))'
      BY <3>2 DEF Told
    <3> QED BY <3>1, <3>2, <3>3
  <2>6. CASE task'[s] = k
    <3>1. k.hinted = TRUE \/ Told(Owner(c)) \/ Covered(k, End(c))
      BY <1>1, <1>3, <2>4, InformedNow
    <3>2. k.hinted = TRUE \/ Told(Owner(c))' \/ Covered(k, End(c)')
      BY <2>5, <3>1
    <3> QED BY <2>4, <2>6, <3>2, InformedNext
  <2>7. CASE task'[s] = [k EXCEPT !.hinted = TRUE]
    <3>1. PICK j : j = [k EXCEPT !.hinted = TRUE]
      OBVIOUS
    <3>2. j.hinted = TRUE
      BY <2>1, <3>1 DEF TaskType
    <3> QED BY <2>7, <3>1, <3>2, InformedNext
  <2> QED BY <1>1, <1>3, <2>6, <2>7
<1> QED BY <1>2, <1>3

\* Steps that leave the lists, the announcements and the other tasks alone.
LEMMA TaskStepNews ==
    ASSUME NewsInv, FeedInv', StoreStands, UNCHANGED <<heard, announce, notes>>, NEW s \in Tasks,
           NEW j, task' = [task EXCEPT ![s] = j],
           j # NoTask => j.client \in Clients /\ (j.hinted = TRUE \/ Told(Owner(j.client))
                                                  \/ Covered(j, End(j.client)))
    PROVE  NewsInv'
<1>1. FeedInv /\ NewsTypes /\ ClientTypes /\ \A x \in Tasks : Informed(x)
  BY DEF NewsInv, FeedInv
<1>2. NewsStand
  BY StandingNews
<1>3. NewsTypes'
  BY <1>1 DEF NewsTypes
<1>4. ASSUME NEW x \in Tasks PROVE Informed(x)'
  <2>1. CASE x # s
    <3>1. task'[x] = task[x]
      BY <1>1, <2>1 DEF ClientTypes
    <3> QED BY <1>1, <1>2, <3>1, InformedStays
  <2>2. CASE x = s
    <3>1. task'[s] = j
      BY <1>1 DEF ClientTypes
    <3>2. \A c : Told(Owner(c)) => Told(Owner(c))'
      BY DEF Told, Owner, IsRun, StoreStands
    <3>3. j # NoTask => End(j.client)' = End(j.client)
      BY <1>2 DEF NewsStand
    <3> QED BY <2>2, <3>1, <3>2, <3>3, InformedNext
  <2> QED BY <2>1, <2>2
<1> QED BY <1>3, <1>4 DEF NewsInv

\* Steps that leave the lists, the announcements and every task alone.
LEMMA QuietNews ==
    ASSUME NewsInv, FeedInv', StoreStands, UNCHANGED <<heard, announce, notes, task>>
    PROVE  NewsInv'
<1>1. FeedInv /\ NewsTypes /\ \A x \in Tasks : Informed(x)
  BY DEF NewsInv
<1>2. NewsStand
  BY StandingNews
<1>3. NewsTypes'
  BY <1>1 DEF NewsTypes
<1> QED BY <1>1, <1>2, <1>3, InformedStays DEF NewsInv

\* Steps that wake the streams of ps: whoever loses an announcement is hinted.
LEMMA WakeNews ==
    ASSUME NewsInv, FeedInv', StoreStands, NewsTypes', NEW ps, task' = Wakened(ps),
           \A p \in Principals \ ps : Told(p) => Told(p)'
    PROVE  NewsInv'
<1>1. FeedInv /\ NewsTypes /\ ClientTypes /\ StoreInv /\ watches \in [Clients -> Watchable]
  BY DEF NewsInv, FeedInv, ClientTypes
<1>2. ASSUME NEW s \in Tasks PROVE Informed(s)'
  <2>1. PICK k : k = task[s]
    OBVIOUS
  <2>2. CASE k = NoTask
    <3>1. task'[s] = k
      BY <2>1, <2>2 DEF Wakened
    <3> QED BY <2>2, <3>1, InformedNext
  <2>3. CASE k # NoTask
    <3>1. k \in TaskType /\ k.client \in Clients
      BY <1>1, <2>1, <2>3, TaskFacts DEF TaskIs
    <3>2. PICK c \in Clients : c = k.client
      BY <3>1
    <3>3. Owner(c) \in Principals
      BY <1>1, ListTypes
    <3>4. CASE Owner(c) \in ps
      <4>1. task'[s] = [k EXCEPT !.hinted = TRUE]
        BY <2>1, <2>3, <3>2, <3>4 DEF Wakened
      <4>2. PICK j : j = [k EXCEPT !.hinted = TRUE]
        OBVIOUS
      <4>3. j.hinted = TRUE
        BY <3>1, <4>2 DEF TaskType
      <4> QED BY <4>1, <4>2, <4>3, InformedNext
    <3>5. CASE Owner(c) \notin ps
      <4>1. task'[s] = k
        BY <2>1, <3>2, <3>5 DEF Wakened
      <4>2. Owner(c)' = Owner(c) /\ End(c)' = End(c)
        BY DEF StoreStands, storeVars, End, Owner, IsRun
      <4>3. PICK p : p = Owner(c)
        OBVIOUS
      <4>4. Told(p) => Told(p)'
        BY <3>3, <3>5, <4>3
      <4>5. Told(p)' => Told(Owner(c))'
        BY <4>2, <4>3 DEF Told
      <4>6. k.hinted = TRUE \/ Told(Owner(c)) \/ Covered(k, End(c))
        BY <2>1, <2>3, <3>2, InformedNow DEF NewsInv
      <4>7. k.hinted = TRUE \/ Told(Owner(c))' \/ Covered(k, End(c)')
        BY <4>2, <4>3, <4>4, <4>5, <4>6
      <4> QED BY <3>2, <4>1, <4>7, InformedNext
    <3> QED BY <3>4, <3>5
  <2> QED BY <2>2, <2>3
<1> QED BY <1>2 DEF NewsInv

LEMMA NotifyNews ==
    ASSUME NewsInv, FeedInv', EachIsAnnounced, NEW p \in Principals, Notify(p)
    PROVE  NewsInv'
<1>1. NewsTypes /\ StoreStands /\ announce[p] > 0 /\ heard' = heard
      /\ announce' = [announce EXCEPT ![p] = @ - 1]
  BY DEF NewsInv, Notify, StoreStands
<1>2. PICK told \in Announced : /\ task' = Wakened(IF told[1] THEN {p} ELSE {})
                                /\ notes' = IF told[2] /\ heard THEN notes \cup {p} ELSE notes
  BY DEF Notify
<1>3. told[1] = TRUE \/ (told[1] = FALSE /\ told[2] = TRUE)
  <2>1. told \in BOOLEAN \X BOOLEAN /\ told # <<FALSE, FALSE>>
    BY StreamsAssumption DEF EachIsAnnounced
  <2>2. PICK a \in BOOLEAN, b \in BOOLEAN : told = <<a, b>>
    BY <2>1
  <2>3. told[1] = a /\ told[2] = b
    BY <2>2
  <2>4. a = TRUE \/ a = FALSE
    OBVIOUS
  <2>5. b = TRUE \/ b = FALSE
    OBVIOUS
  <2>6. ~(a = FALSE /\ b = FALSE)
    BY <2>1, <2>2
  <2> QED BY <2>3, <2>4, <2>5, <2>6
<1>4. notes \subseteq notes' /\ notes' \subseteq Principals /\ (heard = TRUE /\ told[2] = TRUE => p \in notes')
  BY <1>1, <1>2 DEF NewsTypes
<1>5. NewsTypes'
  BY <1>1, <1>4 DEF NewsTypes
<1>6. ASSUME NEW x \in Principals, x # p, Told(x) PROVE Told(x)'
  BY <1>1, <1>4, <1>6 DEF Told, NewsTypes
<1>7. CASE told[1] = TRUE
  <2>1. task' = Wakened({p})
    BY <1>2, <1>7
  <2> QED BY <1>1, <1>5, <1>6, <2>1, WakeNews
<1>8. CASE told[1] = FALSE /\ told[2] = TRUE
  <2>1. task' = Wakened({})
    BY <1>2, <1>8
  <2>2. Told(p)'
    BY <1>1, <1>4, <1>8 DEF Told, NewsTypes
  <2> QED BY <1>1, <1>5, <1>6, <2>1, <2>2, WakeNews
<1> QED BY <1>3, <1>7, <1>8

LEMMA ListenNews ==
    ASSUME NewsInv, FeedInv', NEW p \in Principals, Listen(p)
    PROVE  NewsInv'
<1>1. NewsTypes /\ StoreStands /\ task' = Wakened({p}) /\ UNCHANGED <<heard, announce>>
      /\ notes' = notes \ {p}
  BY DEF NewsInv, Listen, StoreStands
<1>2. NewsTypes'
  BY <1>1 DEF NewsTypes
<1>3. ASSUME NEW x \in Principals \ {p}, Told(x) PROVE Told(x)'
  BY <1>1, <1>3 DEF Told
<1> QED BY <1>1, <1>2, <1>3, WakeNews

LEMMA ListenerNews ==
    ASSUME NewsInv, FeedInv', ListenerLost \/ ListenerBack
    PROVE  NewsInv'
<1>1. CASE ListenerLost
  <2>1. NewsTypes' /\ heard' = FALSE
    BY <1>1 DEF NewsInv, NewsTypes, ListenerLost
  <2>2. \A s \in Tasks : Informed(s)'
    BY <2>1, InformedNext DEF Told
  <2> QED BY <2>1, <2>2 DEF NewsInv
<1>2. CASE ListenerBack
  <2>1. NewsTypes' /\ StoreStands /\ task' = Wakened(Principals)
    BY <1>2 DEF NewsInv, NewsTypes, ListenerBack, StoreStands
  <2> QED BY <2>1, WakeNews
<1> QED BY <1>1, <1>2

\* A commit is announced after it: until then its principal's streams are told.
LEMMA CommitNews ==
    ASSUME NewsInv, FeedInv', EachIsAnnounced, NEW r \in Runs, Commit(r), StreamsStand,
           UNCHANGED <<heard, notes>>,
           announce' = [announce EXCEPT ![OwnerOf[r]] = IF Announced = {} THEN @ ELSE @ + 1]
    PROVE  NewsInv'
<1> DEFINE p == OwnerOf[r]
<1>1. FeedInv /\ NewsTypes /\ StoreInv /\ StoreTypes /\ watches \in [Clients -> Watchable]
  BY DEF NewsInv, FeedInv, ClientTypes, StoreInv
<1>2. p \in Principals /\ announce[p] \in Nat
  BY <1>1, OutboxAssumption DEF NewsTypes
<1>3. announce' = [announce EXCEPT ![p] = announce[p] + 1]
  BY DEF EachIsAnnounced
<1>4. announce'[p] > 0 /\ NewsTypes'
  BY <1>1, <1>2, <1>3 DEF NewsTypes
<1>5. /\ \A x \in Runs : x # r => log'[x] = log[x]
      /\ \A x \in Principals : x # p => counter'[x] = counter[x]
  <2>1. PICK new : log' = [log EXCEPT ![r] = new]
    BY DEF Commit
  <2>2. PICK more : counter' = [counter EXCEPT ![p] = more]
    BY <1>1, CommitWrites
  <2> QED BY <1>1, <2>1, <2>2 DEF StoreTypes
<1>6. watches' = watches /\ task' = task
  BY DEF StreamsStand
<1>7. ASSUME NEW s \in Tasks PROVE Informed(s)'
  <2>1. PICK k : k = task[s]
    OBVIOUS
  <2>2. CASE k = NoTask
    BY <1>6, <2>1, <2>2, InformedNext
  <2>3. CASE k # NoTask
    <3>1. PICK c \in Clients : c = k.client
      BY <1>1, <2>1, <2>3, TaskFacts DEF TaskIs
    <3>2. Owner(c)' = Owner(c) /\ Owner(c) \in Principals
      BY <1>1, <1>6, ListTypes DEF Owner, IsRun
    <3>3. CASE Owner(c) = p
      <4>1. Told(Owner(c))'
        BY <1>4, <3>2, <3>3 DEF Told
      <4> QED BY <1>6, <2>1, <3>1, <4>1, InformedNext
    <3>4. CASE Owner(c) # p
      <4>1. End(c)' = End(c)
        <5>1. CASE IsRun(c)
          <6>1. watches[c] \in Runs /\ watches[c] # r
            BY <3>4, <5>1 DEF Owner, IsRun
          <6> QED BY <1>5, <1>6, <6>1 DEF End, IsRun
        <5>2. CASE ~IsRun(c)
          <6>1. watches[c] \in Principals /\ watches[c] # p
            BY <1>1, <3>4, <5>2, ListTypes DEF Owner
          <6> QED BY <1>5, <1>6, <5>2, <6>1 DEF End, IsRun
        <5> QED BY <5>1, <5>2
      <4>2. announce'[Owner(c)] = announce[Owner(c)]
        BY <1>1, <1>3, <3>2, <3>4 DEF NewsTypes
      <4>3. Told(Owner(c)) => Told(Owner(c))'
        BY <3>2, <4>2 DEF Told
      <4>4. k.hinted = TRUE \/ Told(Owner(c)) \/ Covered(k, End(c))
        BY <2>1, <2>3, <3>1, InformedNow DEF NewsInv
      <4>5. k.hinted = TRUE \/ Told(Owner(c))' \/ Covered(k, End(c)')
        BY <4>1, <4>3, <4>4
      <4> QED BY <1>6, <2>1, <3>1, <4>5, InformedNext
    <3> QED BY <3>3, <3>4
  <2> QED BY <2>2, <2>3
<1> QED BY <1>4, <1>7 DEF NewsInv

\* The other steps of the store leave the lists' ends alone.
LEMMA StoreStepNews ==
    ASSUME NewsInv, FeedInv', UNCHANGED streamVars,
           \/ \E r \in Runs : Insert(r) \/ Number(r) \/ RollBack(r)
           \/ \E q \in Pruners : Cut(q) \/ Mark(q)
           \/ Tick
    PROVE  NewsInv'
<1>1. FeedInv /\ NewsTypes /\ StoreInv /\ watches \in [Clients -> Watchable]
      /\ \A x \in Tasks : Informed(x)
  BY DEF NewsInv, FeedInv, ClientTypes
<1>2. UNCHANGED <<watches, heard, announce, notes, task>>
  BY DEF streamVars
<1>3. log' = log /\ \A p \in Principals : counter'[p].last = counter[p].last
  <2>1. ASSUME NEW q \in Pruners, Mark(q)
        PROVE  log' = log /\ \A p \in Principals : counter'[p].last = counter[p].last
    BY <1>1, <2>1, MarkKeepsStore DEF Mark
  <2> QED BY <2>1 DEF Insert, Number, RollBack, Cut, Tick
<1>4. ASSUME NEW c \in Clients PROVE End(c)' = End(c) /\ Owner(c)' = Owner(c)
  <2>1. CASE IsRun(c)
    BY <1>2, <1>3, <2>1 DEF End, Owner, IsRun
  <2>2. CASE ~IsRun(c)
    <3>1. watches[c] \in Principals
      BY <1>1, <2>2, ListTypes
    <3> QED BY <1>2, <1>3, <2>2, <3>1 DEF End, Owner, IsRun
  <2> QED BY <2>1, <2>2
<1>5. NewsStand
  <2>1. ASSUME NEW p \in Principals, Told(p) PROVE Told(p)'
    BY <1>2, <2>1 DEF Told
  <2> QED BY <1>4, <2>1 DEF NewsStand
<1>6. NewsTypes'
  BY <1>1, <1>2 DEF NewsTypes
<1>7. \A s \in Tasks : Informed(s)'
  BY <1>1, <1>2, <1>5, InformedStays
<1> QED BY <1>6, <1>7 DEF NewsInv

LEMMA ClientNews ==
    ASSUME NewsInv, FeedInv', NEW c \in Clients, Watch(c) \/ Drop(c)
    PROVE  NewsInv'
<1>1. CASE Connect(c)
  <2>1. StoreStands /\ UNCHANGED <<heard, announce, notes>>
    BY <1>1 DEF Connect, StoreStands
  <2>2. \E s \in Tasks : Free(s)
    BY <1>1 DEF Connect
  <2>3. PICK s : s = CHOOSE x \in Tasks : Free(x)
    OBVIOUS
  <2>4. s \in Tasks
    BY <2>2, <2>3
  <2>5. PICK j : j = [client |-> c, cursor |-> at[c], pc |-> "read",
                      page |-> {}, full |-> FALSE, hinted |-> FALSE]
    OBVIOUS
  <2>6. task' = [task EXCEPT ![s] = j]
    BY <1>1, <2>3, <2>5 DEF Connect
  <2>7. j.client = c /\ j.pc = "read"
    BY <2>5
  <2>8. \A n : Covered(j, n)
    BY <2>7 DEF Covered
  <2> QED BY <2>1, <2>4, <2>6, <2>7, <2>8, TaskStepNews
<1>2. CASE NoContent(c) \/ Receive(c) \/ StreamEnds(c) \/ Drop(c)
  <2>1. StoreStands /\ UNCHANGED <<heard, announce, notes, task>>
    BY <1>2 DEF NoContent, Receive, StreamEnds, Drop, StoreStands
  <2> QED BY <2>1, QuietNews
<1> QED BY <1>1, <1>2 DEF Watch

LEMMA TaskEndsNews ==
    ASSUME NewsInv, FeedInv', NEW s \in Tasks, NoticeGone(s) \/ ReadFails(s)
    PROVE  NewsInv'
BY TaskStepNews DEF NoticeGone, ReadFails, StoreStands

\* A task that goes on to read will find what it has not sent.
LEMMA ReadsNews ==
    ASSUME NewsInv, FeedInv', NEW s \in Tasks, NEW j \in TaskType, j.pc = "read",
           task' = [task EXCEPT ![s] = j], StoreStands, UNCHANGED <<heard, announce, notes>>
    PROVE  NewsInv'
<1>1. \A n : Covered(j, n)
  BY DEF Covered
<1>2. j.client \in Clients
  BY DEF TaskType
<1> QED BY <1>1, <1>2, TaskStepNews

LEMMA ReadEndNews ==
    ASSUME NewsInv, FeedInv', NEW s \in Tasks, ReadEnd(s)
    PROVE  NewsInv'
<1>1. PICK k : k = task[s]
  OBVIOUS
<1>2. PICK n : n = counter[Owner(k.client)].last
  OBVIOUS
<1>3. PICK j : j = [k EXCEPT !.cursor = n]
  OBVIOUS
<1>4. FeedInv /\ k # NoTask /\ k.pc = "read"
  BY <1>1 DEF NewsInv, ReadEnd
<1>5. StoreInv /\ watches \in [Clients -> Watchable] /\ k \in TaskType /\ k.client \in Clients
  BY <1>1, <1>4, TaskFacts DEF FeedInv, ClientTypes, TaskIs
<1>6. n \in Nat
  <2>1. Owner(k.client) \in Principals
    BY <1>5, ListTypes
  <2> QED BY <1>2, <1>5, <2>1 DEF StoreInv, StoreTypes
<1>7. j \in TaskType /\ j.pc = "read"
  BY <1>3, <1>4, <1>5, <1>6 DEF TaskType
<1>8. task' = [task EXCEPT ![s] = j]
  BY <1>1, <1>2, <1>3 DEF ReadEnd
<1>9. StoreStands /\ UNCHANGED <<heard, announce, notes>>
  BY DEF ReadEnd, StoreStands
<1> QED BY <1>7, <1>8, <1>9, ReadsNews

LEMMA MoveNews ==
    ASSUME NewsInv, FeedInv', NEW s \in Tasks, PageSent(s) \/ Hinted(s) \/ Poll(s)
    PROVE  NewsInv'
<1>1. PICK k : k = task[s]
  OBVIOUS
<1>2. FeedInv /\ k # NoTask /\ Informed(s)
  BY <1>1 DEF NewsInv, PageSent, Hinted, Poll
<1>3. k \in TaskType /\ k.client \in Clients /\ k.full \in BOOLEAN /\ k.hinted \in BOOLEAN
  BY <1>1, <1>2, TaskFacts DEF TaskIs, TaskType
<1>4. StoreStands /\ UNCHANGED <<heard, announce, notes>>
  BY DEF PageSent, Hinted, Poll, StoreStands
<1>5. CASE Hinted(s)
  <2>1. PICK j : j = [k EXCEPT !.pc = "read", !.hinted = FALSE]
    OBVIOUS
  <2>2. task' = [task EXCEPT ![s] = j]
    BY <1>1, <1>5, <2>1 DEF Hinted
  <2>3. j \in TaskType /\ j.pc = "read"
    BY <1>3, <2>1 DEF TaskType
  <2> QED BY <1>4, <2>2, <2>3, ReadsNews
<1>6. CASE task' = [task EXCEPT ![s].pc = "read"]
  <2>1. PICK j : j = [k EXCEPT !.pc = "read"]
    OBVIOUS
  <2>2. task' = [task EXCEPT ![s] = j]
    BY <1>1, <1>6, <2>1
  <2>3. j \in TaskType /\ j.pc = "read"
    BY <1>3, <2>1 DEF TaskType
  <2> QED BY <1>4, <2>2, <2>3, ReadsNews
<1>7. CASE k.full = FALSE /\ PageSent(s)
  <2>1. PICK j : j = [k EXCEPT !.pc = "wait"]
    OBVIOUS
  <2>2. task' = [task EXCEPT ![s] = j] /\ k.page = {} /\ k.pc = "send"
    BY <1>1, <1>7, <2>1 DEF PageSent, To
  <2>3. j \in TaskType /\ j.client = k.client /\ j.page = k.page /\ j.cursor = k.cursor /\ j.hinted = k.hinted
    BY <1>3, <2>1 DEF TaskType
  <2>4. \A n : Covered(k, n) => Covered(j, n)
    BY <1>7, <2>2, <2>3 DEF Covered
  <2>5. k.hinted = TRUE \/ Told(Owner(k.client)) \/ Covered(k, End(k.client))
    BY <1>1, <1>2, InformedNow
  <2>6. j.hinted = TRUE \/ Told(Owner(j.client)) \/ Covered(j, End(j.client))
    BY <2>3, <2>4, <2>5
  <2> QED BY <1>3, <1>4, <2>2, <2>3, <2>6, TaskStepNews
<1>8. PageSent(s) \/ Poll(s) => task' = [task EXCEPT ![s].pc = "read"] \/ (k.full = FALSE /\ PageSent(s))
  BY <1>1, <1>3 DEF PageSent, Poll, To
<1> QED BY <1>5, <1>6, <1>7, <1>8

LEMMA ReadNews ==
    ASSUME NewsInv, FeedInv', NEW s \in Tasks, Read(s)
    PROVE  NewsInv'
<1>1. PICK k : k = task[s]
  OBVIOUS
<1>2. PICK page : page = ReadOf(k.client, k.cursor)
  OBVIOUS
<1>3. FeedInv /\ k # NoTask /\ k.cursor # Nowhere /\ StoreStands /\ UNCHANGED <<heard, announce, notes>>
  BY <1>1, <1>2, ReadGives DEF NewsInv
<1>4. TaskIs(s, k)
  BY <1>1, <1>3, TaskFacts
<1>5. /\ StoreInv /\ watches \in [Clients -> Watchable] /\ k \in TaskType /\ k.client \in Clients
      /\ k.cursor \in Nat /\ k.cursor <= End(k.client)
  BY <1>3, <1>4 DEF FeedInv, ClientTypes, TaskIs
<1>6. \/ \E m \in page : m.entry = <<>>
      \/ Cardinality(page) = Page
      \/ \A i \in (k.cursor + 1)..End(k.client) : \E m \in page : m.id = i
  BY <1>2, <1>5, ReadIsPage
<1>7. CASE task' = [task EXCEPT ![s] = NoTask]
  BY <1>3, <1>7, TaskStepNews
<1>8. ASSUME NEW full \in BOOLEAN, full = TRUE \/ Cardinality(page) # Page,
             task' = [task EXCEPT ![s] = Sending(k, page, full)]
      PROVE  NewsInv'
  <2>1. PICK j : j = Sending(k, page, full)
    OBVIOUS
  <2>2. j.client = k.client /\ j.cursor = k.cursor /\ j.pc = "send" /\ j.page = page /\ j.full = full
    BY <1>5, <2>1 DEF TaskType, Sending
  <2>3. Covered(j, End(j.client))
    BY <1>6, <1>8, <2>2 DEF Covered
  <2>4. task' = [task EXCEPT ![s] = j]
    BY <1>8, <2>1
  <2> QED BY <1>3, <1>5, <2>2, <2>3, <2>4, TaskStepNews
<1>9. AfterRead(s, k, page)
  BY <1>1, <1>2, ReadGives
<1> QED BY <1>7, <1>8, <1>9 DEF AfterRead

LEMMA SendNews ==
    ASSUME NewsInv, FeedInv', NEW s \in Tasks, Send(s)
    PROVE  NewsInv'
<1>1. PICK k : k = task[s]
  OBVIOUS
<1>2. FeedInv /\ k # NoTask /\ StoreStands /\ UNCHANGED <<heard, announce, notes>> /\ Informed(s)
  BY <1>1, SendGives DEF NewsInv
<1>3. PICK m \in k.page : SendOf(s, k, m)
  BY <1>1, SendGives
<1>4. TaskIs(s, k)
  BY <1>1, <1>2, TaskFacts
<1>5. PICK c \in Clients : c = k.client
  BY <1>4 DEF TaskIs
<1>6. /\ k \in TaskType /\ k.cursor \in Int /\ k.page \subseteq MessageType /\ k.pc = "send"
      /\ PageInv(c, k.cursor, k.page)
  BY <1>3, <1>4, <1>5 DEF TaskIs, SendOf, TaskType, Nowhere
<1>7. m.id \in Nat /\ k.cursor < m.id
  <2>1. m.id \in Nat
    BY <1>6 DEF MessageType
  <2>2. k.cursor < m.id \/ m.id \in (k.cursor + 1)..End(c)
    BY <1>6 DEF PageInv
  <2> QED BY <1>6, <2>1, <2>2
<1>8. CASE task' = [task EXCEPT ![s] = NoTask]
  BY <1>2, <1>8, TaskStepNews
<1>9. CASE m.entry # <<>> /\ task' = [task EXCEPT ![s] = [k EXCEPT !.page = k.page \ {m}, !.cursor = m.id]]
  <2>1. PICK j : j = [k EXCEPT !.page = k.page \ {m}, !.cursor = m.id]
    OBVIOUS
  <2>2. /\ j.client = c /\ j.cursor = m.id /\ j.pc = "send" /\ j.page = k.page \ {m}
        /\ j.full = k.full /\ j.hinted = k.hinted
    BY <1>5, <1>6, <2>1 DEF TaskType
  <2>3. End(c) \in Nat
    BY <1>2, ListTypes DEF FeedInv, ClientTypes
  <2>4. ASSUME \A i \in (k.cursor + 1)..End(c) : \E x \in k.page : x.id = i,
               NEW i \in (m.id + 1)..End(c)
        PROVE  \E x \in k.page \ {m} : x.id = i
    <3>1. i \in (k.cursor + 1)..End(c) /\ i # m.id
      BY <1>6, <1>7, <2>3
    <3>2. PICK x \in k.page : x.id = i
      BY <2>4, <3>1
    <3> QED BY <3>1, <3>2
  <2>5. Covered(k, End(c)) => Covered(j, End(c))
    BY <1>6, <1>9, <2>2, <2>4 DEF Covered
  <2>6. k.hinted = TRUE \/ Told(Owner(c)) \/ Covered(k, End(c))
    BY <1>1, <1>2, <1>5, InformedNow
  <2>7. task' = [task EXCEPT ![s] = j]
    BY <1>9, <2>1
  <2>8. j.hinted = TRUE \/ Told(Owner(c)) \/ Covered(j, End(c))
    BY <2>2, <2>5, <2>6
  <2> QED BY <1>2, <2>2, <2>7, <2>8, TaskStepNews
<1> QED BY <1>3, <1>8, <1>9 DEF SendOf

LEMMA NewsStep ==
    ASSUME EachIsAnnounced, NewsInv, FeedInv', [Next]_vars
    PROVE  NewsInv'
<1>1. ASSUME NEW r \in Runs, Store(r) PROVE NewsInv'
  <2>1. CASE Commit(r) /\ announce' = [announce EXCEPT ![OwnerOf[r]] = IF Announced = {} THEN @ ELSE @ + 1]
              /\ UNCHANGED <<watches, at, last, conn, wire, drops, done, task, heard, notes>>
    <3>1. StreamsStand /\ UNCHANGED <<heard, notes>>
      BY <2>1 DEF StreamsStand
    <3> QED BY <2>1, <3>1, CommitNews
  <2>2. CASE (Insert(r) \/ Number(r) \/ RollBack(r)) /\ UNCHANGED streamVars
    BY <2>2, StoreStepNews
  <2> QED BY <1>1, <2>1, <2>2 DEF Store
<1>2. ASSUME NEW q \in Pruners, Prune(q) PROVE NewsInv'
  BY <1>2, StoreStepNews DEF Prune
<1>3. CASE Time
  BY <1>3, StoreStepNews DEF Time
<1>4. CASE \E p \in Principals : Notify(p) \/ Listen(p)
  BY <1>4, NotifyNews, ListenNews
<1>5. CASE ListenerLost \/ ListenerBack
  BY <1>5, ListenerNews
<1>6. CASE \E c \in Clients : Watch(c) \/ Drop(c)
  BY <1>6, ClientNews
<1>7. CASE \E s \in Tasks : Serve(s) \/ ReadFails(s)
  BY <1>7, ReadEndNews, ReadNews, SendNews, MoveNews, TaskEndsNews DEF Serve
<1>8. CASE UNCHANGED vars
  <2>1. StoreStands /\ UNCHANGED <<heard, announce, notes, task>>
    BY <1>8 DEF vars, streamVars, StoreStands
  <2> QED BY <2>1, QuietNews
<1> QED BY <1>1, <1>2, <1>3, <1>4, <1>5, <1>6, <1>7, <1>8 DEF Next

LEMMA NewsStarts == Init => NewsTypes /\ \A s \in Tasks : Informed(s)
BY DEF Init, NewsTypes, Informed

LEMMA NewsMeans ==
    ASSUME NewsInv
    PROVE  NoStreamSleepsOnNews
<1> SUFFICES ASSUME NEW s \in Tasks, NEW k, k = task[s], k # NoTask, k.pc = "wait", ~k.hinted,
                    NEW c, c = k.client, NEW p, p = Owner(c)
             PROVE  \/ ~heard \/ announce[p] > 0 \/ p \in notes
                    \/ k.cursor >= IF IsRun(c) THEN log[watches[c]].n ELSE counter[p].last
  BY DEF NoStreamSleepsOnNews
<1>1. FeedInv /\ Informed(s) /\ heard \in BOOLEAN
  BY DEF NewsInv, NewsTypes
<1>2. TaskIs(s, k)
  BY <1>1, TaskFacts
<1>3. k.client \in Clients /\ k.page = {} /\ k.cursor \in Nat
  BY <1>2 DEF TaskIs
<1>4. End(c) \in Nat /\ End(c) = IF IsRun(c) THEN log[watches[c]].n ELSE counter[p].last
  BY <1>1, <1>3, ListTypes DEF FeedInv, ClientTypes, End, Owner
<1>5. k.hinted = TRUE \/ Told(p) \/ Covered(k, End(c))
  BY <1>1, InformedNow
<1>6. CASE Told(p)
  BY <1>1, <1>6 DEF Told
<1>7. CASE Covered(k, End(c))
  <2>1. ~\E i \in (k.cursor + 1)..End(c) : TRUE
    BY <1>3, <1>7 DEF Covered
  <2>2. k.cursor >= End(c)
    BY <1>3, <1>4, <2>1
  <2> QED BY <1>4, <2>2
<1> QED BY <1>5, <1>6, <1>7

\* No stream sleeps through news (stream.rs: a stream subscribes before its
\* first read and wait looks at a hint that came while it read; postgres.rs
\* listen wakes every stream when it is back): when a commit is always
\* announced, to this server's streams or to Postgres, a task that waits
\* with no hint has sent everything stored, or an announcement is on its
\* way to it, or the listener is down and will wake it.
THEOREM NoNewsIsMissed == EachIsAnnounced => (Spec => []NoStreamSleepsOnNews)
<1> SUFFICES ASSUME EachIsAnnounced PROVE Spec => []NoStreamSleepsOnNews
  OBVIOUS
<1>1. Init => NewsInv
  BY FeedInit, NewsStarts DEF NewsInv
<1>2. NewsInv /\ [Next]_vars => NewsInv'
  BY FeedStep, NewsStep DEF NewsInv
<1>3. NewsInv => NoStreamSleepsOnNews
  BY NewsMeans
<1> QED BY <1>1, <1>2, <1>3, PTL DEF Spec
=============================================================================
