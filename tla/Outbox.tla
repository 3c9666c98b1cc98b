------------------------------- MODULE Outbox -------------------------------
(***************************************************************************)
(* The outbox of the Postgres store: every event of every run, numbered in  *)
(* one list per principal.  put_run and append_events are transactions that *)
(* lock the run's row, insert the events, take numbers from the principal's *)
(* counter row and hold it to commit; prune_outbox is one statement that    *)
(* reads its cut from a snapshot and then waits for the counter rows.       *)
(***************************************************************************)
EXTENDS Integers, Sequences, FiniteSets, FiniteSetsExt

CONSTANTS
    Runs, Principals,
    OwnerOf,      \* OwnerOf[r]: the principal that owns run r
    Pruners,      \* the servers' reapers, each of which prunes
    MaxLog,       \* bound: events of one principal's runs
    MaxBatch,     \* bound: events of one append
    MaxTime       \* bound: the clock

ASSUME OutboxAssumption ==
    /\ OwnerOf \in [Runs -> Principals]
    /\ MaxLog \in Nat /\ MaxBatch \in Nat \ {0} /\ MaxTime \in Nat

VARIABLES
    log,       \* run_events: how many events a run has, and whether its last ends it
    tx,        \* the transaction that holds a run's row, NoTx for none
    counter,   \* outbox_counters: last and pruned
    outbox,    \* the outbox rows of a principal
    cut,       \* what a pruner's statement read, NoCut between statements
    now,       \* the clock
    stored     \* history: the entries in the order they were committed

storeVars == <<log, tx, counter, outbox, cut, now, stored>>

NoTx  == <<>>
NoCut == <<>>

Rows == [seq : Nat, run : Runs, runSeq : 1..MaxLog, at : 0..MaxTime]

StoreTypeOK ==
    /\ log \in [Runs -> [n : 0..MaxLog, ended : BOOLEAN]]
    /\ \A r \in Runs : tx[r] = NoTx \/ tx[r] \in
         [count : 1..MaxBatch, ends : BOOLEAN, at : 0..MaxTime, first : Nat]
    /\ counter \in [Principals -> [last : Nat, pruned : Nat]]
    /\ \A p \in Principals : outbox[p] \subseteq Rows
    /\ \A q \in Pruners : cut[q] = NoCut \/ cut[q] \in [Principals -> Nat]
    /\ now \in 0..MaxTime
    /\ stored \in [Principals -> Seq(Runs \X (1..MaxLog))]

StoreInit ==
    /\ log = [r \in Runs |-> [n |-> 0, ended |-> FALSE]]
    /\ tx = [r \in Runs |-> NoTx]
    /\ counter = [p \in Principals |-> [last |-> 0, pruned |-> 0]]
    /\ outbox = [p \in Principals |-> {}]
    /\ cut = [q \in Pruners |-> NoCut]
    /\ now = 0
    /\ stored = [p \in Principals |-> <<>>]

EndsAt(r, n) == log[r].ended /\ log[r].n = n

(***************************************************************************)
(* Appends                                                                 *)
(***************************************************************************)
\* How many events of p are in transactions under way.
Uncommitted(p) ==
    MapThenSumSet(LAMBDA r : tx[r].count, {r \in Runs : OwnerOf[r] = p /\ tx[r] # NoTx})

\* The run's row is new or locked, the run has no terminal event, and its
\* events are inserted.  The clock is read here, before the counter's lock.
Insert(r) ==
    /\ tx[r] = NoTx
    /\ ~log[r].ended
    /\ \E k \in 1..MaxBatch, ends \in BOOLEAN :
         /\ Uncommitted(OwnerOf[r]) + Len(stored[OwnerOf[r]]) + k <= MaxLog
         /\ tx' = [tx EXCEPT ![r] = [count |-> k, ends |-> ends, at |-> now, first |-> 0]]
    /\ UNCHANGED <<log, counter, outbox, cut, now, stored>>

Numbered(r) == tx[r] # NoTx /\ tx[r].first > 0

\* Nobody holds the lock of p's counter row.
CounterFree(p) == \A r \in Runs : OwnerOf[r] = p => ~Numbered(r)

\* Mutant: numbers as a sequence gives them: nobody waits for the counter.
NumberAtOnce(r) ==
    LET p == OwnerOf[r]
        taken == {tx[x].first + tx[x].count - 1 : x \in {x \in Runs : Numbered(x) /\ OwnerOf[x] = p}}
    IN  /\ tx[r] # NoTx /\ ~Numbered(r)
        /\ tx' = [tx EXCEPT ![r].first = Max({counter[p].last} \cup taken) + 1]
        /\ UNCHANGED <<log, counter, outbox, cut, now, stored>>

Number(r) ==
    LET p == OwnerOf[r]
    IN  /\ tx[r] # NoTx /\ ~Numbered(r)
        /\ CounterFree(p)
        /\ tx' = [tx EXCEPT ![r].first = counter[p].last + 1]
        /\ UNCHANGED <<log, counter, outbox, cut, now, stored>>

\* The numbers of r's transaction, and the row each gets.
Batch(r) == 1..tx[r].count

NewRows(r) ==
    {[seq |-> tx[r].first + i - 1, run |-> r, runSeq |-> log[r].n + i, at |-> tx[r].at] :
        i \in Batch(r)}

Commit(r) ==
    LET p == OwnerOf[r]
    IN  /\ Numbered(r)
        /\ log' = [log EXCEPT ![r] = [n |-> @.n + tx[r].count, ended |-> tx[r].ends]]
        /\ counter' = [counter EXCEPT ![p].last = Max({@, tx[r].first + tx[r].count - 1})]
        /\ outbox' = [outbox EXCEPT ![p] = @ \cup NewRows(r)]
        /\ stored' = [stored EXCEPT ![p] = @ \o [i \in Batch(r) |-> <<r, log[r].n + i>>]]
        /\ tx' = [tx EXCEPT ![r] = NoTx]
        /\ UNCHANGED <<cut, now>>

\* An error, or the server dies: Postgres rolls the transaction back.
RollBack(r) ==
    /\ tx[r] # NoTx
    /\ tx' = [tx EXCEPT ![r] = NoTx]
    /\ UNCHANGED <<log, counter, outbox, cut, now, stored>>

(***************************************************************************)
(* Pruning                                                                 *)
(***************************************************************************)
Cut(q) ==
    /\ cut[q] = NoCut
    /\ \E before \in 0..now :
         cut' = [cut EXCEPT ![q] = [p \in Principals |->
                   Max({0} \cup {row.seq : row \in {x \in outbox[p] : x.at < before}})]]
    /\ cut'[q] # [p \in Principals |-> 0]
    /\ UNCHANGED <<log, tx, counter, outbox, now, stored>>

Mark(q) ==
    /\ cut[q] # NoCut
    /\ \A p \in Principals : cut[q][p] > 0 => CounterFree(p)
    /\ outbox' = [p \in Principals |-> {row \in outbox[p] : row.seq > cut[q][p]}]
    /\ counter' = [p \in Principals |-> [counter[p] EXCEPT !.pruned = Max({@, cut[q][p]})]]
    /\ cut' = [cut EXCEPT ![q] = NoCut]
    /\ UNCHANGED <<log, tx, now, stored>>

Tick ==
    /\ now < MaxTime
    /\ now' = now + 1
    /\ UNCHANGED <<log, tx, counter, outbox, cut, stored>>

(***************************************************************************)
(* Reading                                                                 *)
(***************************************************************************)
\* outbox_after: one snapshot of the first `limit` rows after a number.
RowsAfter(p, after, limit) ==
    LET rows == {row \in outbox[p] : row.seq > after}
    IN  {row \in rows : Cardinality({x \in rows : x.seq < row.seq}) < limit}
=============================================================================
