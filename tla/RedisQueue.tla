----------------------------- MODULE RedisQueue -----------------------------
(***************************************************************************)
(* The Redis run queue: one operator per Lua script of queue.rs, from the  *)
(* state the script finds to the state it leaves.  Redis runs a script as  *)
(* one step, so every use of these operators is one step of its caller.    *)
(*                                                                         *)
(*   runs       the list of run ids, the end claims take from first        *)
(*   processing how many entries a run has in the processing list; the     *)
(*              order of that list decides only the order of one reap      *)
(*   deliveries the start counts                                           *)
(*   pending    "no", or how long the run has been pending: "fresh", or    *)
(*              "old" once for forget_after.  The score is the time of the *)
(*              first pend                                                 *)
(*   parked     the ask a parked run waits on, 0 when it is not parked     *)
(*   lease      the worker whose token holds the lease, or NoLease         *)
(***************************************************************************)
EXTENDS Naturals, Sequences, FiniteSets

CONSTANTS Runs, Workers, NoLease

ASSUME QueueAssumption == /\ IsFiniteSet(Runs)
                          /\ NoLease \notin Workers

PendingAge == {"no", "fresh", "old"}

EmptyQueue == [runs       |-> <<>>,
               processing |-> [r \in Runs |-> 0],
               deliveries |-> [r \in Runs |-> 0],
               pending    |-> [r \in Runs |-> "no"],
               parked     |-> [r \in Runs |-> 0],
               lease      |-> [r \in Runs |-> NoLease]]

\* LPOS on the runs list.
OnRuns(q, r) == \E i \in DOMAIN q.runs : q.runs[i] = r

\* Mutant: an entry that is not there is counted out all the same.
OneLessUnchecked(n) == n - 1

\* LREM processing 1 r, as the new count of r's entries.
OneLess(n) == IF n = 0 THEN 0 ELSE n - 1

\* PEND: ZADD NX, an entry already pending keeps its age.
Pend(q, r) == [q EXCEPT !.pending[r] = IF @ = "no" THEN "fresh" ELSE @]

\* ZREM of the pending entry.
Unpend(q, r) == [q EXCEPT !.pending[r] = "no"]

\* QUEUED_OR_CLAIMED
QueuedOrClaimed(q, r) == OnRuns(q, r) \/ q.processing[r] > 0

\* PUSH: onto the back of the list and off pending.
Push(q, r) == [q EXCEPT !.runs = Append(@, r),
                        !.pending[r] = "no"]

\* CLAIM: the oldest entry goes to processing with w's lease, unless the run
\* is leased already, which drops the entry.
Claim(q, w) ==
    LET r == Head(q.runs)
    IN  IF q.lease[r] = NoLease
        THEN [q EXCEPT !.runs = Tail(@),
                       !.processing[r] = @ + 1,
                       !.lease[r] = w]
        ELSE [q EXCEPT !.runs = Tail(@)]

\* START: counts a start; the count is what the caller reads.
Start(q, r) == [q EXCEPT !.deliveries[r] = @ + 1]

\* RENEW, as the question it answers: does w's token hold r's lease?  (How
\* long the lease now lasts is left to LeaseExpires.)
Renew(q, r, w) == q.lease[r] = w

\* RELEASE: back of the runs list, if the lease is still w's.
Release(q, r, w) ==
    IF q.lease[r] = w
    THEN [q EXCEPT !.runs = Append(@, r),
                   !.processing[r] = OneLess(@),
                   !.lease[r] = NoLease]
    ELSE q

\* Mutant: the start count is kept.
ParkKeepsCount(q, r, w, ask) ==
    IF q.lease[r] = w
    THEN [q EXCEPT !.processing[r] = OneLess(@),
                   !.parked[r] = ask,
                   !.lease[r] = NoLease]
    ELSE q

\* PARK, if the lease is still w's; the start count goes with it.
Park(q, r, w, ask) ==
    IF q.lease[r] = w
    THEN [q EXCEPT !.processing[r] = OneLess(@),
                   !.parked[r] = ask,
                   !.lease[r] = NoLease,
                   !.deliveries[r] = 0]
    ELSE q

\* WAKE: only a run parked on this very ask.
Wake(q, r, ask) ==
    IF q.parked[r] # 0 /\ q.parked[r] = ask
    THEN [q EXCEPT !.parked[r] = 0,
                   !.runs = Append(@, r)]
    ELSE q

\* ACK: the processing entry and the count go whoever holds the lease.
Ack(q, r, w) ==
    [q EXCEPT !.processing[r] = OneLess(@),
              !.deliveries[r] = 0,
              !.lease[r] = IF @ = w THEN NoLease ELSE @]

\* The processing entries REAP moves: those of runs with no lease.
Orphans(q) == {e \in UNION {{r} \X (1..q.processing[r]) : r \in Runs} :
                  q.lease[e[1]] = NoLease}

\* The orders in which one REAP can move them.
ReapOrders(q) ==
    LET n == Cardinality(Orphans(q))
    IN  {f \in [1..n -> Orphans(q)] :
            \A e \in Orphans(q) : \E i \in 1..n : f[i] = e}

\* REAP: every orphan to the front of the runs list.
Reap(q, order) ==
    [q EXCEPT !.runs = [i \in DOMAIN order |-> order[i][1]] \o @,
              !.processing = [r \in Runs |-> IF q.lease[r] = NoLease THEN 0
                                             ELSE q.processing[r]]]

\* The TTL of r's lease runs out (Redis itself does this).
LeaseExpires(q, r) == [q EXCEPT !.lease[r] = NoLease]

\* r's pending entry passes forget_after on the Redis clock.
PendingAges(q, r) == [q EXCEPT !.pending[r] = IF @ = "no" THEN @ ELSE "old"]
=============================================================================
