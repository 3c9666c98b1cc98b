---------------------------- MODULE SharedState -----------------------------
(***************************************************************************)
(* What the server's threads share: the Redis queue, the run store (logs,  *)
(* ask rows and stops), and the count of faults injected so far.           *)
(***************************************************************************)
EXTENDS EventLog, RedisQueue

CONSTANTS
    NoRun,       \* what an idle thread works on
    MaxFaults    \* bound: store and Redis errors, and deaths of threads

ASSUME SharedAssumption == /\ NoRun \notin Runs
                           /\ MaxFaults \in Nat

VARIABLES
    queue,    \* the Redis queue
    log,      \* log[r]: the stored events of run r, <<>> when it is not stored
    rows,     \* rows[r][a]: the messages row of ask a of run r
    stops,    \* the runs a recorded stop covers
    faults    \* faults so far

shared == <<queue, log, rows, stops, faults>>

SharedInit ==
    /\ queue = EmptyQueue
    /\ log = [r \in Runs |-> <<>>]
    /\ rows = [r \in Runs |-> [a \in AskIds |-> "none"]]
    /\ stops = {}
    /\ faults = 0

\* One more error, timeout or death, while the bound allows one.
Fault == faults < MaxFaults /\ faults' = faults + 1

\* Worker::stopped: whether a stop covers r, as the reader finds it.  A store
\* that cannot answer is taken as no stop.
Stopped(r, found) ==
    \/ found = (r \in stops) /\ UNCHANGED faults
    \/ r \in stops /\ ~found /\ Fault

Stored(r) == log[r] # <<>>

Open(r) == Stored(r) /\ ~Ended(log[r])

\* r is on a list that brings it to a worker: queued, in processing or parked.
HeldIn(q, r) == OnRuns(q, r) \/ q.processing[r] > 0 \/ q.parked[r] # 0

Held(r) == HeldIn(queue, r)

\* The same, with pending, which the sweep pushes.
Tracked(r) == queue.pending[r] # "no" \/ Held(r)
=============================================================================
