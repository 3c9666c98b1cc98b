------------------------------ MODULE Producer ------------------------------
(***************************************************************************)
(* The producers of runs: spawner.rs's `enqueue`, which pends a run, stores *)
(* it and pushes it, for create_run and for the owned spawner.  A run that  *)
(* create_run starts has a fresh id and one producer.  A child's id is      *)
(* fixed by its request, so a parent that is resumed produces it again:     *)
(* `enqueue_child` settles what it then finds.                              *)
(***************************************************************************)
EXTENDS SharedState

CONSTANTS
    Producers,     \* calls of enqueue
    ProducedRun,   \* ProducedRun[p]: the run p enqueues
    Children,      \* the producers that are enqueue_child
    Forgettable    \* the runs that may stay pending for forget_after

ASSUME ProducerAssumption == /\ ProducedRun \in [Producers -> Runs]
                             /\ Children \subseteq Producers
                             /\ Forgettable \subseteq Runs

VARIABLES
    pr,     \* pr[p]: where producer p is
    late    \* the producers whose put may still commit after p gave up on it

ProducerPcs == {"new", "put", "push", "end", "existing", "check", "unpend", "done"}

ProducerInit == pr = [p \in Producers |-> "new"] /\ late = {}

At(p, pc) == pr[p] = pc
To(p, pc) == pr' = [pr EXCEPT ![p] = pc]

\* queued_events, stored as one put.
QueuedEvents == <<Plain("RunQueued")>>

\* put_run keeps a run already stored under the id.
PutRun(l) == IF l = <<>> THEN QueuedEvents ELSE l

\* queue.pend; Redis refusing it stores nothing and is the producer's end.
PendRun(p) ==
    /\ At(p, "new")
    /\ queue' = Pend(queue, ProducedRun[p])
    /\ To(p, "put")
    /\ UNCHANGED <<log, rows, stops, faults, late>>

\* put_run answered Stored, or Existed, which a child's producer settles.
PutStored(p) ==
    LET r == ProducedRun[p]
    IN  /\ At(p, "put")
        /\ log' = [log EXCEPT ![r] = PutRun(@)]
        /\ To(p, IF ~Stored(r) THEN "push"
                 ELSE IF p \in Children THEN "existing" ELSE "done")
        /\ UNCHANGED <<queue, rows, stops, faults, late>>

\* put_run failed; it committed, it did not, or it still may.
PutFails(p) ==
    LET r == ProducedRun[p]
    IN  /\ At(p, "put")
        /\ Fault
        /\ \/ log' = [log EXCEPT ![r] = PutRun(@)] /\ UNCHANGED late
           \/ UNCHANGED log /\ late' \in {late, late \cup {p}}
        /\ To(p, "end")
        /\ UNCHANGED <<queue, rows, stops>>

\* The database commits a put whose caller saw an error.
PutCommitsLate(p) ==
    /\ p \in late
    /\ late' = late \ {p}
    /\ log' = [log EXCEPT ![ProducedRun[p]] = PutRun(@)]
    /\ UNCHANGED <<queue, rows, stops, faults, pr>>

\* queue.push
PushRun(p) ==
    /\ At(p, "push")
    /\ queue' = Push(queue, ProducedRun[p])
    /\ To(p, "done")
    /\ UNCHANGED <<log, rows, stops, faults, late>>

\* The push failed, or only its answer was lost.  create_run ends the run
\* (OnPushFailure::End); a child is left to the sweep (LeaveToSweep).
PushFails(p) ==
    /\ At(p, "push")
    /\ Fault
    /\ queue' \in {queue, Push(queue, ProducedRun[p])}
    /\ To(p, IF p \in Children THEN "done" ELSE "end")
    /\ UNCHANGED <<log, rows, stops, late>>

\* end: RunFailed, which a store that holds no such run refuses.
EndRun(p) ==
    /\ At(p, "end")
    /\ log' = [log EXCEPT ![ProducedRun[p]] = AppendEvents(@, <<Plain("RunFailed")>>)]
    /\ To(p, "done")
    /\ UNCHANGED <<queue, rows, stops, faults, late>>

\* enqueue_child reads the run it found: one that never will run, or that is
\* past waiting, comes off pending.
ReadExisting(p) ==
    LET l == log[ProducedRun[p]]
    IN  /\ At(p, "existing")
        /\ To(p, IF NeverRan(l) \/ ~StillWaiting(l) THEN "unpend" ELSE "check")
        /\ UNCHANGED <<shared, late>>

\* settle_existing's queued_or_claimed.
CheckQueued(p) ==
    /\ At(p, "check")
    /\ To(p, IF QueuedOrClaimed(queue, ProducedRun[p]) THEN "unpend" ELSE "done")
    /\ UNCHANGED <<shared, late>>

UnpendExisting(p) ==
    /\ At(p, "unpend")
    /\ queue' = Unpend(queue, ProducedRun[p])
    /\ To(p, "done")
    /\ UNCHANGED <<log, rows, stops, faults, late>>

\* The producer's process dies, or one of its calls fails and it gives up
\* there.  A put that was under way may still commit.
ProducerDies(p) ==
    /\ ~At(p, "done")
    /\ Fault
    /\ To(p, "done")
    /\ late' \in {late, IF At(p, "put") THEN late \cup {p} ELSE late}
    /\ UNCHANGED <<queue, log, rows, stops>>

\* r has been pending for forget_after.  No put takes that long: the code
\* takes one that does for dead (QueueTiming.forget_after).
PendingForgotten(r) ==
    /\ r \in Forgettable
    /\ queue.pending[r] = "fresh"
    /\ \A p \in Producers : ProducedRun[p] = r => pr[p] # "put" /\ p \notin late
    /\ queue' = PendingAges(queue, r)
    /\ UNCHANGED <<log, rows, stops, faults, pr, late>>

ProducerSteps(p) ==
    \/ PendRun(p) \/ PutStored(p) \/ PushRun(p) \/ EndRun(p)
    \/ ReadExisting(p) \/ CheckQueued(p) \/ UnpendExisting(p)

ProducerFaults(p) == PutFails(p) \/ PushFails(p) \/ ProducerDies(p) \/ PutCommitsLate(p)
=============================================================================
