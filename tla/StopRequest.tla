---------------------------- MODULE StopRequest -----------------------------
(***************************************************************************)
(* A request to stop a run (http.rs `stop`): the stop is recorded, and the  *)
(* run is cancelled here if no worker holds it, that is if it is still      *)
(* queued or is parked.  A run a worker holds is cancelled by that worker.  *)
(***************************************************************************)
EXTENDS SharedState

CONSTANT Stoppable   \* the runs a client may ask to stop

ASSUME StopAssumption == Stoppable \subseteq Runs

VARIABLE st

StopperPcs == {"idle", "parked", "read", "append", "wake"}

IdleStopper == [pc |-> "idle", run |-> NoRun, ask |-> 0, seen |-> 0]

StopperInit == st = IdleStopper

\* put_stop
PutStop(r) ==
    /\ st.pc = "idle"
    /\ r \in Stoppable
    /\ Stored(r)
    /\ stops' = stops \cup {r}
    /\ st' = [IdleStopper EXCEPT !.pc = "parked", !.run = r]
    /\ UNCHANGED <<queue, log, rows, faults>>

\* queue.parked: what is parked now, kept for the rest of the request.
ReadParked ==
    /\ st.pc = "parked"
    /\ st' = [st EXCEPT !.pc = "read", !.ask = queue.parked[st.run]]
    /\ UNCHANGED shared

\* open_runs_under reads the run; one that ended, or that is neither queued
\* nor was parked, is passed over.  The stop covers the run it was made for.
ReadRun ==
    LET l == log[st.run]
    IN  /\ st.pc = "read"
        /\ st' = IF Ended(l) \/ (~DispatchQueued(l) /\ st.ask = 0)
                 THEN IdleStopper
                 ELSE [st EXCEPT !.pc = "append", !.seen = Len(l)]
        /\ UNCHANGED shared

\* Cancels on the log it read: a worker that moved the run on is left to
\* cancel it itself.
CancelRun ==
    LET result == AppendResult(log[st.run], st.seen)
    IN  /\ st.pc = "append"
        /\ log' = [log EXCEPT ![st.run] =
                      AppendEventsAfter(@, st.seen, <<Plain("RunCancelled")>>)]
        /\ st' = IF result = "Appended" /\ st.ask # 0
                 THEN [st EXCEPT !.pc = "wake", !.seen = 0] ELSE IdleStopper
        /\ UNCHANGED <<queue, rows, stops, faults>>

WakeCancelled ==
    /\ st.pc = "wake"
    /\ queue' = Wake(queue, st.run, st.ask)
    /\ st' = IdleStopper
    /\ UNCHANGED <<log, rows, stops, faults>>

\* A call fails and the client is told to ask again, or the server dies.  A
\* failed read of the parked runs goes on with none.
StopFails ==
    /\ st.pc # "idle"
    /\ Fault
    /\ \/ st' = IdleStopper
       \/ st.pc = "parked" /\ st' = [st EXCEPT !.pc = "read"]
    /\ UNCHANGED <<queue, log, rows, stops>>

StopperSteps == ReadParked \/ ReadRun \/ CancelRun \/ WakeCancelled
=============================================================================
