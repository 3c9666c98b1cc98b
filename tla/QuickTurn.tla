----------------------------- MODULE QuickTurn ------------------------------
(***************************************************************************)
(* Turns run in a request (inference.rs): open_turn, which ends a gateway   *)
(* turn itself, and the two requests by which a desktop ends a turn it      *)
(* asked its own subscription, with or without success.                    *)
(***************************************************************************)
EXTENDS TurnState

CONSTANTS
    Requests,       \* the desktop's requests, each made once
    EarlyRequests   \* whether a run's id may be used before open_turn returns it

VARIABLES
    opener,   \* opener[r]: where open_turn stands
    req,      \* the desktop's requests
    told      \* told[r]: those who were told that they ended r

quickVars == <<opener, req, told>>

IdleRequest == [pc |-> "idle", run |-> NoRun, wants |-> "none"]

QuickInit ==
    /\ opener = [r \in Runs |-> IF Kind[r] = "background" THEN "queue" ELSE "put"]
    /\ req = [q \in Requests |-> IdleRequest]
    /\ told = [r \in Runs |-> {}]

Opens(r, pc) == opener' = [opener EXCEPT ![r] = pc]

\* background_turn: the turn is stored queued and pushed (Producer.tla has the
\* steps); one that cannot be pushed is failed.
BackgroundTurn(r) ==
    /\ opener[r] = "queue"
    /\ \/ /\ log' = [log EXCEPT ![r] = <<Plain("RunQueued")>>]
          /\ queue' = Push(queue, r)
          /\ UNCHANGED faults
       \/ /\ Fault
          /\ log' = [log EXCEPT ![r] = <<Plain("RunQueued")>> \o Failure]
          /\ UNCHANGED queue
    /\ Opens(r, "returned")
    /\ UNCHANGED <<rows, stops, host, late, req, told>>

\* The user's message is stored before anything else is done.
OpenTurn(r) ==
    /\ opener[r] = "put"
    /\ log' = [log EXCEPT ![r] = <<Plain("RunStarted")>>]
    /\ Opens(r, IF r \in Boxes THEN "provision"
                ELSE IF Kind[r] = "gateway" THEN "call" ELSE "returned")
    /\ UNCHANGED <<queue, rows, stops, faults, host, late, req, told>>

\* finish_turn: a Box turn's sandbox.
OpenProvision(r) ==
    /\ opener[r] = "provision"
    /\ \E a \in Provision(host, Name(r, 0)) \cup ProvisionFails(host, Name(r, 0)) :
         /\ HostCall(Provision(host, Name(r, 0)), ProvisionFails(host, Name(r, 0)), a)
         /\ host' = a.host
         /\ Opens(r, IF ~a.ok THEN "absent"
                     ELSE IF Kind[r] = "gateway" THEN "call" ELSE "returned")
    /\ UNCHANGED <<queue, log, rows, stops, late, req, told>>

\* A turn whose sandbox was not made ends only once the host confirms that
\* none is left.
OpenAbsent(r) ==
    /\ opener[r] = "absent"
    /\ \E confirmed \in BOOLEAN :
         /\ ConfirmsAbsent(Name(r, 0), confirmed)
         /\ Opens(r, IF confirmed THEN "fail" ELSE "returned")
    /\ UNCHANGED <<queue, log, rows, stops, host, late, req, told>>

\* The gateway answers or does not; a Box turn then loses its sandbox first.
OpenCall(r) ==
    /\ opener[r] = "call"
    /\ \/ Opens(r, IF r \in Boxes THEN "destroy" ELSE "complete") /\ UNCHANGED faults
       \/ Opens(r, IF r \in Boxes THEN "destroy_failed" ELSE "fail") /\ Fault
    /\ UNCHANGED <<queue, log, rows, stops, host, late, req, told>>

\* Mutant: the end is stored whether the sandbox went or not.
OpenDestroyAnyhow(r) ==
    /\ opener[r] \in {"destroy", "destroy_failed"}
    /\ \E a \in Destroy(host, Name(r, 0)) \cup DestroyFails(host, Name(r, 0)) :
         /\ HostCall(Destroy(host, Name(r, 0)), DestroyFails(host, Name(r, 0)), a)
         /\ host' = a.host
         /\ Opens(r, IF opener[r] = "destroy" THEN "complete" ELSE "fail")
    /\ UNCHANGED <<queue, log, rows, stops, late, req, told>>

\* A sandbox that could not be removed leaves the turn open.
OpenDestroy(r) ==
    /\ opener[r] \in {"destroy", "destroy_failed"}
    /\ \E a \in Destroy(host, Name(r, 0)) \cup DestroyFails(host, Name(r, 0)) :
         /\ HostCall(Destroy(host, Name(r, 0)), DestroyFails(host, Name(r, 0)), a)
         /\ host' = a.host
         /\ Opens(r, IF ~a.ok THEN "returned"
                     ELSE IF opener[r] = "destroy" THEN "complete" ELSE "fail")
    /\ UNCHANGED <<queue, log, rows, stops, late, req, told>>

\* end_failed, record_completion: the turn's end, unless it has one.  A store
\* that cannot answer leaves the turn open.
OpenEnd(r) ==
    /\ opener[r] \in {"complete", "fail"}
    /\ \/ /\ log' = [log EXCEPT ![r] = AppendEvents(@, IF opener[r] = "fail" THEN Failure ELSE Completion)]
          /\ told' = IF log'[r] # log[r] /\ opener[r] = "complete"
                     THEN [told EXCEPT ![r] = @ \cup {[by |-> NoRun, end |-> "RunCompleted"]}] ELSE told
          /\ UNCHANGED faults
       \/ Fault /\ EndLost(r, IF opener[r] = "fail" THEN Failure ELSE Completion) /\ UNCHANGED told
    /\ Opens(r, "returned")
    /\ UNCHANGED <<queue, rows, stops, host, late, req>>

\* The server dies with the request.
OpenerDies(r) ==
    /\ opener[r] \notin {"queue", "put", "returned"}
    /\ Fault
    /\ Opens(r, "returned")
    /\ UNCHANGED <<queue, log, rows, stops, host, late, req, told>>

(***************************************************************************)
(* accept_subscription_completion and fail_turn                            *)
(***************************************************************************)
Asks(q, record) == req' = [req EXCEPT ![q] = record]
Closes(q) == Asks(q, [req[q] EXCEPT !.pc = "done"])

\* check_open_turn
OpenTurnStands(r) == Stored(r) /\ ~Ended(log[r]) /\ Has(log[r], {"RunStarted"})

\* The turn is read and found open, and is the desktop's to end.
RequestEnd(q, r, wants) ==
    /\ req[q].pc = "idle"
    /\ Kind[r] = "subscription" /\ (EarlyRequests \/ opener[r] = "returned")
    /\ OpenTurnStands(r)
    /\ Asks(q, [pc |-> IF r \in Boxes THEN "absent" ELSE "append", run |-> r, wants |-> wants])
    /\ UNCHANGED <<shared, host, late, opener, told>>

\* A completion needs the turn's sandbox to be there; a failure does not.
\* A host that cannot say refuses both.
RequestAbsent(q) ==
    LET n == Name(req[q].run, 0)
    IN  /\ req[q].pc = "absent"
        /\ \/ /\ Asks(q, [req[q] EXCEPT !.pc =
                     IF ~Absent(host, n) THEN "destroy"
                     ELSE IF req[q].wants = "RunFailed" THEN "append" ELSE "done"])
              /\ UNCHANGED faults
           \/ Fault /\ Closes(q)
        /\ UNCHANGED <<queue, log, rows, stops, host, late, opener, told>>

RequestDestroy(q) ==
    LET n == Name(req[q].run, 0)
    IN  /\ req[q].pc = "destroy"
        /\ \E a \in Destroy(host, n) \cup DestroyFails(host, n) :
             /\ HostCall(Destroy(host, n), DestroyFails(host, n), a)
             /\ host' = a.host
             /\ Asks(q, [req[q] EXCEPT !.pc = IF a.ok THEN "append" ELSE "done"])
        /\ UNCHANGED <<queue, log, rows, stops, late, opener, told>>

\* record_completion: refused when another writer ended the turn first.
RequestAppend(q) ==
    LET r == req[q].run
    IN  /\ req[q].pc = "append"
        /\ \/ /\ log' = [log EXCEPT ![r] =
                    AppendEvents(@, IF req[q].wants = "RunFailed" THEN Failure ELSE Completion)]
              /\ told' = IF log'[r] # log[r]
                         THEN [told EXCEPT ![r] = @ \cup {[by |-> q, end |-> req[q].wants]}] ELSE told
              /\ UNCHANGED faults
           \/ Fault /\ EndLost(r, IF req[q].wants = "RunFailed" THEN Failure ELSE Completion) /\ UNCHANGED told
        /\ Closes(q)
        /\ UNCHANGED <<queue, rows, stops, host, late, opener>>

OpenSteps(r) == BackgroundTurn(r) \/ OpenTurn(r) \/ OpenProvision(r) \/ OpenAbsent(r) \/ OpenCall(r)
                \/ OpenDestroy(r) \/ OpenEnd(r)

RequestSteps(q) == RequestAbsent(q) \/ RequestDestroy(q) \/ RequestAppend(q)
=============================================================================
