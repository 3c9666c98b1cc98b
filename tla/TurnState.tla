----------------------------- MODULE TurnState ------------------------------
(***************************************************************************)
(* What the writers of coworker turns share: the queue and the store of     *)
(* SharedState, and the host of the Box sandboxes.  A quick turn runs in    *)
(* its request; a subscription turn's model call is the desktop's, which    *)
(* reports its end; a background turn is queued for a worker.               *)
(***************************************************************************)
EXTENDS SharedState

CONSTANTS
    Kind,    \* per run: "gateway", "subscription" or "background"
    Boxes    \* the runs placed in a Box

TurnAssumption == /\ Kind \in [Runs -> {"gateway", "subscription", "background"}]
                  /\ Boxes \subseteq Runs

(***************************************************************************)
(* The host of the Box sandboxes (inference.rs SandboxHost), as the calls   *)
(* of the server find it.  A sandbox is named by its run and the attempt    *)
(* that made it, 0 for a quick turn's; every sandbox of a run mounts the    *)
(* run's one workspace volume, which outlives it.  Each call is one step;   *)
(* its operator gives the answers it may have, [ok, host], and a second one *)
(* the answers of a call that failed, or was cut off by DOCKER_TIMEOUT      *)
(* before or after the daemon did it.                                       *)
(***************************************************************************)
Answer(ok, host) == [ok |-> ok, host |-> host]

EmptyHost == [up |-> {}, volumes |-> {}]

\* box_run_of: the run a name belongs to.
RunOf(n) == n[1]

\* The sandboxes a host lists, and its volumes: a volume is its run's.
List(host) == host.up
ListVolumes(host) == host.volumes

With(host, n) == [up |-> host.up \cup {n}, volumes |-> host.volumes \cup {RunOf(n)}]
Without(host, n) == [host EXCEPT !.up = @ \ {n}]

\* box_attempt_name, box_container_name
Name(r, attempt) == <<r, attempt>>

\* create and start: a name in use is refused.
Provision(host, n) ==
    IF n \in host.up THEN {Answer(FALSE, host)} ELSE {Answer(TRUE, With(host, n))}

\* The create failed, or the start did: its container was then removed, or
\* that failed too.
ProvisionFails(host, n) ==
    {Answer(FALSE, host), Answer(FALSE, Without(With(host, n), n)), Answer(FALSE, With(host, n))}

\* rm -f: the hosts differ on a sandbox that is not there.
Destroy(host, n) ==
    IF n \in host.up THEN {Answer(TRUE, Without(host, n))}
                     ELSE {Answer(TRUE, host), Answer(FALSE, host)}

DestroyFails(host, n) == {Answer(FALSE, host), Answer(FALSE, Without(host, n))}

\* inspect: whether the host confirms n gone.  It may also fail to say.
Absent(host, n) == n \notin host.up

\* volume rm, refused while a sandbox of the run mounts it.
RemoveVolume(host, r) ==
    IF \E n \in host.up : RunOf(n) = r THEN host ELSE [host EXCEPT !.volumes = @ \ {r}]

(***************************************************************************)
(* The state, and the calls on it                                          *)
(***************************************************************************)
VARIABLES
    host,   \* the sandboxes and volumes there are
    late    \* history: the sandboxes made after a worker ending the turn found them gone

\* A call of the host that answers, or fails.
HostCall(answers, failures, a) ==
    \/ a \in answers /\ UNCHANGED faults
    \/ a \in failures /\ Fault

\* absent: a host that cannot say has not confirmed it.
ConfirmsAbsent(n, confirmed) ==
    \/ confirmed = Absent(host, n) /\ UNCHANGED faults
    \/ ~confirmed /\ Fault

Completion == <<Plain("Step"), Plain("RunCompleted")>>
Failure == <<Plain("RunFailed")>>
Cancellation == <<Plain("RunCancelled")>>

\* An append whose answer is lost: it was stored or it was not.
AppendLost(r, seen, events) ==
    \/ UNCHANGED log
    \/ log' = [log EXCEPT ![r] = AppendEventsAfter(@, seen, events)]

EndLost(r, events) == AppendLost(r, Len(log[r]), events)

Up(r) == {n \in host.up : RunOf(n) = r}
=============================================================================
