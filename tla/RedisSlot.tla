------------------------------- MODULE RedisSlot -------------------------------
(***************************************************************************)
(* The connections of the run queue (RedisRunQueue::with_connection).      *)
(* Callers share idle connections.  A caller without one connects, outside *)
(* the lock.  After a failed connect the others fail at once for a while,  *)
(* and then one of them tries again for all.                               *)
(*                                                                         *)
(* Time is kept as ages: of the last failed connect, and of each connect   *)
(* under way, which ends within REDIS_TIMEOUT.                             *)
(***************************************************************************)
EXTENDS Integers, FiniteSets

CONSTANTS
    Callers,           \* threads that call Redis
    REDIS_TIMEOUT,     \* ticks a connect may take, and callers fail at once after one
    IDLE_CONNECTIONS   \* connections kept

VARIABLES
    slot,     \* [idle, failed, probing]: failed is the age of the failure, or Never
    caller,   \* [Callers -> [pc, probe, age]]
    up        \* whether Redis answers

vars == <<slot, caller, up>>

Never == -1
Out == [pc |-> "out", probe |-> FALSE, age |-> 0]

TypeOK ==
    /\ slot \in [idle : 0..IDLE_CONNECTIONS, failed : Never..REDIS_TIMEOUT, probing : BOOLEAN]
    /\ caller \in [Callers -> [pc : {"out", "connecting", "working"}, probe : BOOLEAN,
                               age : 0..REDIS_TIMEOUT]]
    /\ up \in BOOLEAN

Init ==
    /\ slot = [idle |-> 0, failed |-> Never, probing |-> FALSE]
    /\ caller = [c \in Callers |-> Out]
    /\ up = TRUE

\* Bug: a caller that tries again does not say so.
takeUnmarked(c) ==
    /\ caller[c].pc = "out"
    /\ IF slot.idle > 0
       THEN /\ slot' = [slot EXCEPT !.idle = @ - 1]
            /\ caller' = [caller EXCEPT ![c].pc = "working"]
       ELSE /\ slot.failed = Never \/ slot.failed >= REDIS_TIMEOUT
            /\ caller' = [caller EXCEPT ![c] = [pc |-> "connecting",
                                                probe |-> slot.failed # Never, age |-> 0]]
            /\ UNCHANGED slot
    /\ UNCHANGED up

\* An idle connection, or the turn to make one.  A caller that is refused at
\* once leaves everything as it is.
take(c) ==
    /\ caller[c].pc = "out"
    /\ IF slot.idle > 0
       THEN /\ slot' = [slot EXCEPT !.idle = @ - 1]
            /\ caller' = [caller EXCEPT ![c].pc = "working"]
       ELSE /\ ~slot.probing
            /\ slot.failed = Never \/ slot.failed >= REDIS_TIMEOUT
            /\ slot' = [slot EXCEPT !.probing = slot.failed # Never]
            /\ caller' = [caller EXCEPT ![c] = [pc |-> "connecting",
                                                probe |-> slot.failed # Never, age |-> 0]]
    /\ UNCHANGED up

\* Bug: a connect that fails leaves the mark of the one that tries again.
connectedMarked(c) ==
    /\ caller[c].pc = "connecting"
    /\ \/ /\ up
          /\ slot' = [slot EXCEPT !.failed = Never, !.probing = FALSE]
          /\ caller' = [caller EXCEPT ![c] = [Out EXCEPT !.pc = "working"]]
       \/ /\ slot' = [slot EXCEPT !.failed = 0]
          /\ caller' = [caller EXCEPT ![c] = Out]
    /\ UNCHANGED up

\* The connect ends: well, while Redis answers, or badly (a connect may also
\* fail for reasons of this process).
connected(c) ==
    /\ caller[c].pc = "connecting"
    /\ \/ /\ up
          /\ slot' = [slot EXCEPT !.failed = Never, !.probing = FALSE]
          /\ caller' = [caller EXCEPT ![c] = [Out EXCEPT !.pc = "working"]]
       \/ /\ slot' = [slot EXCEPT !.failed = 0, !.probing = FALSE]
          /\ caller' = [caller EXCEPT ![c] = Out]
    /\ UNCHANGED up

\* The command ends.  A connection that worked goes back, up to the limit; one
\* that erred is dropped.
worked(c) ==
    /\ caller[c].pc = "working"
    /\ \/ /\ up
          /\ slot' = [slot EXCEPT !.failed = Never,
                                  !.idle = IF @ < IDLE_CONNECTIONS THEN @ + 1 ELSE @]
       \/ UNCHANGED slot
    /\ caller' = [caller EXCEPT ![c] = Out]
    /\ UNCHANGED up

\* Time passes, unless a connect has had all of its time.
Older(age) == IF age = Never \/ age = REDIS_TIMEOUT THEN age ELSE age + 1
Tick ==
    /\ \A c \in Callers : caller[c].pc = "connecting" => caller[c].age < REDIS_TIMEOUT
    /\ slot' = [slot EXCEPT !.failed = Older(@)]
    /\ caller' = [c \in Callers |->
                    IF caller[c].pc = "connecting" THEN [caller[c] EXCEPT !.age = @ + 1]
                    ELSE caller[c]]
    /\ UNCHANGED up

\* Redis goes away and comes back.
Redis == up' = ~up /\ UNCHANGED <<slot, caller>>

Next ==
    \/ \E c \in Callers : take(c) \/ connected(c) \/ worked(c)
    \/ Tick
    \/ Redis

Spec == Init /\ [][Next]_vars

\* The queue is called again and again (the workers' loops), every call ends
\* by its timeout, and a Redis that answers lets a connect or a command
\* that is tried again and again work in the end.
FairSpec ==
    /\ Spec
    /\ WF_vars(Tick)
    /\ \A c \in Callers : WF_vars(take(c) \/ connected(c) \/ worked(c))
    /\ SF_vars(\E c \in Callers : connected(c) /\ caller'[c].pc = "working")

-----------------------------------------------------------------------------

\* A Redis that is down costs one wait, not one per caller: of the connects
\* that callers began after a failure, no two began within one timeout of
\* each other and are both under way, although connects from before the
\* failure end in between and clear the mark (with_connection).
OneWaitPerTimeout ==
    \A c, d \in Callers :
        /\ c # d
        /\ caller[c].pc = "connecting" /\ caller[c].probe
        /\ caller[d].pc = "connecting" /\ caller[d].probe
        => \/ caller[c].age - caller[d].age >= REDIS_TIMEOUT
           \/ caller[d].age - caller[c].age >= REDIS_TIMEOUT
=============================================================================
