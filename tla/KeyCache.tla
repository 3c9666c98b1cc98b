------------------------------- MODULE KeyCache -------------------------------
(***************************************************************************)
(* The key set of the OIDC verifier (OidcVerifier::key).  Requests look up *)
(* the key their token names.  A set that is old, or lacks the key, is     *)
(* fetched again from the issuer by one request at a time, which holds a   *)
(* lock that only requests without a key wait for.  The issuer publishes   *)
(* and withdraws keys, and a fetch may fail.                               *)
(*                                                                         *)
(* Time is kept as ages in ticks, each up to the largest age anything      *)
(* compares it with.  Never is the age of what has not happened.           *)
(***************************************************************************)
EXTENDS Integers, FiniteSets

CONSTANTS
    Requests,          \* requests being authenticated
    Kids,              \* key ids
    FirstKeys,         \* the keys the issuer publishes at first
    REFRESH_INTERVAL,  \* ticks between refetches for an unknown kid, or after a failure
    MAX_AGE,           \* ticks a key set is used
    JWKS_TIMEOUT       \* ticks a fetch takes at most

IntervalsAssumption ==
    /\ REFRESH_INTERVAL \in Nat \ {0}
    /\ JWKS_TIMEOUT \in Nat
    /\ MAX_AGE \in Nat /\ MAX_AGE > REFRESH_INTERVAL

VARIABLES
    keys,       \* [set, loaded]: the key set and its age
    fetches,    \* [holder, attempted, error, refreshed]: the lock and what it guards
    req,        \* [Requests -> [pc, kid, stale, found, body]]
    took,       \* ticks the fetch under way has taken
    published,  \* the keys the issuer publishes
    changed,    \* [Kids -> age of the kid's last publication or withdrawal]
    since       \* history: ages of the last failed fetch and unknown-kid refetch

vars == <<keys, fetches, req, took, published, changed, since>>

Never == -1
NoOne == "no one"
Known == MAX_AGE + JWKS_TIMEOUT + 1
Longest == Known
Idle == [pc |-> "idle", kid |-> CHOOSE k \in Kids : TRUE, stale |-> FALSE, found |-> FALSE,
         body |-> {}]
Pcs == {"idle", "try", "wait", "locked", "fetching", "answered", "failed"}

TypeOK ==
    /\ keys \in [set : SUBSET Kids, loaded : Never..MAX_AGE]
    /\ fetches \in [holder : Requests \cup {NoOne}, attempted : Never..REFRESH_INTERVAL,
                    error : BOOLEAN, refreshed : Never..REFRESH_INTERVAL]
    /\ req \in [Requests -> [pc : Pcs, kid : Kids, stale : BOOLEAN, found : BOOLEAN,
                             body : SUBSET Kids]]
    /\ took \in 0..JWKS_TIMEOUT
    /\ published \in SUBSET Kids
    /\ changed \in [Kids -> 0..Longest]
    /\ since \in [failed : Never..REFRESH_INTERVAL, refetch : Never..REFRESH_INTERVAL]

Init ==
    /\ keys = [set |-> {}, loaded |-> Never]
    /\ fetches = [holder |-> NoOne, attempted |-> Never, error |-> FALSE, refreshed |-> Never]
    /\ req = [c \in Requests |-> Idle]
    /\ took = 0
    /\ published = FirstKeys
    /\ changed = [k \in Kids |-> Longest]
    /\ since = [failed |-> Never, refetch |-> Never]

-----------------------------------------------------------------------------

fresh == keys.loaded # Never /\ keys.loaded < MAX_AGE
recent(age) == age # Never /\ age < REFRESH_INTERVAL

\* What a request's lookup of its kid finds.
find(c) == req[c].kid \in keys.set

\* The request leaves with its answer.
Leave(c) == req' = [req EXCEPT ![c] = Idle]

\* The first lookup: a fresh set that has the kid answers at once.
lookup(c, k) ==
    /\ req[c].pc = "idle"
    /\ IF fresh /\ k \in keys.set
       THEN UNCHANGED req
       ELSE req' = [req EXCEPT ![c] = [Idle EXCEPT !.pc = "try", !.kid = k,
                                                   !.stale = k \in keys.set]]
    /\ UNCHANGED <<keys, fetches, took, published, changed, since>>

\* The lock is free, or an old key is used while another request fetches, or
\* the request waits.
try_lock(c) ==
    /\ req[c].pc = "try"
    /\ \/ /\ fetches.holder = NoOne
          /\ fetches' = [fetches EXCEPT !.holder = c]
          /\ req' = [req EXCEPT ![c].pc = "locked"]
       \/ /\ fetches.holder # NoOne
          /\ IF req[c].stale THEN Leave(c) ELSE req' = [req EXCEPT ![c].pc = "wait"]
          /\ UNCHANGED fetches
    /\ UNCHANGED <<keys, took, published, changed, since>>

lock(c) ==
    /\ req[c].pc = "wait"
    /\ fetches.holder = NoOne
    /\ fetches' = [fetches EXCEPT !.holder = c]
    /\ req' = [req EXCEPT ![c].pc = "locked"]
    /\ UNCHANGED <<keys, took, published, changed, since>>

failing == fetches.error /\ recent(fetches.attempted)

\* Whether a fetch is due.
due(c) ==
    CASE keys.loaded = Never            -> ~failing
      [] keys.loaded # Never /\ find(c) -> ~recent(fetches.attempted)
      [] OTHER                          -> ~failing /\ ~recent(fetches.refreshed)

\* What a request that holds the lock and does not fetch is told.
NotDue(c) ==
    CASE find(c)             -> "key"
      [] ~find(c) /\ failing -> "unavailable"
      [] OTHER               -> "unauthorized"

\* Bug: a kid that is refused starts the interval again.
SettledSliding(c) ==
    /\ req[c].pc = "locked"
    /\ (fresh /\ find(c)) \/ ~due(c)
    /\ Leave(c)
    /\ fetches' = [fetches EXCEPT !.holder = NoOne,
                                  !.refreshed = IF find(c) THEN @ ELSE 0]
    /\ UNCHANGED <<keys, took, published, changed, since>>

\* With the lock: another request may have fetched meanwhile, or none is due.
Settled(c) ==
    /\ req[c].pc = "locked"
    /\ (fresh /\ find(c)) \/ ~due(c)
    /\ Leave(c)
    /\ fetches' = [fetches EXCEPT !.holder = NoOne]
    /\ UNCHANGED <<keys, took, published, changed, since>>

\* With the lock: the fetch begins.
FetchBegin(c) ==
    /\ req[c].pc = "locked"
    /\ ~(fresh /\ find(c)) /\ due(c)
    /\ req' = [req EXCEPT ![c].pc = "fetching", ![c].found = find(c)]
    /\ fetches' = [fetches EXCEPT !.attempted = 0,
                                  !.refreshed = IF keys.loaded # Never /\ ~find(c) THEN 0 ELSE @]
    /\ took' = 0
    /\ UNCHANGED <<keys, published, changed, since>>

\* The issuer's answer, which reaches the server some time later, or none.
fetch(c) ==
    /\ req[c].pc = "fetching"
    /\ \/ req' = [req EXCEPT ![c].pc = "answered", ![c].body = published]
       \/ req' = [req EXCEPT ![c].pc = "failed"]
    /\ UNCHANGED <<keys, fetches, took, published, changed, since>>

Refetch(c) == keys.loaded # Never /\ ~req[c].found

\* The fetch is over.  The intervals run from now.  A set replaces the old one;
\* a failure keeps it.
Loaded(c) ==
    /\ req[c].pc \in {"answered", "failed"}
    /\ fetches' = [attempted |-> 0, error |-> req[c].pc = "failed", holder |-> NoOne,
                   refreshed |-> IF Refetch(c) THEN 0 ELSE fetches.refreshed]
    /\ keys' = IF req[c].pc = "answered" THEN [set |-> req[c].body, loaded |-> 0] ELSE keys
    /\ since' = [failed  |-> IF req[c].pc = "failed" THEN 0 ELSE since.failed,
                 refetch |-> IF Refetch(c) THEN 0 ELSE since.refetch]
    /\ Leave(c)
    /\ UNCHANGED <<took, published, changed>>

-----------------------------------------------------------------------------
(* The issuer and time. *)

Publish(k) ==
    /\ k \notin published
    /\ published' = published \cup {k}
    /\ changed' = [changed EXCEPT ![k] = 0]
    /\ UNCHANGED <<keys, fetches, req, took, since>>

Withdraw(k) ==
    /\ k \in published
    /\ published' = published \ {k}
    /\ changed' = [changed EXCEPT ![k] = 0]
    /\ UNCHANGED <<keys, fetches, req, took, since>>

Older(age, most) == IF age = Never \/ age = most THEN age ELSE age + 1
Fetching == \E c \in Requests : req[c].pc \in {"fetching", "answered", "failed"}

Tick ==
    /\ Fetching => took < JWKS_TIMEOUT
    /\ took' = IF Fetching THEN took + 1 ELSE 0
    /\ keys' = [keys EXCEPT !.loaded = Older(@, MAX_AGE)]
    /\ fetches' = [fetches EXCEPT !.attempted = Older(@, REFRESH_INTERVAL),
                                  !.refreshed = Older(@, REFRESH_INTERVAL)]
    /\ changed' = [k \in Kids |-> Older(changed[k], Longest)]
    /\ since' = [failed  |-> Older(since.failed, REFRESH_INTERVAL),
                 refetch |-> Older(since.refetch, REFRESH_INTERVAL)]
    /\ UNCHANGED <<req, published>>

Next ==
    \/ \E c \in Requests :
        \/ \E k \in Kids : lookup(c, k)
        \/ try_lock(c) \/ lock(c) \/ Settled(c) \/ FetchBegin(c) \/ fetch(c) \/ Loaded(c)
    \/ \E k \in Kids : Publish(k) \/ Withdraw(k)
    \/ Tick

Spec == Init /\ [][Next]_vars

-----------------------------------------------------------------------------
(* Properties. *)

\* A request that is about to be refused as unauthorized does not name a key
\* the issuer has published for longer than one interval and one fetch,
\* whatever other requests asked for, and also after failed fetches and right
\* after the first load: a rotated key is found (due, and the answer when no
\* fetch is due; for a fetch, the answer it brought).
RotatedKeyIsFound ==
    \A c \in Requests :
        /\ \/ req[c].pc = "locked" /\ ~due(c) /\ NotDue(c) = "unauthorized"
           \/ req[c].pc = "answered" /\ req[c].kid \notin req[c].body
        /\ req[c].kid \in published
        => changed[req[c].kid] <= REFRESH_INTERVAL + JWKS_TIMEOUT

\* A key withdrawn for longer than a set is used and a fetch takes is no longer
\* accepted by a lookup, and by a request that holds the lock and does not
\* fetch only when the last fetch failed.  (While another request fetches, a
\* request that saw the old key still uses it.)
WithdrawnKeyLapses ==
    \A k \in keys.set \ published :
        changed[k] >= Known =>
            /\ ~fresh
            /\ \A c \in Requests :
                   req[c].kid = k /\ req[c].pc = "locked" /\ ~due(c) => fetches.error

\* A step: the issuer is not asked again within an interval of the end of a failed
\* fetch, nor for unknown kids within an interval of the end of the last such
\* refetch, however many requests ask and however long the fetch took.
SparesIssuer ==
    \A c \in Requests :
        req[c].pc = "locked" /\ req'[c].pc = "fetching" =>
            /\ since.failed = Never \/ since.failed >= REFRESH_INTERVAL \/ ~fetches.error
            /\ ~find(c) /\ keys.loaded # Never =>
                    since.refetch = Never \/ since.refetch >= REFRESH_INTERVAL

=============================================================================
