--------------------------- MODULE ServicesProofs ---------------------------
(***************************************************************************)
(* The two parts of the server that live by timeouts, the connections of   *)
(* the run queue (RedisSlot) and the key set of the OIDC verifier          *)
(* (KeyCache), and the threads with their boards and their listing         *)
(* (Threads).  Their safety properties hold for every interval and         *)
(* timeout, and for every number of callers, requests, runs and threads.   *)
(***************************************************************************)
EXTENDS KeyCache, FiniteSetTheorems, SequenceTheorems, TLAPS

CONSTANTS Callers, REDIS_TIMEOUT, IDLE_CONNECTIONS
VARIABLES slot, caller, up
Slot == INSTANCE RedisSlot

CONSTANTS Runs, ThreadIds, Sessions, MaxTime, Writers, MaxQuestions, MaxMessages, PageSize,
          MaxWalks
VARIABLES now, run, order, question, questions, message, messages, answers, walk, walks
Board == INSTANCE Threads

SlotConstants == REDIS_TIMEOUT \in Nat /\ IDLE_CONNECTIONS \in Nat

(***************************************************************************)
(* The connections                                                         *)
(***************************************************************************)
Probing(c) == caller[c].pc = "connecting" /\ caller[c].probe

\* Why the next caller that tries again finds the others out of time: while one
\* of them is under way the mark is set, or the failure is gone, or no older than
\* the connect.
FailedSince ==
    \A c \in Callers :
        Probing(c) => slot.probing \/ slot.failed = Slot!Never \/ slot.failed <= caller[c].age

OneWait ==
    \A c, d \in Callers :
        c # d /\ Probing(c) /\ Probing(d) =>
            \/ caller[c].age - caller[d].age >= REDIS_TIMEOUT
            \/ caller[d].age - caller[c].age >= REDIS_TIMEOUT

SlotInv == Slot!TypeOK /\ FailedSince /\ OneWait

SlotType == [idle : 0..IDLE_CONNECTIONS, failed : -1..REDIS_TIMEOUT, probing : BOOLEAN]
CallerType == [pc : {"out", "connecting", "working"}, probe : BOOLEAN, age : 0..REDIS_TIMEOUT]

LEMMA SlotTypes ==
    Slot!TypeOK <=> slot \in SlotType /\ caller \in [Callers -> CallerType] /\ up \in BOOLEAN
BY DEF Slot!TypeOK, Slot!Never, SlotType, CallerType

LEMMA SlotFields ==
    ASSUME SlotConstants, Slot!TypeOK
    PROVE  /\ slot.idle \in 0..IDLE_CONNECTIONS /\ slot.probing \in BOOLEAN
           /\ slot.failed \in Int /\ slot.failed >= -1 /\ slot.failed <= REDIS_TIMEOUT
           /\ \A c \in Callers : /\ caller[c].pc \in {"out", "connecting", "working"}
                                 /\ caller[c].probe \in BOOLEAN
                                 /\ caller[c].age \in Nat /\ caller[c].age <= REDIS_TIMEOUT
BY SlotTypes DEF SlotType, CallerType, SlotConstants

\* What the slot and a caller may become.
LEMMA SlotBecomes ==
    ASSUME NEW s \in SlotType, NEW f \in -1..REDIS_TIMEOUT, NEW i \in 0..IDLE_CONNECTIONS,
           NEW p \in BOOLEAN
    PROVE  /\ [s EXCEPT !.idle = i] \in SlotType
           /\ [s EXCEPT !.probing = p] \in SlotType
           /\ [s EXCEPT !.failed = f] \in SlotType
           /\ [s EXCEPT !.failed = f, !.probing = p] \in SlotType
           /\ [s EXCEPT !.failed = f, !.idle = i] \in SlotType
BY DEF SlotType

LEMMA CallerBecomes ==
    ASSUME NEW a \in CallerType, NEW n \in 0..REDIS_TIMEOUT, NEW p \in BOOLEAN
    PROVE  /\ [a EXCEPT !.pc = "working"] \in CallerType
           /\ [a EXCEPT !.age = n] \in CallerType
           /\ [pc |-> "connecting", probe |-> p, age |-> n] \in CallerType
           /\ [pc |-> "out", probe |-> p, age |-> n] \in CallerType
BY DEF CallerType

LEMMA SlotTyped ==
    ASSUME SlotConstants, Slot!TypeOK, [Slot!Next]_(Slot!vars)
    PROVE  Slot!TypeOK'
<1>a. /\ slot.idle \in 0..IDLE_CONNECTIONS /\ slot.probing \in BOOLEAN
      /\ REDIS_TIMEOUT \in Nat /\ IDLE_CONNECTIONS \in Nat
      /\ slot.failed \in Int /\ slot.failed >= -1 /\ slot.failed <= REDIS_TIMEOUT
      /\ \A c \in Callers : caller[c].age \in Nat /\ caller[c].age <= REDIS_TIMEOUT
  BY SlotFields DEF SlotConstants
<1>b. slot \in SlotType /\ caller \in [Callers -> CallerType] /\ up \in BOOLEAN
  BY SlotTypes
<1>c. 0 \in 0..REDIS_TIMEOUT /\ 0 \in -1..REDIS_TIMEOUT /\ -1 \in -1..REDIS_TIMEOUT
  BY <1>a
<1>d. Slot!Out \in CallerType /\ [Slot!Out EXCEPT !.pc = "working"] \in CallerType
  BY <1>c DEF Slot!Out, CallerType
<1> SUFFICES slot' \in SlotType /\ caller' \in [Callers -> CallerType] /\ up' \in BOOLEAN
  BY SlotTypes DEF SlotType, CallerType, Slot!TypeOK, Slot!Never
<1>1. ASSUME NEW c \in Callers, Slot!take(c)
      PROVE  slot' \in SlotType /\ caller' \in [Callers -> CallerType] /\ up' \in BOOLEAN
  <2>1. CASE slot.idle > 0
    <3> DEFINE less == slot.idle - 1
               working == [caller[c] EXCEPT !.pc = "working"]
    <3>1. less \in 0..IDLE_CONNECTIONS
      BY <1>a, <2>1
    <3>2. working \in CallerType
      BY <1>b, <1>c, CallerBecomes
    <3>3. slot' = [slot EXCEPT !.idle = less] /\ caller' = [caller EXCEPT ![c] = working]
      BY <1>1, <2>1, Zenon DEF Slot!take
    <3>4. up' = up
      BY <1>1 DEF Slot!take
    <3> HIDE DEF less, working
    <3> QED BY <1>b, <1>c, <3>1, <3>2, <3>3, <3>4, SlotBecomes
  <2>2. CASE ~(slot.idle > 0)
    <3> DEFINE failed == slot.failed # Slot!Never
               connecting == [pc |-> "connecting", probe |-> failed, age |-> 0]
    <3>1. failed \in BOOLEAN
      OBVIOUS
    <3>2. slot' = [slot EXCEPT !.probing = failed] /\ caller' = [caller EXCEPT ![c] = connecting]
      BY <1>1, <2>2, Zenon DEF Slot!take
    <3>3. up' = up
      BY <1>1 DEF Slot!take
    <3> HIDE DEF failed
    <3>4. connecting \in CallerType
      BY <1>c, <3>1 DEF CallerType
    <3>5. slot' \in SlotType
      BY <1>a, <1>b, <1>c, <3>1, <3>2, SlotBecomes
    <3> HIDE DEF connecting
    <3> QED BY <1>b, <3>2, <3>3, <3>4, <3>5
  <2> QED BY <2>1, <2>2
<1>2. ASSUME NEW c \in Callers, Slot!connected(c)
      PROVE  slot' \in SlotType /\ caller' \in [Callers -> CallerType] /\ up' \in BOOLEAN
  <2>1. /\ \/ slot' = [slot EXCEPT !.failed = -1, !.probing = FALSE]
           \/ slot' = [slot EXCEPT !.failed = 0, !.probing = FALSE]
        /\ \/ caller' = [caller EXCEPT ![c] = [Slot!Out EXCEPT !.pc = "working"]]
           \/ caller' = [caller EXCEPT ![c] = Slot!Out]
        /\ UNCHANGED up
    BY <1>2, Zenon DEF Slot!connected, Slot!Never
  <2>2. slot' \in SlotType
    BY <1>a, <1>b, <1>c, <2>1, SlotBecomes
  <2>3. caller' \in [Callers -> CallerType]
    BY <1>b, <1>d, <2>1
  <2> QED BY <1>b, <2>1, <2>2, <2>3
<1>3. ASSUME NEW c \in Callers, Slot!worked(c)
      PROVE  slot' \in SlotType /\ caller' \in [Callers -> CallerType] /\ up' \in BOOLEAN
  <2> DEFINE idle == IF slot.idle < IDLE_CONNECTIONS THEN slot.idle + 1 ELSE slot.idle
  <2>1. idle \in 0..IDLE_CONNECTIONS
    BY <1>a
  <2>2. \/ slot' = [slot EXCEPT !.failed = -1, !.idle = idle]
        \/ slot' = slot
    BY <1>3, Zenon DEF Slot!worked, Slot!Never
  <2>3. caller' = [caller EXCEPT ![c] = Slot!Out] /\ UNCHANGED up
    BY <1>3 DEF Slot!worked
  <2> HIDE DEF idle
  <2>4. slot' \in SlotType
    <3>1. [slot EXCEPT !.failed = -1, !.idle = idle] \in SlotType
      BY <1>b, <1>c, <2>1 DEF SlotType
    <3> QED BY <1>b, <2>2, <3>1
  <2> QED BY <1>b, <1>d, <2>3, <2>4
<1>4. ASSUME Slot!Tick
      PROVE  slot' \in SlotType /\ caller' \in [Callers -> CallerType] /\ up' \in BOOLEAN
  <2> DEFINE older == Slot!Older(slot.failed)
  <2>1. older \in -1..REDIS_TIMEOUT
    BY <1>a DEF Slot!Older, Slot!Never
  <2>2. slot' = [slot EXCEPT !.failed = older] /\ up' = up
    BY <1>4, Zenon DEF Slot!Tick
  <2> HIDE DEF older
  <2>3. slot' \in SlotType
    BY <1>a, <1>b, <1>c, <2>1, <2>2, SlotBecomes
  <2>4. ASSUME NEW c \in Callers
        PROVE  (IF caller[c].pc = "connecting" THEN [caller[c] EXCEPT !.age = @ + 1]
                ELSE caller[c]) \in CallerType
    <3>1. CASE caller[c].pc = "connecting"
      <4> DEFINE age == caller[c].age + 1
      <4>1. caller[c].age < REDIS_TIMEOUT
        BY <1>4, <3>1 DEF Slot!Tick
      <4>2. age \in 0..REDIS_TIMEOUT
        BY <1>a, <4>1
      <4> HIDE DEF age
      <4>3. [caller[c] EXCEPT !.age = age] \in CallerType
        BY <1>b, <4>2, CallerBecomes
      <4> QED BY <3>1, <4>3, Zenon DEF age
    <3> QED BY <1>b, <3>1
  <2>5. caller' \in [Callers -> CallerType]
    BY <1>4, <2>4 DEF Slot!Tick
  <2> QED BY <1>b, <2>2, <2>3, <2>5
<1>5. ASSUME Slot!Redis \/ UNCHANGED Slot!vars
      PROVE  slot' \in SlotType /\ caller' \in [Callers -> CallerType] /\ up' \in BOOLEAN
  BY <1>5, <1>b DEF Slot!Redis, Slot!vars
<1> QED BY <1>1, <1>2, <1>3, <1>4, <1>5 DEF Slot!Next

LEMMA SlotNext ==
    ASSUME SlotConstants, SlotInv, [Slot!Next]_(Slot!vars)
    PROVE  FailedSince' /\ OneWait'
<1>0. Slot!TypeOK /\ FailedSince /\ OneWait /\ Slot!TypeOK' /\ REDIS_TIMEOUT \in Nat
  BY SlotTyped DEF SlotInv, SlotConstants
<1>a. /\ slot.failed \in Int /\ slot.failed >= -1 /\ slot.failed <= REDIS_TIMEOUT
      /\ \A c \in Callers : caller[c].age \in Nat /\ caller[c].age <= REDIS_TIMEOUT
  BY <1>0, SlotFields
<1>1. ASSUME NEW c \in Callers, Slot!take(c) PROVE FailedSince' /\ OneWait'
  <2>1. CASE slot.idle > 0
    <3>1. \A d \in Callers : Probing(d)' => Probing(d) /\ caller'[d] = caller[d]
      BY <1>0, <1>1, <2>1 DEF Slot!take, Slot!TypeOK, Probing
    <3>2. slot'.probing = slot.probing /\ slot'.failed = slot.failed
      BY <1>0, <1>1, <2>1 DEF Slot!take, Slot!TypeOK
    <3> QED BY <1>0, <3>1, <3>2 DEF FailedSince, OneWait
  <2>2. CASE ~(slot.idle > 0)
    <3>1. /\ ~slot.probing
          /\ slot.failed = Slot!Never \/ slot.failed >= REDIS_TIMEOUT
          /\ slot' = [slot EXCEPT !.probing = slot.failed # Slot!Never]
          /\ caller' = [caller EXCEPT ![c] = [pc |-> "connecting",
                                              probe |-> slot.failed # Slot!Never, age |-> 0]]
      BY <1>1, <2>2 DEF Slot!take
    <3>2. slot'.failed = slot.failed /\ slot'.probing = (slot.failed # Slot!Never)
      BY <1>0, <3>1 DEF Slot!TypeOK
    <3>3. /\ \A d \in Callers : d # c => caller'[d] = caller[d]
          /\ caller'[c].age = 0 /\ caller'[c].probe = (slot.failed # Slot!Never)
      BY <1>0, <3>1 DEF Slot!TypeOK
    <3>4. FailedSince'
      BY <3>2 DEF FailedSince
    <3>5. ASSUME NEW d \in Callers, d # c, Probing(d), slot.failed # Slot!Never
          PROVE  caller[d].age - 0 >= REDIS_TIMEOUT
      BY <1>0, <1>a, <3>1, <3>5 DEF FailedSince
    <3>6. \A d \in Callers : d # c => (Probing(d)' <=> Probing(d))
      BY <3>3 DEF Probing
    <3>7. Probing(c)' => slot.failed # Slot!Never
      BY <3>3 DEF Probing
    <3>8. ASSUME NEW d \in Callers, NEW e \in Callers, d # e, Probing(d)', Probing(e)'
          PROVE  \/ caller'[d].age - caller'[e].age >= REDIS_TIMEOUT
                 \/ caller'[e].age - caller'[d].age >= REDIS_TIMEOUT
      <4>1. CASE d = c
        BY <3>3, <3>5, <3>6, <3>7, <3>8, <4>1
      <4>2. CASE e = c
        BY <3>3, <3>5, <3>6, <3>7, <3>8, <4>2
      <4>3. CASE d # c /\ e # c
        BY <1>0, <3>3, <3>6, <3>8, <4>3 DEF OneWait
      <4> QED BY <4>1, <4>2, <4>3
    <3> QED BY <3>4, <3>8 DEF OneWait
  <2> QED BY <2>1, <2>2
<1>2. ASSUME NEW c \in Callers, Slot!connected(c) \/ Slot!worked(c) PROVE FailedSince' /\ OneWait'
  <2>1. \A d \in Callers : Probing(d)' => Probing(d) /\ caller'[d] = caller[d]
    BY <1>0, <1>2 DEF Slot!connected, Slot!worked, Slot!TypeOK, Slot!Out, Probing
  <2>2. \/ slot'.failed = Slot!Never
        \/ slot'.failed = 0
        \/ slot'.failed = slot.failed /\ slot'.probing = slot.probing
    <3>1. CASE Slot!connected(c)
      BY <1>0, <3>1 DEF Slot!connected, Slot!TypeOK
    <3>2. CASE Slot!worked(c)
      BY <1>0, <3>2 DEF Slot!worked, Slot!TypeOK
    <3> QED BY <1>2, <3>1, <3>2
  <2>3. OneWait'
    BY <1>0, <2>1 DEF OneWait
  <2>4. FailedSince'
    BY <1>0, <1>a, <2>1, <2>2 DEF FailedSince
  <2> QED BY <2>3, <2>4
<1>3. ASSUME Slot!Tick PROVE FailedSince' /\ OneWait'
  <2>1. slot'.probing = slot.probing /\ slot'.failed = Slot!Older(slot.failed)
    BY <1>0, <1>3 DEF Slot!Tick, Slot!TypeOK
  <2>2. ASSUME NEW d \in Callers, Probing(d)'
        PROVE  Probing(d) /\ caller'[d].age = caller[d].age + 1
    <3>1. caller'[d] = IF caller[d].pc = "connecting" THEN [caller[d] EXCEPT !.age = @ + 1]
                       ELSE caller[d]
      BY <1>3 DEF Slot!Tick
    <3>2. caller[d] \in [pc : {"out", "connecting", "working"}, probe : BOOLEAN,
                         age : 0..REDIS_TIMEOUT]
      BY <1>0 DEF Slot!TypeOK
    <3> QED BY <2>2, <3>1, <3>2 DEF Probing
  <2>3. OneWait'
    BY <1>0, <1>a, <2>2 DEF OneWait
  <2>4. FailedSince'
    BY <1>0, <1>a, <2>1, <2>2 DEF FailedSince, Slot!Older, Slot!Never
  <2> QED BY <2>3, <2>4
<1>4. ASSUME Slot!Redis \/ UNCHANGED Slot!vars PROVE FailedSince' /\ OneWait'
  <2>1. slot' = slot /\ caller' = caller
    BY <1>4 DEF Slot!Redis, Slot!vars
  <2> QED BY <1>0, <2>1 DEF FailedSince, OneWait, Probing
<1> QED BY <1>1, <1>2, <1>3, <1>4 DEF Slot!Next

\* with_connection: however many threads call Redis, and whenever connects
\* from before a failure end, no two of those that try again began within one
\* timeout of each other.
THEOREM OneWaitPerOutage == SlotConstants => (Slot!Spec => []Slot!OneWaitPerTimeout)
<1> SUFFICES ASSUME SlotConstants PROVE Slot!Spec => []Slot!OneWaitPerTimeout
  OBVIOUS
<1>1. Slot!Init => SlotInv
  <2> SUFFICES ASSUME Slot!Init PROVE SlotInv
    OBVIOUS
  <2>1. Slot!TypeOK
    BY DEF SlotConstants, Slot!Init, Slot!TypeOK, Slot!Out, Slot!Never
  <2>2. \A c \in Callers : ~Probing(c)
    BY DEF Slot!Init, Slot!Out, Probing
  <2> QED BY <2>1, <2>2 DEF SlotInv, FailedSince, OneWait
<1>2. SlotInv /\ [Slot!Next]_(Slot!vars) => SlotInv'
  BY SlotTyped, SlotNext DEF SlotInv
<1>3. SlotInv => Slot!OneWaitPerTimeout
  BY DEF SlotInv, OneWait, Slot!OneWaitPerTimeout, Probing
<1> QED BY <1>1, <1>2, <1>3, PTL DEF Slot!Spec

(***************************************************************************)
(* The key set                                                             *)
(***************************************************************************)
\* The intervals are ordered; a request has a name of its own; the issuer's
\* keys are keys, of which there are some.
KeyConstants ==
    /\ IntervalsAssumption
    /\ NoOne \notin Requests
    /\ FirstKeys \subseteq Kids /\ Kids # {}

Held(c) == req[c].pc \in {"locked", "fetching", "answered", "failed"}
UnderWay(c) == req[c].pc \in {"fetching", "answered", "failed"}
Differ(a, b) == (a \ b) \cup (b \ a)

\* One request holds the lock: the one that is past it and before its end.
LockHeld == \A c \in Requests : Held(c) <=> fetches.holder = c

\* What is used differs from what the issuer publishes by what changed since
\* the fetch began; so does the answer of a fetch under way.
SetFollows ==
    /\ keys.loaded = Never => keys.set = {}
    /\ keys.loaded # Never /\ keys.loaded < MAX_AGE =>
           \A k \in Differ(keys.set, published) : changed[k] <= keys.loaded + JWKS_TIMEOUT
BodyFollows ==
    \A c \in Requests : req[c].pc = "answered" =>
        \A k \in Differ(req[c].body, published) : changed[k] <= took

\* A refetch for an unknown kid is an attempt.
RefetchAttempted ==
    fetches.refreshed # Never =>
        fetches.attempted # Never /\ fetches.attempted <= fetches.refreshed

\* Between fetches the last attempt is what loaded the set, or what failed.
AttemptSettled ==
    ~Fetching =>
        /\ keys.loaded # Never /\ ~fetches.error =>
               \/ fetches.attempted = keys.loaded
               \/ fetches.attempted = REFRESH_INTERVAL /\ keys.loaded >= REFRESH_INTERVAL
        /\ fetches.error => fetches.attempted = since.failed

\* The interval of unknown kids runs from the end of the last such refetch, but
\* for the one under way.
RefetchCounted ==
    \/ fetches.refreshed = since.refetch
    \/ \E c \in Requests : UnderWay(c) /\ Refetch(c)

KeyParts ==
    LockHeld /\ SetFollows /\ BodyFollows /\ RefetchAttempted /\ AttemptSettled /\ RefetchCounted

ReqType == [pc : Pcs, kid : Kids, stale : BOOLEAN, found : BOOLEAN, body : SUBSET Kids]

LEMMA KeyFields ==
    ASSUME KeyConstants, TypeOK
    PROVE  /\ keys.set \in SUBSET Kids
           /\ keys.loaded \in Int /\ keys.loaded >= -1 /\ keys.loaded <= MAX_AGE
           /\ fetches.holder \in Requests \cup {NoOne} /\ fetches.error \in BOOLEAN
           /\ fetches.attempted \in Int /\ fetches.attempted >= -1
           /\ fetches.attempted <= REFRESH_INTERVAL
           /\ fetches.refreshed \in Int /\ fetches.refreshed >= -1
           /\ fetches.refreshed <= REFRESH_INTERVAL
           /\ since.failed \in Int /\ since.failed >= -1 /\ since.failed <= REFRESH_INTERVAL
           /\ since.refetch \in Int /\ since.refetch >= -1 /\ since.refetch <= REFRESH_INTERVAL
           /\ \A k \in Kids : changed[k] \in Nat /\ changed[k] <= Longest
           /\ took \in Nat /\ took <= JWKS_TIMEOUT /\ published \in SUBSET Kids
           /\ MAX_AGE \in Nat /\ JWKS_TIMEOUT \in Nat
           /\ REFRESH_INTERVAL \in Nat /\ REFRESH_INTERVAL > 0 /\ MAX_AGE > REFRESH_INTERVAL
           /\ Longest \in Nat /\ Longest = MAX_AGE + JWKS_TIMEOUT + 1
           /\ req \in [Requests -> ReqType]
<1>1. keys \in [set : SUBSET Kids, loaded : -1..MAX_AGE]
  BY DEF TypeOK, Never
<1>2. fetches \in [holder : Requests \cup {NoOne}, attempted : -1..REFRESH_INTERVAL,
                   error : BOOLEAN, refreshed : -1..REFRESH_INTERVAL]
  BY DEF TypeOK, Never
<1>3. since \in [failed : -1..REFRESH_INTERVAL, refetch : -1..REFRESH_INTERVAL]
  BY DEF TypeOK, Never
<1>4. /\ MAX_AGE \in Nat /\ JWKS_TIMEOUT \in Nat
      /\ REFRESH_INTERVAL \in Nat /\ REFRESH_INTERVAL > 0 /\ MAX_AGE > REFRESH_INTERVAL
  BY DEF KeyConstants, IntervalsAssumption
<1>5. Longest \in Nat /\ Longest = MAX_AGE + JWKS_TIMEOUT + 1
  BY <1>4 DEF Longest, Known
<1>6. /\ \A k \in Kids : changed[k] \in Nat /\ changed[k] <= Longest
      /\ took \in Nat /\ took <= JWKS_TIMEOUT /\ published \in SUBSET Kids
  BY <1>4, <1>5 DEF TypeOK
<1>7. req \in [Requests -> ReqType]
  BY DEF TypeOK, ReqType
<1> QED BY <1>1, <1>2, <1>3, <1>4, <1>5, <1>6, <1>7

(***************************************************************************)
(* What the parts say                                                      *)
(***************************************************************************)
LEMMA HoldersAgree ==
    ASSUME LockHeld, NEW c \in Requests, NEW d \in Requests, Held(c), Held(d)
    PROVE  c = d
BY DEF LockHeld

LEMMA LockedAlone ==
    ASSUME LockHeld, NEW c \in Requests, req[c].pc = "locked"
    PROVE  ~Fetching /\ \A d \in Requests : ~UnderWay(d)
BY HoldersAgree DEF Fetching, Held, UnderWay

LEMMA RotatedFound == ASSUME KeyConstants, TypeOK, KeyParts PROVE RotatedKeyIsFound
<1>0. /\ LockHeld /\ SetFollows /\ BodyFollows /\ RefetchAttempted /\ AttemptSettled
      /\ RefetchCounted
  BY DEF KeyParts
<1> SUFFICES ASSUME NEW c \in Requests, req[c].kid \in published,
                    \/ req[c].pc = "locked" /\ ~due(c) /\ NotDue(c) = "unauthorized"
                    \/ req[c].pc = "answered" /\ req[c].kid \notin req[c].body
             PROVE  changed[req[c].kid] <= REFRESH_INTERVAL + JWKS_TIMEOUT
  BY DEF RotatedKeyIsFound
<1>1. CASE req[c].pc = "locked" /\ ~due(c) /\ NotDue(c) = "unauthorized"
  <2>1. ~find(c) /\ ~failing
    BY <1>1 DEF NotDue
  <2>2. keys.loaded # Never /\ recent(fetches.refreshed)
    BY <1>1, <2>1 DEF due
  <2>3. ~Fetching
    BY <1>0, <1>1, LockedAlone
  <2>4. /\ fetches.attempted # Never /\ fetches.attempted <= fetches.refreshed
        /\ fetches.refreshed < REFRESH_INTERVAL
    BY <1>0, <2>2 DEF RefetchAttempted, recent
  <2>5. fetches.attempted < REFRESH_INTERVAL
    BY <2>4, KeyFields
  <2>6. ~fetches.error
    BY <2>1, <2>4, <2>5 DEF failing, recent
  <2>7. keys.loaded < REFRESH_INTERVAL
    BY <1>0, <2>2, <2>3, <2>5, <2>6, KeyFields DEF AttemptSettled
  <2>8. keys.loaded < MAX_AGE
    BY <2>7, KeyFields
  <2>9. req[c].kid \in Differ(keys.set, published)
    BY <2>1 DEF find, Differ
  <2>10. changed[req[c].kid] <= keys.loaded + JWKS_TIMEOUT
    BY <1>0, <2>2, <2>8, <2>9 DEF SetFollows
  <2>11. changed[req[c].kid] \in Nat
    BY KeyFields
  <2> QED BY <2>7, <2>10, <2>11, KeyFields
<1>2. CASE req[c].pc = "answered" /\ req[c].kid \notin req[c].body
  <2>1. changed[req[c].kid] <= took
    BY <1>0, <1>2 DEF BodyFollows, Differ
  <2>2. changed[req[c].kid] \in Nat
    BY KeyFields
  <2> QED BY <2>1, <2>2, KeyFields
<1> QED BY <1>1, <1>2

LEMMA WithdrawnLapsed == ASSUME KeyConstants, TypeOK, KeyParts PROVE WithdrawnKeyLapses
<1>0. LockHeld /\ SetFollows /\ AttemptSettled
  BY DEF KeyParts
<1> SUFFICES ASSUME NEW k \in keys.set \ published, changed[k] >= Known
             PROVE  /\ ~fresh
                    /\ \A c \in Requests :
                           req[c].kid = k /\ req[c].pc = "locked" /\ ~due(c) => fetches.error
  BY DEF WithdrawnKeyLapses
<1>1. keys.loaded # Never /\ changed[k] \in Nat
  BY <1>0, KeyFields DEF SetFollows
<1>2. k \in Differ(keys.set, published)
  BY DEF Differ
<1>3. ~(keys.loaded < MAX_AGE)
  BY <1>0, <1>1, <1>2, KeyFields DEF SetFollows, Known
<1>4. keys.loaded = MAX_AGE
  BY <1>3, KeyFields
<1>5. ASSUME NEW c \in Requests, req[c].kid = k, req[c].pc = "locked", ~due(c), ~fetches.error
      PROVE  FALSE
  <2>1. find(c)
    BY <1>5 DEF find
  <2>2. recent(fetches.attempted)
    BY <1>1, <1>5, <2>1 DEF due
  <2>3. ~Fetching
    BY <1>0, <1>5, LockedAlone
  <2>4. \/ fetches.attempted = keys.loaded
        \/ fetches.attempted = REFRESH_INTERVAL
    BY <1>0, <1>1, <1>5, <2>3 DEF AttemptSettled
  <2>5. fetches.attempted < REFRESH_INTERVAL
    BY <2>2 DEF recent
  <2> QED BY <1>4, <2>4, <2>5, KeyFields
<1> QED BY <1>3, <1>5 DEF fresh

LEMMA IssuerSpared ==
    ASSUME KeyConstants, TypeOK, KeyParts, [Next]_vars
    PROVE  SparesIssuer
<1>0. LockHeld /\ AttemptSettled /\ RefetchCounted
  BY DEF KeyParts
<1> SUFFICES ASSUME NEW c \in Requests, req[c].pc = "locked", req'[c].pc = "fetching"
             PROVE  /\ since.failed = Never \/ since.failed >= REFRESH_INTERVAL \/ ~fetches.error
                    /\ ~find(c) /\ keys.loaded # Never =>
                           since.refetch = Never \/ since.refetch >= REFRESH_INTERVAL
  BY DEF SparesIssuer
<1>1. req \in [Requests -> ReqType]
  BY KeyFields
<1>2. due(c)
  <2>1. req' # req
    OBVIOUS
  <2>2. PICK d \in Requests :
            (\E k \in Kids : lookup(d, k)) \/ try_lock(d) \/ lock(d) \/ Settled(d)
            \/ FetchBegin(d) \/ fetch(d) \/ Loaded(d)
    BY <2>1 DEF Next, vars, Publish, Withdraw, Tick
  <2>3. d = c
    BY <1>1, <2>2, Zenon DEF lookup, try_lock, lock, Settled, FetchBegin, fetch, Loaded, Leave,
          ReqType
  <2>4. req'[c].pc \notin {"idle", "try", "wait", "locked"}
    OBVIOUS
  <2>5. ~(\E k \in Kids : lookup(c, k)) /\ ~try_lock(c) /\ ~lock(c) /\ ~fetch(c) /\ ~Loaded(c)
    BY DEF lookup, try_lock, lock, fetch, Loaded
  <2>6. ~Settled(c)
    BY <1>1, <2>4 DEF Settled, Leave, Idle
  <2> QED BY <2>2, <2>3, <2>5, <2>6 DEF FetchBegin
<1>3. ~Fetching /\ \A d \in Requests : ~UnderWay(d)
  BY <1>0, LockedAlone
<1>4. ASSUME since.failed # Never, fetches.error PROVE since.failed >= REFRESH_INTERVAL
  <2>1. fetches.attempted = since.failed
    BY <1>0, <1>3, <1>4 DEF AttemptSettled
  <2>2. ~recent(fetches.attempted)
    BY <1>2, <1>4 DEF due, failing
  <2> QED BY <1>4, <2>1, <2>2, KeyFields DEF recent
<1>5. ASSUME ~find(c), keys.loaded # Never, since.refetch # Never
      PROVE  since.refetch >= REFRESH_INTERVAL
  <2>1. ~recent(fetches.refreshed)
    BY <1>2, <1>5 DEF due
  <2>2. fetches.refreshed = since.refetch
    BY <1>0, <1>3 DEF RefetchCounted
  <2> QED BY <1>5, <2>1, <2>2, KeyFields DEF recent
<1> QED BY <1>4, <1>5

(***************************************************************************)
(* Types                                                                   *)
(***************************************************************************)
KeysType == [set : SUBSET Kids, loaded : -1..MAX_AGE]
FetchesType == [holder : Requests \cup {NoOne}, attempted : -1..REFRESH_INTERVAL,
                error : BOOLEAN, refreshed : -1..REFRESH_INTERVAL]
SinceType == [failed : -1..REFRESH_INTERVAL, refetch : -1..REFRESH_INTERVAL]
Typed(ks, fs, rs, t, p, ch, si) ==
    /\ ks \in KeysType /\ fs \in FetchesType /\ rs \in [Requests -> ReqType]
    /\ t \in 0..JWKS_TIMEOUT /\ p \in SUBSET Kids /\ ch \in [Kids -> 0..Longest]
    /\ si \in SinceType

LEMMA KeyTypes == TypeOK <=> Typed(keys, fetches, req, took, published, changed, since)
BY DEF TypeOK, Typed, KeysType, FetchesType, SinceType, ReqType, Never

LEMMA Ages ==
    ASSUME KeyConstants, NEW most \in {MAX_AGE, REFRESH_INTERVAL, Longest},
           NEW age \in Int, age >= -1, age <= most
    PROVE  /\ most \in Nat /\ most > 0
           /\ Older(age, most) \in -1..most
           /\ Older(age, most) = -1 <=> age = -1
           /\ age # -1 /\ age < most => Older(age, most) = age + 1
           /\ age = most => Older(age, most) = most
           /\ age >= 0 => Older(age, most) \in Nat /\ Older(age, most) <= age + 1
           /\ Older(age, most) >= age
<1>1. most \in Nat /\ most > 0
  BY DEF KeyConstants, IntervalsAssumption, Longest, Known
<1> QED BY <1>1 DEF Older, Never

LEMMA IdleTyped == ASSUME KeyConstants PROVE Idle \in ReqType
<1>1. (CHOOSE k \in Kids : TRUE) \in Kids
  BY DEF KeyConstants
<1> QED BY <1>1 DEF Idle, ReqType, Pcs

LEMMA KeyTyped == ASSUME KeyConstants, TypeOK, [Next]_vars PROVE TypeOK'
<1>a. /\ keys \in KeysType /\ fetches \in FetchesType /\ req \in [Requests -> ReqType]
      /\ took \in 0..JWKS_TIMEOUT /\ published \in SUBSET Kids /\ changed \in [Kids -> 0..Longest]
      /\ since \in SinceType
  BY KeyTypes DEF Typed
<1>b. 0 \in 0..JWKS_TIMEOUT /\ 0 \in -1..REFRESH_INTERVAL /\ 0 \in -1..MAX_AGE /\ 0 \in 0..Longest
  BY KeyFields
<1>c. Idle \in ReqType /\ {"try", "wait", "locked", "fetching", "answered", "failed"} \subseteq Pcs
  BY IdleTyped DEF Pcs
<1> SUFFICES Typed(keys, fetches, req, took, published, changed, since)'
  BY DEF TypeOK, Typed, KeysType, FetchesType, SinceType, ReqType, Never
<1>1. ASSUME NEW c \in Requests, NEW k \in Kids, lookup(c, k)
      PROVE  Typed(keys, fetches, req, took, published, changed, since)'
  <2> DEFINE stale == k \in keys.set
             next == [Idle EXCEPT !.pc = "try", !.kid = k, !.stale = stale]
  <2>1. next \in ReqType
    <3>1. stale \in BOOLEAN
      OBVIOUS
    <3> HIDE DEF stale
    <3> QED BY <1>c, <3>1 DEF ReqType, Pcs
  <2>2. req' = req \/ req' = [req EXCEPT ![c] = next]
    BY <1>1, Zenon DEF lookup
  <2> HIDE DEF next
  <2>3. req' \in [Requests -> ReqType]
    BY <1>a, <2>1, <2>2
  <2> QED BY <1>1, <1>a, <2>3 DEF lookup, Typed
<1>2. ASSUME NEW c \in Requests, try_lock(c) \/ lock(c) \/ Settled(c)
      PROVE  Typed(keys, fetches, req, took, published, changed, since)'
  <2>1. \/ req' = [req EXCEPT ![c] = Idle]
        \/ req' = [req EXCEPT ![c].pc = "locked"]
        \/ req' = [req EXCEPT ![c].pc = "wait"]
    BY <1>2, Zenon DEF try_lock, lock, Settled, Leave
  <2>2. \/ req' = [req EXCEPT ![c] = Idle]
        \/ req' = [req EXCEPT ![c] = [req[c] EXCEPT !.pc = "locked"]]
        \/ req' = [req EXCEPT ![c] = [req[c] EXCEPT !.pc = "wait"]]
    BY <1>a, <2>1
  <2>5. req' \in [Requests -> ReqType]
    <3>1. /\ [req[c] EXCEPT !.pc = "locked"] \in ReqType
          /\ [req[c] EXCEPT !.pc = "wait"] \in ReqType
      BY <1>a, <1>c DEF ReqType
    <3> QED BY <1>a, <1>c, <2>2, <3>1
  <2>3. \/ fetches' = [fetches EXCEPT !.holder = c]
        \/ fetches' = [fetches EXCEPT !.holder = NoOne]
        \/ fetches' = fetches
    BY <1>2, Zenon DEF try_lock, lock, Settled
  <2>4. fetches' \in FetchesType
    BY <1>a, <2>3 DEF FetchesType
  <2> QED BY <1>2, <1>a, <2>5, <2>4 DEF try_lock, lock, Settled, Typed
<1>3. ASSUME NEW c \in Requests, FetchBegin(c)
      PROVE  Typed(keys, fetches, req, took, published, changed, since)'
  <2> DEFINE refreshed == IF keys.loaded # Never /\ ~find(c) THEN 0 ELSE fetches.refreshed
             found == find(c)
  <2>1. refreshed \in -1..REFRESH_INTERVAL /\ found \in BOOLEAN
    BY <1>a, <1>b DEF FetchesType, find
  <2>2. /\ req' = [req EXCEPT ![c].pc = "fetching", ![c].found = found]
        /\ fetches' = [fetches EXCEPT !.attempted = 0, !.refreshed = refreshed]
    BY <1>3, Zenon DEF FetchBegin
  <2> HIDE DEF refreshed, found
  <2>3. req' = [req EXCEPT ![c] = [req[c] EXCEPT !.pc = "fetching", !.found = found]]
    BY <1>a, <2>2
  <2>4. req' \in [Requests -> ReqType]
    <3>1. req[c] \in ReqType
      BY <1>a
    <3>2. "fetching" \in Pcs
      BY <1>c
    <3>3. [req[c] EXCEPT !.pc = "fetching", !.found = found] \in ReqType
      BY <2>1, <3>1, <3>2 DEF ReqType
    <3> QED BY <1>a, <2>3, <3>3
  <2>5. fetches' \in FetchesType
    BY <1>a, <1>b, <2>1, <2>2 DEF FetchesType
  <2> QED BY <1>3, <1>a, <1>b, <2>4, <2>5 DEF FetchBegin, Typed
<1>4. ASSUME NEW c \in Requests, fetch(c)
      PROVE  Typed(keys, fetches, req, took, published, changed, since)'
  <2>1. \/ req' = [req EXCEPT ![c].pc = "answered", ![c].body = published]
        \/ req' = [req EXCEPT ![c].pc = "failed"]
    BY <1>4, Zenon DEF fetch
  <2>2. \/ req' = [req EXCEPT ![c] = [req[c] EXCEPT !.pc = "answered", !.body = published]]
        \/ req' = [req EXCEPT ![c] = [req[c] EXCEPT !.pc = "failed"]]
    BY <1>a, <2>1
  <2>3. req' \in [Requests -> ReqType]
    <3>1. req[c] \in ReqType
      BY <1>a
    <3>2. "answered" \in Pcs /\ "failed" \in Pcs
      BY <1>c
    <3>3. [req[c] EXCEPT !.pc = "answered", !.body = published] \in ReqType
      BY <1>a, <3>1, <3>2 DEF ReqType
    <3>4. [req[c] EXCEPT !.pc = "failed"] \in ReqType
      BY <3>1, <3>2 DEF ReqType
    <3> QED BY <1>a, <2>2, <3>3, <3>4
  <2> QED BY <1>4, <1>a, <2>3 DEF fetch, Typed
<1>5. ASSUME NEW c \in Requests, Loaded(c)
      PROVE  Typed(keys, fetches, req, took, published, changed, since)'
  <2>1. req[c] \in ReqType
    BY <1>a
  <2>2. keys' \in KeysType
    <3>1. CASE req[c].pc = "answered"
      <4>1. keys' = [set |-> req[c].body, loaded |-> 0]
        BY <1>5, <3>1 DEF Loaded
      <4> QED BY <1>b, <2>1, <4>1 DEF KeysType, ReqType
    <3> QED BY <1>5, <1>a, <3>1 DEF Loaded
  <2>3. fetches' \in FetchesType
    <3> DEFINE refreshed == IF Refetch(c) THEN 0 ELSE fetches.refreshed
               error == req[c].pc = "failed"
    <3>1. refreshed \in -1..REFRESH_INTERVAL /\ error \in BOOLEAN
      BY <1>a, <1>b DEF FetchesType
    <3>2. fetches' = [attempted |-> 0, error |-> error, holder |-> NoOne, refreshed |-> refreshed]
      BY <1>5, Zenon DEF Loaded
    <3> HIDE DEF refreshed, error
    <3> QED BY <1>b, <3>1, <3>2 DEF FetchesType
  <2>4. since' \in SinceType
    <3> DEFINE failed == IF req[c].pc = "failed" THEN 0 ELSE since.failed
               refetch == IF Refetch(c) THEN 0 ELSE since.refetch
    <3>1. failed \in -1..REFRESH_INTERVAL /\ refetch \in -1..REFRESH_INTERVAL
      BY <1>a, <1>b DEF SinceType
    <3>2. since' = [failed |-> failed, refetch |-> refetch]
      BY <1>5, Zenon DEF Loaded
    <3> HIDE DEF failed, refetch
    <3> QED BY <3>1, <3>2 DEF SinceType
  <2>5. req' \in [Requests -> ReqType]
    BY <1>5, <1>a, <1>c DEF Loaded, Leave
  <2> QED BY <1>5, <1>a, <2>2, <2>3, <2>4, <2>5 DEF Loaded, Typed
<1>6. ASSUME NEW k \in Kids, Publish(k) \/ Withdraw(k)
      PROVE  Typed(keys, fetches, req, took, published, changed, since)'
  <2>1. published' \in SUBSET Kids /\ changed' = [changed EXCEPT ![k] = 0]
    BY <1>6, <1>a DEF Publish, Withdraw
  <2>2. changed' \in [Kids -> 0..Longest]
    BY <1>a, <1>b, <2>1
  <2> QED BY <1>6, <1>a, <2>1, <2>2 DEF Publish, Withdraw, Typed
<1>7. ASSUME Tick
      PROVE  Typed(keys, fetches, req, took, published, changed, since)'
  <2> DEFINE attempted == Older(fetches.attempted, REFRESH_INTERVAL)
             refreshed == Older(fetches.refreshed, REFRESH_INTERVAL)
             failed == Older(since.failed, REFRESH_INTERVAL)
             refetch == Older(since.refetch, REFRESH_INTERVAL)
             loaded == Older(keys.loaded, MAX_AGE)
  <2>1. /\ attempted \in -1..REFRESH_INTERVAL /\ refreshed \in -1..REFRESH_INTERVAL
        /\ failed \in -1..REFRESH_INTERVAL /\ refetch \in -1..REFRESH_INTERVAL
        /\ loaded \in -1..MAX_AGE
    <3> \A age \in Int : age >= -1 /\ age <= REFRESH_INTERVAL =>
            Older(age, REFRESH_INTERVAL) \in -1..REFRESH_INTERVAL
      BY Ages
    <3> \A age \in Int : age >= -1 /\ age <= MAX_AGE => Older(age, MAX_AGE) \in -1..MAX_AGE
      BY Ages
    <3> QED BY KeyFields
  <2>2. /\ keys' = [keys EXCEPT !.loaded = loaded]
        /\ fetches' = [fetches EXCEPT !.attempted = attempted, !.refreshed = refreshed]
        /\ since' = [failed |-> failed, refetch |-> refetch]
    BY <1>7, Zenon DEF Tick
  <2> HIDE DEF attempted, refreshed, failed, refetch, loaded
  <2>3. keys' \in KeysType /\ fetches' \in FetchesType /\ since' \in SinceType
    BY <1>a, <2>1, <2>2 DEF KeysType, FetchesType, SinceType
  <2>4. took' \in 0..JWKS_TIMEOUT
    BY <1>7, <1>b, KeyFields DEF Tick
  <2>5. \A k \in Kids : Older(changed[k], Longest) \in 0..Longest
    <3> TAKE k \in Kids
    <3>1. changed[k] \in Nat /\ changed[k] <= Longest
      BY KeyFields
    <3> QED BY <3>1, Ages
  <2>6. changed' \in [Kids -> 0..Longest]
    BY <1>7, <2>5 DEF Tick
  <2> QED BY <1>7, <1>a, <2>3, <2>4, <2>6 DEF Tick, Typed
<1>8. ASSUME UNCHANGED vars PROVE Typed(keys, fetches, req, took, published, changed, since)'
  BY <1>8, <1>a DEF vars, Typed
<1> QED BY <1>1, <1>2, <1>3, <1>4, <1>5, <1>6, <1>7, <1>8 DEF Next

(***************************************************************************)
(* The steps                                                               *)
(***************************************************************************)
\* A step that neither begins nor ends a fetch, and no time passes.
LEMMA FetchGoesOn ==
    ASSUME KeyParts, UNCHANGED <<keys, took, published, changed, since>>,
           fetches'.attempted = fetches.attempted, fetches'.error = fetches.error,
           fetches'.refreshed = fetches.refreshed,
           \A d \in Requests : UnderWay(d)' <=> UnderWay(d),
           \A d \in Requests : UnderWay(d) => req'[d].found = req[d].found,
           LockHeld', BodyFollows'
    PROVE  KeyParts'
<1>1. Fetching' <=> Fetching
  BY DEF Fetching, UnderWay
<1>2. SetFollows' /\ RefetchAttempted' /\ AttemptSettled'
  BY <1>1 DEF KeyParts, SetFollows, RefetchAttempted, AttemptSettled
<1>3. RefetchCounted'
  BY DEF KeyParts, RefetchCounted, Refetch
<1> QED BY <1>2, <1>3 DEF KeyParts

LEMMA LookupKeeps ==
    ASSUME KeyConstants, TypeOK, KeyParts, NEW c \in Requests, NEW k \in Kids, lookup(c, k)
    PROVE  KeyParts'
<1>1. req \in [Requests -> ReqType]
  BY KeyFields
<1>2. \A d \in Requests : d # c => req'[d] = req[d]
  BY <1>1 DEF lookup
<1>3. req[c].pc = "idle" /\ req'[c].pc \in {"idle", "try"}
  BY <1>1 DEF lookup, Idle
<1>4. \A d \in Requests : (Held(d)' <=> Held(d)) /\ (UnderWay(d)' <=> UnderWay(d))
  BY <1>2, <1>3 DEF Held, UnderWay
<1>5. UNCHANGED <<keys, fetches, took, published, changed, since>>
  BY DEF lookup
<1>6. LockHeld' /\ BodyFollows'
  BY <1>2, <1>3, <1>4, <1>5 DEF KeyParts, LockHeld, BodyFollows
<1>7. \A d \in Requests : UnderWay(d) => req'[d].found = req[d].found
  BY <1>2, <1>3 DEF UnderWay
<1> QED BY <1>4, <1>5, <1>6, <1>7, FetchGoesOn

\* The lock is taken or given back without a fetch, or waited for.
LEMMA LockKeeps ==
    ASSUME KeyConstants, TypeOK, KeyParts, NEW c \in Requests, try_lock(c) \/ lock(c) \/ Settled(c)
    PROVE  KeyParts'
<1>0. LockHeld /\ BodyFollows /\ NoOne \notin Requests
  BY DEF KeyParts, KeyConstants
<1>1. /\ req \in [Requests -> ReqType] /\ DOMAIN fetches = {"holder", "attempted", "error", "refreshed"}
      /\ fetches \in FetchesType
  BY KeyFields, KeyTypes DEF Typed, FetchesType
<1>2. req[c].pc \in {"try", "wait", "locked"} /\ req'[c].pc \in {"idle", "wait", "locked"}
  BY <1>1 DEF try_lock, lock, Settled, Leave, Idle, ReqType
<1>3. \A d \in Requests : d # c => req'[d] = req[d]
  BY <1>1 DEF try_lock, lock, Settled, Leave
<1>4. \A d \in Requests : UnderWay(d)' <=> UnderWay(d)
  BY <1>2, <1>3 DEF UnderWay
<1>5. UNCHANGED <<keys, took, published, changed, since>>
  BY DEF try_lock, lock, Settled
<1>6. /\ fetches'.attempted = fetches.attempted /\ fetches'.error = fetches.error
      /\ fetches'.refreshed = fetches.refreshed
  BY <1>1 DEF try_lock, lock, Settled, FetchesType
<1>7. LockHeld'
  <2>1. CASE fetches.holder = NoOne /\ fetches'.holder = c /\ req'[c].pc = "locked"
    BY <1>0, <1>3, <2>1 DEF LockHeld, Held
  <2>2. CASE fetches.holder = c /\ fetches'.holder = NoOne /\ req'[c].pc = "idle"
    BY <1>0, <1>3, <2>2 DEF LockHeld, Held
  <2>3. CASE fetches' = fetches /\ req[c].pc = "try" /\ req'[c].pc \in {"idle", "wait"}
    BY <1>0, <1>3, <2>3 DEF LockHeld, Held
  <2>4. CASE try_lock(c)
    BY <1>1, <2>1, <2>3, <2>4 DEF try_lock, Leave, Idle, FetchesType, ReqType
  <2>5. CASE lock(c)
    BY <1>1, <2>1, <2>5 DEF lock, FetchesType, ReqType
  <2>6. CASE Settled(c)
    <3>1. fetches.holder = c
      BY <1>0, <2>6 DEF Settled, LockHeld, Held
    <3> QED BY <1>1, <2>2, <2>6, <3>1 DEF Settled, Leave, Idle, FetchesType
  <2> QED BY <2>4, <2>5, <2>6
<1>8. BodyFollows'
  BY <1>0, <1>2, <1>3, <1>5 DEF BodyFollows
<1>9. \A d \in Requests : UnderWay(d) => req'[d].found = req[d].found
  BY <1>2, <1>3 DEF UnderWay
<1> QED BY <1>4, <1>5, <1>6, <1>7, <1>8, <1>9, FetchGoesOn

LEMMA BeginKeeps ==
    ASSUME KeyConstants, TypeOK, KeyParts, NEW c \in Requests, FetchBegin(c)
    PROVE  KeyParts'
<1>0. /\ LockHeld /\ SetFollows /\ BodyFollows /\ RefetchAttempted /\ AttemptSettled
      /\ RefetchCounted
  BY DEF KeyParts
<1>1. req \in [Requests -> ReqType] /\ fetches \in FetchesType
  BY KeyFields, KeyTypes DEF Typed
<1> DEFINE refreshed == IF keys.loaded # Never /\ ~find(c) THEN 0 ELSE fetches.refreshed
           found == find(c)
<1>2. /\ req' = [req EXCEPT ![c].pc = "fetching", ![c].found = found]
      /\ fetches' = [fetches EXCEPT !.attempted = 0, !.refreshed = refreshed]
  BY Zenon DEF FetchBegin
<1>3. /\ req[c].pc = "locked" /\ UNCHANGED <<keys, published, changed, since>>
  BY DEF FetchBegin
<1> HIDE DEF refreshed, found
<1>4. req'[c].pc = "fetching" /\ \A d \in Requests : d # c => req'[d] = req[d]
  BY <1>1, <1>2 DEF ReqType
<1>5. req'[c].found = found
  BY <1>1, <1>2 DEF ReqType
<1>6. fetches'.holder = fetches.holder /\ fetches'.attempted = 0 /\ fetches'.refreshed = refreshed
  BY <1>1, <1>2 DEF FetchesType
<1>7. LockHeld'
  BY <1>0, <1>3, <1>4, <1>6 DEF LockHeld, Held
<1>8. SetFollows'
  BY <1>0, <1>3 DEF SetFollows
<1>9. BodyFollows'
  <2> SUFFICES ASSUME NEW d \in Requests, req'[d].pc = "answered" PROVE FALSE
    BY DEF BodyFollows
  <2>1. d # c /\ Held(d) /\ Held(c)
    BY <1>3, <1>4 DEF Held
  <2> QED BY <1>0, <2>1, HoldersAgree
<1>10. RefetchAttempted'
  <2>1. refreshed = Never \/ refreshed >= 0
    BY <1>0, KeyFields DEF refreshed, Never
  <2> QED BY <1>6, <2>1 DEF RefetchAttempted, Never
<1>11. AttemptSettled'
  BY <1>4 DEF AttemptSettled, Fetching
<1>12. RefetchCounted'
  <2>1. CASE keys.loaded # Never /\ ~find(c)
    <3>1. UnderWay(c)' /\ Refetch(c)'
      BY <1>3, <1>4, <1>5, <2>1 DEF UnderWay, Refetch, found
    <3> QED BY <3>1 DEF RefetchCounted
  <2>2. CASE ~(keys.loaded # Never /\ ~find(c))
    <3>1. fetches.refreshed = since.refetch
      BY <1>0, <1>3, LockedAlone DEF RefetchCounted
    <3> QED BY <1>3, <1>6, <2>2, <3>1 DEF RefetchCounted, refreshed
  <2> QED BY <2>1, <2>2
<1> QED BY <1>7, <1>8, <1>9, <1>10, <1>11, <1>12 DEF KeyParts

LEMMA AnswerKeeps ==
    ASSUME KeyConstants, TypeOK, KeyParts, NEW c \in Requests, fetch(c)
    PROVE  KeyParts'
<1>0. LockHeld /\ BodyFollows
  BY DEF KeyParts
<1>1. req \in [Requests -> ReqType]
  BY KeyFields
<1>2. /\ req[c].pc = "fetching" /\ UNCHANGED <<keys, fetches, took, published, changed, since>>
  BY DEF fetch
<1>3. \A d \in Requests : d # c => req'[d] = req[d]
  BY <1>1 DEF fetch
<1>4. /\ req'[c].pc \in {"answered", "failed"} /\ req'[c].found = req[c].found
      /\ req'[c].pc = "answered" => req'[c].body = published
  BY <1>1 DEF fetch, ReqType
<1>5. \A d \in Requests : (Held(d)' <=> Held(d)) /\ (UnderWay(d)' <=> UnderWay(d))
  BY <1>2, <1>3, <1>4 DEF Held, UnderWay
<1>6. LockHeld'
  BY <1>0, <1>2, <1>5 DEF LockHeld
<1>7. BodyFollows'
  <2> SUFFICES ASSUME NEW d \in Requests, req'[d].pc = "answered",
                      NEW k \in Differ(req'[d].body, published)
               PROVE  changed[k] <= took
    BY <1>2 DEF BodyFollows
  <2>1. d # c
    BY <1>4 DEF Differ
  <2> QED BY <1>0, <1>3, <2>1 DEF BodyFollows
<1>8. \A d \in Requests : UnderWay(d) => req'[d].found = req[d].found
  BY <1>3, <1>4
<1> QED BY <1>2, <1>5, <1>6, <1>7, <1>8, FetchGoesOn

LEMMA LoadedKeeps ==
    ASSUME KeyConstants, TypeOK, KeyParts, NEW c \in Requests, Loaded(c)
    PROVE  KeyParts'
<1>0. /\ LockHeld /\ SetFollows /\ BodyFollows /\ RefetchAttempted /\ RefetchCounted
      /\ NoOne \notin Requests
  BY DEF KeyParts, KeyConstants
<1>1. req \in [Requests -> ReqType]
  BY KeyFields
<1>2. /\ req[c].pc \in {"answered", "failed"} /\ UNCHANGED <<took, published, changed>>
      /\ fetches'.attempted = 0 /\ fetches'.holder = NoOne
      /\ fetches'.error = (req[c].pc = "failed")
      /\ fetches'.refreshed = IF Refetch(c) THEN 0 ELSE fetches.refreshed
      /\ since'.failed = IF req[c].pc = "failed" THEN 0 ELSE since.failed
      /\ since'.refetch = IF Refetch(c) THEN 0 ELSE since.refetch
  BY DEF Loaded
<1>3. req'[c].pc = "idle" /\ \A d \in Requests : d # c => req'[d] = req[d]
  BY <1>1 DEF Loaded, Leave, Idle
<1>4. \A d \in Requests : d # c => ~Held(d) /\ ~UnderWay(d)
  BY <1>0, <1>2, HoldersAgree DEF Held, UnderWay
<1>5. \A d \in Requests : ~Held(d)' /\ ~UnderWay(d)'
  BY <1>3, <1>4 DEF Held, UnderWay
<1>6. LockHeld' /\ BodyFollows'
  BY <1>0, <1>2, <1>5 DEF LockHeld, BodyFollows, Held
<1>7. SetFollows'
  <2>1. CASE req[c].pc = "answered"
    <3>1. keys'.set = req[c].body /\ keys'.loaded = 0
      BY <2>1 DEF Loaded
    <3>2. ASSUME NEW k \in Differ(req[c].body, published) PROVE changed[k] <= 0 + JWKS_TIMEOUT
      <4>1. changed[k] <= took
        BY <1>0, <2>1 DEF BodyFollows
      <4>2. k \in Kids
        BY <1>1, KeyFields DEF Differ, ReqType
      <4>3. changed[k] \in Nat
        BY <4>2, KeyFields
      <4> QED BY <4>1, <4>3, KeyFields
    <3> QED BY <1>2, <3>1, <3>2 DEF SetFollows, Never
  <2>2. CASE req[c].pc = "failed"
    <3>1. keys' = keys
      BY <2>2 DEF Loaded
    <3> QED BY <1>0, <1>2, <3>1 DEF SetFollows
  <2> QED BY <1>2, <2>1, <2>2
<1>8. RefetchAttempted'
  BY <1>0, <1>2, KeyFields DEF RefetchAttempted, Never
<1>9. AttemptSettled'
  <2>1. CASE req[c].pc = "answered"
    <3>1. keys'.loaded = 0
      BY <2>1 DEF Loaded
    <3> QED BY <1>2, <2>1, <3>1 DEF AttemptSettled
  <2>2. CASE req[c].pc = "failed"
    BY <1>2, <2>2 DEF AttemptSettled
  <2> QED BY <1>2, <2>1, <2>2
<1>10. RefetchCounted'
  <2>1. ~Refetch(c) => fetches.refreshed = since.refetch
    BY <1>0, <1>4 DEF RefetchCounted
  <2> QED BY <1>2, <2>1 DEF RefetchCounted
<1> QED BY <1>6, <1>7, <1>8, <1>9, <1>10 DEF KeyParts

LEMMA IssuerKeeps ==
    ASSUME KeyConstants, TypeOK, KeyParts, NEW k \in Kids, Publish(k) \/ Withdraw(k)
    PROVE  KeyParts'
<1>0. /\ LockHeld /\ SetFollows /\ BodyFollows /\ RefetchAttempted /\ AttemptSettled
      /\ RefetchCounted
  BY DEF KeyParts
<1>1. /\ UNCHANGED <<keys, fetches, req, took, since>>
      /\ published' = published \cup {k} \/ published' = published \ {k}
      /\ changed' = [changed EXCEPT ![k] = 0]
  BY DEF Publish, Withdraw
<1>2. changed'[k] = 0 /\ \A j \in Kids : j # k => changed'[j] = changed[j]
  BY <1>1, KeyTypes DEF Typed
<1>3. \A s \in SUBSET Kids : \A j \in Differ(s, published') : j # k => j \in Differ(s, published)
  BY <1>1 DEF Differ
<1>4. \A s \in SUBSET Kids : \A j \in Differ(s, published') : j \in Kids
  BY <1>1, KeyFields DEF Differ
<1>5. SetFollows'
  BY <1>0, <1>1, <1>2, <1>3, <1>4, KeyFields DEF SetFollows, Never
<1>6. BodyFollows'
  <2>1. \A d \in Requests : req[d].body \in SUBSET Kids
    BY KeyFields DEF ReqType
  <2>2. took >= 0
    BY KeyFields
  <2> QED BY <1>0, <1>1, <1>2, <1>3, <1>4, <2>1, <2>2 DEF BodyFollows
<1>7. LockHeld' /\ RefetchAttempted' /\ AttemptSettled' /\ RefetchCounted'
  BY <1>0, <1>1 DEF LockHeld, Held, RefetchAttempted, AttemptSettled, Fetching, RefetchCounted,
     UnderWay, Refetch
<1> QED BY <1>5, <1>6, <1>7 DEF KeyParts

LEMMA TickKeeps == ASSUME KeyConstants, TypeOK, KeyParts, Tick PROVE KeyParts'
<1>0. /\ LockHeld /\ SetFollows /\ BodyFollows /\ RefetchAttempted /\ AttemptSettled
      /\ RefetchCounted
  BY DEF KeyParts
<1>1. UNCHANGED <<req, published>>
  BY DEF Tick
<1>2. keys'.set = keys.set /\ keys'.loaded = Older(keys.loaded, MAX_AGE)
  BY KeyTypes DEF Tick, Typed, KeysType
<1>3. /\ fetches'.holder = fetches.holder /\ fetches'.error = fetches.error
      /\ fetches'.attempted = Older(fetches.attempted, REFRESH_INTERVAL)
      /\ fetches'.refreshed = Older(fetches.refreshed, REFRESH_INTERVAL)
  BY KeyTypes DEF Tick, Typed, FetchesType
<1>4. /\ since'.failed = Older(since.failed, REFRESH_INTERVAL)
      /\ since'.refetch = Older(since.refetch, REFRESH_INTERVAL)
  BY DEF Tick
<1>5. \A k \in Kids : changed'[k] \in Nat /\ changed'[k] <= changed[k] + 1
  <2> TAKE k \in Kids
  <2>1. changed[k] \in Nat /\ changed[k] <= Longest
    BY KeyFields
  <2>2. changed'[k] = Older(changed[k], Longest)
    BY DEF Tick
  <2> QED BY <2>1, <2>2, Ages
<1>6. \A s \in SUBSET Kids : Differ(s, published) \subseteq Kids
  BY KeyFields DEF Differ
<1>7. LockHeld'
  BY <1>0, <1>1, <1>3 DEF LockHeld, Held
<1>8. SetFollows'
  <2>1. keys'.loaded = Never => keys.loaded = Never
    BY <1>2, KeyFields, Ages DEF Never
  <2>2. ASSUME keys'.loaded # Never, keys'.loaded < MAX_AGE,
               NEW k \in Differ(keys.set, published)
        PROVE  changed'[k] <= keys'.loaded + JWKS_TIMEOUT
    <3>1. keys.loaded # Never /\ keys.loaded < MAX_AGE /\ keys'.loaded = keys.loaded + 1
      BY <1>2, <2>2, KeyFields, Ages DEF Never
    <3>2. k \in Kids /\ changed[k] \in Nat
      BY <1>6, KeyFields
    <3>3. changed[k] <= keys.loaded + JWKS_TIMEOUT
      BY <1>0, <2>2, <3>1 DEF SetFollows
    <3> QED BY <1>5, <3>1, <3>2, <3>3, KeyFields
  <2> QED BY <1>0, <1>1, <1>2, <2>1, <2>2 DEF SetFollows
<1>9. BodyFollows'
  <2> SUFFICES ASSUME NEW d \in Requests, req[d].pc = "answered",
                      NEW k \in Differ(req[d].body, published)
               PROVE  changed'[k] <= took'
    BY <1>1 DEF BodyFollows
  <2>1. took' = took + 1
    BY DEF Tick, Fetching
  <2>2. k \in Kids
    BY <1>6, KeyFields DEF ReqType
  <2>3. changed[k] \in Nat /\ took \in Nat
    BY <2>2, KeyFields
  <2>4. changed[k] <= took
    BY <1>0 DEF BodyFollows
  <2> QED BY <1>5, <2>1, <2>2, <2>3, <2>4
<1> DEFINE att == fetches.attempted
           ref == fetches.refreshed
           load == keys.loaded
<1>10. /\ att \in Int /\ att >= -1 /\ att <= REFRESH_INTERVAL
       /\ ref \in Int /\ ref >= -1 /\ ref <= REFRESH_INTERVAL
       /\ load \in Int /\ load >= -1 /\ load <= MAX_AGE
       /\ REFRESH_INTERVAL \in Nat /\ REFRESH_INTERVAL > 0 /\ MAX_AGE \in Nat
       /\ MAX_AGE > REFRESH_INTERVAL
  BY KeyFields
<1> HIDE DEF att, ref, load
<1>11. RefetchAttempted'
  <2>1. ref # -1 => att # -1 /\ att <= ref
    BY <1>0 DEF RefetchAttempted, Never, att, ref
  <2>2. Older(ref, REFRESH_INTERVAL) # -1 =>
            /\ Older(att, REFRESH_INTERVAL) # -1
            /\ Older(att, REFRESH_INTERVAL) <= Older(ref, REFRESH_INTERVAL)
    BY <1>10, <2>1 DEF Older, Never
  <2> QED BY <1>3, <2>2 DEF RefetchAttempted, Never, att, ref
<1>12. AttemptSettled'
  <2> SUFFICES ASSUME ~Fetching
               PROVE  /\ keys'.loaded # Never /\ ~fetches'.error =>
                             \/ fetches'.attempted = keys'.loaded
                             \/ /\ fetches'.attempted = REFRESH_INTERVAL
                                /\ keys'.loaded >= REFRESH_INTERVAL
                      /\ fetches'.error => fetches'.attempted = since'.failed
    BY <1>1 DEF AttemptSettled, Fetching
  <2>1. load # -1 /\ (att = load \/ (att = REFRESH_INTERVAL /\ load >= REFRESH_INTERVAL)) =>
            \/ Older(att, REFRESH_INTERVAL) = Older(load, MAX_AGE)
            \/ /\ Older(att, REFRESH_INTERVAL) = REFRESH_INTERVAL
               /\ Older(load, MAX_AGE) >= REFRESH_INTERVAL
    BY <1>10 DEF Older, Never
  <2>2. Older(load, MAX_AGE) # -1 => load # -1
    BY <1>10 DEF Older, Never
  <2>3. keys.loaded # Never /\ ~fetches.error =>
            load # -1 /\ (att = load \/ (att = REFRESH_INTERVAL /\ load >= REFRESH_INTERVAL))
    <3>1. keys.loaded # Never /\ ~fetches.error =>
              \/ fetches.attempted = keys.loaded
              \/ fetches.attempted = REFRESH_INTERVAL /\ keys.loaded >= REFRESH_INTERVAL
      BY <1>0 DEF AttemptSettled
    <3> QED BY <1>10, <3>1 DEF Never, att, load
  <2>4. keys'.loaded # Never /\ ~fetches'.error =>
            \/ fetches'.attempted = keys'.loaded
            \/ fetches'.attempted = REFRESH_INTERVAL /\ keys'.loaded >= REFRESH_INTERVAL
    BY <1>2, <1>3, <2>1, <2>2, <2>3 DEF Never, att, load
  <2>5. fetches'.error => fetches'.attempted = since'.failed
    BY <1>0, <1>3, <1>4 DEF AttemptSettled
  <2> QED BY <2>4, <2>5
<1>13. RefetchCounted'
  <2>1. keys.loaded # Never => keys'.loaded # Never
    BY <1>2, <1>10 DEF Older, Never, load
  <2>2. \A d \in Requests : UnderWay(d) /\ Refetch(d) => UnderWay(d)' /\ Refetch(d)'
    BY <1>1, <2>1 DEF UnderWay, Refetch
  <2> QED BY <1>0, <1>3, <1>4, <2>2 DEF RefetchCounted
<1> QED BY <1>7, <1>8, <1>9, <1>11, <1>12, <1>13 DEF KeyParts

KeyInv == TypeOK /\ KeyParts

LEMMA KeyInit == ASSUME KeyConstants, Init PROVE KeyInv
<1>1. TypeOK
  <2>1. Typed(keys, fetches, req, took, published, changed, since)
    <3>1. req \in [Requests -> ReqType]
      BY IdleTyped DEF Init
    <3>2. /\ MAX_AGE \in Nat /\ JWKS_TIMEOUT \in Nat /\ REFRESH_INTERVAL \in Nat
          /\ FirstKeys \subseteq Kids
      BY DEF KeyConstants, IntervalsAssumption
    <3>3. Longest \in 0..Longest
      BY <3>2 DEF Longest, Known
    <3> QED BY <3>1, <3>2, <3>3 DEF Init, Typed, KeysType, FetchesType, SinceType, Never
  <2> QED BY <2>1, KeyTypes
<1>2. \A c \in Requests : req[c].pc = "idle"
  BY DEF Init, Idle
<1>3. LockHeld /\ BodyFollows
  BY <1>2 DEF Init, KeyConstants, LockHeld, Held, BodyFollows
<1>4. SetFollows /\ RefetchAttempted /\ AttemptSettled /\ RefetchCounted
  BY DEF Init, SetFollows, RefetchAttempted, AttemptSettled, RefetchCounted
<1> QED BY <1>1, <1>3, <1>4 DEF KeyInv, KeyParts

LEMMA KeyNext == ASSUME KeyConstants, KeyInv, [Next]_vars PROVE KeyInv'
<1>0. TypeOK /\ KeyParts
  BY DEF KeyInv
<1>1. TypeOK'
  BY <1>0, KeyTyped
<1>2. CASE Next
  <2>1. ASSUME NEW c \in Requests, NEW k \in Kids, lookup(c, k) PROVE KeyParts'
    BY <1>0, <2>1, LookupKeeps
  <2>2. ASSUME NEW c \in Requests, try_lock(c) \/ lock(c) \/ Settled(c) PROVE KeyParts'
    BY <1>0, <2>2, LockKeeps
  <2>3. ASSUME NEW c \in Requests, FetchBegin(c) PROVE KeyParts'
    BY <1>0, <2>3, BeginKeeps
  <2>4. ASSUME NEW c \in Requests, fetch(c) PROVE KeyParts'
    BY <1>0, <2>4, AnswerKeeps
  <2>5. ASSUME NEW c \in Requests, Loaded(c) PROVE KeyParts'
    BY <1>0, <2>5, LoadedKeeps
  <2>6. ASSUME NEW k \in Kids, Publish(k) \/ Withdraw(k) PROVE KeyParts'
    BY <1>0, <2>6, IssuerKeeps
  <2>7. ASSUME Tick PROVE KeyParts'
    BY <1>0, <2>7, TickKeeps
  <2>8. KeyParts'
    BY <1>2, <2>1, <2>2, <2>3, <2>4, <2>5, <2>6, <2>7 DEF Next
  <2> QED BY <1>1, <2>8 DEF KeyInv
<1>3. CASE UNCHANGED vars
  BY <1>0, <1>1, <1>3 DEF vars, KeyInv, KeyParts, LockHeld, Held, SetFollows, BodyFollows,
     RefetchAttempted, AttemptSettled, Fetching, RefetchCounted, UnderWay, Refetch
<1> QED BY <1>2, <1>3

LEMMA KeyInvariant == ASSUME KeyConstants PROVE Spec => []KeyInv
<1>1. Init => KeyInv
  BY KeyInit
<1>2. KeyInv /\ [Next]_vars => KeyInv'
  BY KeyNext
<1> QED BY <1>1, <1>2, PTL DEF Spec

\* OidcVerifier::key: a request is not refused for a key the issuer has
\* published for longer than one interval and one fetch, whatever the others
\* ask for and however the fetches go.
THEOREM RotatedKeysAreFound == KeyConstants => (Spec => []RotatedKeyIsFound)
<1> SUFFICES ASSUME KeyConstants PROVE Spec => []RotatedKeyIsFound
  OBVIOUS
<1>1. KeyInv => RotatedKeyIsFound
  BY RotatedFound DEF KeyInv
<1> QED BY <1>1, KeyInvariant, PTL

\* OidcVerifier::key: a key the issuer withdrew is not accepted for longer than
\* a set is used and a fetch takes, but by a request that holds the lock after a
\* failed fetch.
THEOREM WithdrawnKeysLapse == KeyConstants => (Spec => []WithdrawnKeyLapses)
<1> SUFFICES ASSUME KeyConstants PROVE Spec => []WithdrawnKeyLapses
  OBVIOUS
<1>1. KeyInv => WithdrawnKeyLapses
  BY WithdrawnLapsed DEF KeyInv
<1> QED BY <1>1, KeyInvariant, PTL

\* OidcVerifier::key: however many requests ask, the issuer is not asked again
\* within an interval of a failed fetch, nor for unknown kids within an
\* interval of the last such refetch.
THEOREM IssuerIsSpared == KeyConstants => (Spec => [][SparesIssuer]_vars)
<1> SUFFICES ASSUME KeyConstants PROVE Spec => [][SparesIssuer]_vars
  OBVIOUS
<1>1. KeyInv /\ [Next]_vars => [SparesIssuer]_vars
  BY IssuerSpared DEF KeyInv
<1> QED BY <1>1, KeyInvariant, PTL DEF Spec

(***************************************************************************)
(* The boards                                                              *)
(***************************************************************************)
\* Runs are finitely many; any number of them are stored side by side.
BoardConstants == IsFiniteSet(Runs)

RunType == [at : {"none", "dated", "written", "stored"}, created : Nat, seq : Nat,
            thread : ThreadIds \cup {0}, root : BOOLEAN]

\* A run is dated no later than now, and numbered when it is written.
RunsOk ==
    /\ now \in Nat /\ order \in Nat /\ run \in [Runs -> RunType]
    /\ \A r \in Runs : run[r].at # "none" => run[r].created <= now
    /\ \A r \in Runs : run[r].at \in {"written", "stored"} => run[r].seq <= order

\* Numbers are given out once.
NumbersDiffer ==
    \A r, s \in Runs :
       /\ run[r].at \in {"written", "stored"} /\ run[s].at \in {"written", "stored"}
       /\ run[r].seq = run[s].seq
       => r = s

\* The run r of a board was there before s got its place.
Follows(r, s) ==
    /\ run[r].created <= run[s].created
    /\ run[s].at = "written" => run[r].seq < run[s].seq

\* The card of q had the label n when C were the runs of its thread t on their way: the
\* n runs up to q then, and those of C that have come in before it, are the runs up to q
\* now, and what else is on its way comes in after it.
CardOk(t, q, C, n) ==
    /\ q \in Board!RunsOf(t) /\ C \subseteq Runs
    /\ \A s \in C : run[s].at # "none" /\ run[s].thread = t
    /\ \A s \in Board!OnTheWay \ C : run[s].thread = t => Follows(q, s)
    /\ \E P \in SUBSET Runs :
          /\ Cardinality(P) = n /\ P \cap C = {}
          /\ {s \in Board!RunsOf(t) : ~Board!Before(q, s)}
                = P \cup {s \in C \cap Board!Stored : Board!Before(s, q)}

\* Where r is answered in the place of q, which was read while C came, it is sorted
\* before q, and so is one of C.
StraysBack(r, q, C) ==
    r # q =>
       /\ r \in Board!Stored /\ q \in Board!Stored /\ Board!Before(r, q)
       /\ \E s \in C \cap Board!Stored : Board!Before(s, q)

MessageOk ==
    /\ message = [pc |-> message.pc, thread |-> message.thread, label |-> message.label,
                  seen |-> message.seen, run |-> message.run, question |-> message.question,
                  coming |-> message.coming]
    /\ message.pc = "sent" /\ message.label # 0 =>
          CardOk(message.thread, message.seen, message.coming, message.label)
    /\ message.pc = "answering" /\ message.label # 0 =>
          StraysBack(message.run, message.seen, message.coming)

AnswersOk ==
    \A a \in answers : /\ a.question = a.picked
                       /\ a.label # 0 => StraysBack(a.run, a.seen, a.coming)

BoardInv == RunsOk /\ NumbersDiffer /\ MessageOk /\ AnswersOk

\* A run that is dated begins its thread, or comes after another that is stored.
Behind(t, root) ==
    \/ t \in Sessions \/ Board!RunsOf(t) # {}
    \/ root /\ \A s \in Runs : run[s].thread # t

\* What a step does to the runs: nothing, or one goes a step further.
Further(r) ==
    \/ /\ run[r].at = "none" /\ UNCHANGED order
       /\ \E t \in ThreadIds \cup {0}, root \in BOOLEAN :
             /\ Behind(t, root)
             /\ run' = [run EXCEPT ![r] = [at |-> "dated", created |-> now, seq |-> 0,
                                           thread |-> t, root |-> root]]
    \/ /\ run[r].at = "dated" /\ order' = order + 1
       /\ run' = [run EXCEPT ![r] = [run[r] EXCEPT !.at = "written", !.seq = order + 1]]
    \/ /\ run[r].at = "written" /\ UNCHANGED order
       /\ run' = [run EXCEPT ![r] = [run[r] EXCEPT !.at = "stored"]]

RunsGo == \/ now' = now /\ (UNCHANGED <<run, order>> \/ \E r \in Runs : Further(r))
          \/ now' = now + 1 /\ UNCHANGED <<run, order>>

LEMMA CountSame == ASSUME NEW S PROVE Board!Cardinality(S) = Cardinality(S)
BY DEF Board!Cardinality, Cardinality, Board!IsFiniteSet, IsFiniteSet

LEMMA DatedGoes ==
    ASSUME NEW r \in Runs, NEW t \in ThreadIds \cup {0}, NEW root \in BOOLEAN,
           Board!Dated(r, t, root), Behind(t, root), UNCHANGED order
    PROVE  Further(r)
BY DEF Board!Dated, Further

\* Where the runs' steps come from.
LEMMA StepsGo ==
    ASSUME RunsOk, [Board!Next]_(Board!vars) PROVE RunsGo
<1>1. ASSUME NEW r \in Runs, NEW t \in ThreadIds,
             Board!create_thread(r, t) \/ Board!start_run(r, t) \/ Board!Delegate(r, t)
      PROVE  RunsGo
  <2>1. /\ now' = now /\ order' = order
        /\ \E root \in BOOLEAN : Board!Dated(r, t, root) /\ Behind(t, root)
    BY <1>1 DEF Board!create_thread, Board!start_run, Board!Delegate, Behind
  <2> QED BY <2>1, DatedGoes DEF RunsGo
<1>2. ASSUME NEW r \in Runs, Board!PutRow(r) \/ Board!PutCommit(r) PROVE RunsGo
  <2>1. CASE Board!PutRow(r)
    <3>1. run' = [run EXCEPT ![r] = [run[r] EXCEPT !.at = "written", !.seq = order + 1]]
      BY <2>1 DEF Board!PutRow, RunsOk
    <3> QED BY <2>1, <3>1 DEF Board!PutRow, RunsGo, Further
  <2>2. CASE Board!PutCommit(r)
    <3>1. run' = [run EXCEPT ![r] = [run[r] EXCEPT !.at = "stored"]]
      BY <2>2 DEF Board!PutCommit, RunsOk
    <3> QED BY <2>2, <3>1 DEF Board!PutCommit, RunsGo, Further
  <2> QED BY <1>2, <2>1, <2>2
<1>3. ASSUME NEW r \in Runs, Board!AskUser(r) \/ Board!QuestionEnds(r) PROVE RunsGo
  BY <1>3 DEF Board!AskUser, Board!QuestionEnds, Board!RunVars, RunsGo
<1>4. ASSUME NEW t \in ThreadIds, Board!Write(t) PROVE RunsGo
  BY <1>4 DEF Board!Write, Board!RunVars, RunsGo
<1>5. CASE Board!Tick \/ Board!answer_question \/ Board!WalkBegin \/ Board!list_threads
           \/ UNCHANGED Board!vars
  BY <1>5 DEF Board!Tick, Board!answer_question, Board!WalkBegin, Board!list_threads, Board!vars,
              Board!RunVars, RunsGo
<1>6. CASE Board!follow_up
  <2>1. now' = now /\ order' = order
        /\ \/ UNCHANGED run
           \/ \E r \in Runs : Board!Dated(r, message.thread, TRUE)
    BY <1>6, Zenon DEF Board!follow_up, Board!Refused
  <2>2. message.thread \in ThreadIds \cup {0} /\ Behind(message.thread, TRUE)
    <3>1. PICK r \in Board!RunsOf(message.thread) : TRUE
      BY <1>6 DEF Board!follow_up, Board!Roots
    <3>2. r \in Runs /\ run[r].thread = message.thread
      BY DEF Board!RunsOf, Board!Stored
    <3> QED BY <3>1, <3>2 DEF RunsOk, RunType, Behind
  <2> QED BY <2>1, <2>2, DatedGoes DEF RunsGo
<1> QED BY <1>1, <1>2, <1>3, <1>4, <1>5, <1>6 DEF Board!Next

LEMMA RunsTyped ==
    ASSUME RunsOk, RunsGo PROVE RunsOk'
<1>1. CASE UNCHANGED <<run, order>>
  <2>1. /\ now' \in Nat /\ now <= now' /\ order' = order /\ run' = run
    BY <1>1, now \in Nat DEF RunsGo, RunsOk
  <2> QED BY <2>1 DEF RunsOk, RunType
<1>2. ASSUME NEW r \in Runs, Further(r), now' = now PROVE RunsOk'
  <2>1. /\ now \in Nat /\ order \in Nat /\ run \in [Runs -> RunType] /\ run[r] \in RunType
        /\ order' \in Nat /\ order' >= order
    BY <1>2 DEF Further, RunsOk
  <2>2. PICK x \in RunType :
           /\ run' = [run EXCEPT ![r] = x] /\ x.created <= now
           /\ x.at \in {"written", "stored"} => x.seq <= order'
    <3>1. CASE run[r].at = "none"
      <4>1. PICK t \in ThreadIds \cup {0}, root \in BOOLEAN :
               run' = [run EXCEPT ![r] = [at |-> "dated", created |-> now, seq |-> 0,
                                          thread |-> t, root |-> root]]
        BY <1>2, <3>1 DEF Further
      <4> DEFINE x == [at |-> "dated", created |-> now, seq |-> 0, thread |-> t, root |-> root]
      <4>2. x \in RunType /\ x.created <= now /\ x.at = "dated"
        BY <2>1 DEF RunType
      <4> QED BY <4>1, <4>2
    <3>2. CASE run[r].at # "none"
      <4>1. run[r].created <= now /\ (run[r].at \in {"written", "stored"} => run[r].seq <= order)
        BY <3>2 DEF RunsOk
      <4>2. CASE run[r].at = "dated"
        <5> DEFINE n == order + 1
                   x == [run[r] EXCEPT !.at = "written", !.seq = n]
        <5>1. n \in Nat /\ order' = n /\ run' = [run EXCEPT ![r] = x]
          BY <1>2, <2>1, <4>2 DEF Further
        <5> HIDE DEF n
        <5>2. x \in RunType /\ x.created = run[r].created /\ x.seq = n
          BY <2>1, <5>1 DEF RunType
        <5> HIDE DEF x
        <5>3. x.created <= now /\ x.seq <= order'
          BY <4>1, <5>1, <5>2
        <5> QED BY <5>1, <5>2, <5>3
      <4>3. CASE run[r].at = "written"
        <5> DEFINE x == [run[r] EXCEPT !.at = "stored"]
        <5>1. order' = order /\ run' = [run EXCEPT ![r] = x]
          BY <1>2, <4>3 DEF Further
        <5>2. x \in RunType /\ x.created = run[r].created /\ x.seq = run[r].seq
          BY <2>1 DEF RunType
        <5> HIDE DEF x
        <5>3. x.created <= now /\ x.seq <= order'
          BY <4>1, <4>3, <5>1, <5>2
        <5> QED BY <5>1, <5>2, <5>3
      <4>4. run[r].at \in {"none", "dated", "written"}
        BY <1>2, Zenon DEF Further
      <4>5. run[r].at = "dated" \/ run[r].at = "written"
        BY <3>2, <4>4
      <4> QED BY <4>2, <4>3, <4>5, Zenon
    <3> QED BY <3>1, <3>2
  <2>3. run' \in [Runs -> RunType] /\ \A s \in Runs : run'[s] = IF s = r THEN x ELSE run[s]
    BY <2>1, <2>2
  <2>4. \A s \in Runs : run'[s].at # "none" => run'[s].created <= now
    BY <2>2, <2>3 DEF RunsOk
  <2>5. \A s \in Runs : run'[s].at \in {"written", "stored"} => run'[s].seq <= order'
    <3> SUFFICES ASSUME NEW s \in Runs, run'[s].at \in {"written", "stored"}
                 PROVE  run'[s].seq <= order'
      OBVIOUS
    <3>1. CASE s = r
      BY <2>2, <2>3, <3>1
    <3>2. CASE s # r
      <4>1. run'[s] = run[s] /\ run[s].seq <= order /\ run[s].seq \in Nat
        BY <2>1, <2>3, <3>2 DEF RunsOk, RunType
      <4> QED BY <2>1, <4>1
    <3> QED BY <3>1, <3>2
  <2> QED BY <1>2, <2>1, <2>3, <2>4, <2>5 DEF RunsOk
<1> QED BY <1>1, <1>2 DEF RunsGo

\* What is stored stays as it is ...
LEMMA StoredSame ==
    ASSUME RunsOk, RunsGo
    PROVE  \A s \in Board!Stored : s \in Board!Stored' /\ run'[s] = run[s]
<1>1. CASE UNCHANGED run
  BY <1>1 DEF Board!Stored
<1>2. ASSUME NEW r \in Runs, Further(r)
      PROVE  \A s \in Board!Stored : s \in Board!Stored' /\ run'[s] = run[s]
  <2>1. r \notin Board!Stored /\ \A s \in Runs \ {r} : run'[s] = run[s]
    BY <1>2 DEF Further, Board!Stored, RunsOk
  <2> QED BY <2>1 DEF Board!Stored
<1> QED BY <1>1, <1>2 DEF RunsGo

\* ... and of the others one goes a step further.
LEMMA OneFurther ==
    ASSUME RunsOk, NEW r \in Runs, Further(r)
    PROVE  /\ run[r] \in RunType /\ run'[r] \in RunType
           /\ \A s \in Runs \ {r} : run'[s] = run[s]
           /\ \/ run[r].at = "none" /\ run'[r].at = "dated" /\ run'[r].created = now
              \/ /\ run[r].at = "dated" /\ run'[r].at = "written" /\ run'[r].seq = order + 1
                 /\ run'[r].created = run[r].created /\ run'[r].thread = run[r].thread
              \/ /\ run[r].at = "written" /\ run'[r].at = "stored" /\ run'[r].seq = run[r].seq
                 /\ run'[r].created = run[r].created /\ run'[r].thread = run[r].thread
<1>1. run \in [Runs -> RunType] /\ run[r] \in RunType /\ order \in Nat /\ now \in Nat
  BY DEF RunsOk
<1>2. CASE run[r].at = "none"
  <2>1. PICK t \in ThreadIds \cup {0}, root \in BOOLEAN :
           run' = [run EXCEPT ![r] = [at |-> "dated", created |-> now, seq |-> 0,
                                      thread |-> t, root |-> root]]
    BY <1>2 DEF Further
  <2> DEFINE x == [at |-> "dated", created |-> now, seq |-> 0, thread |-> t, root |-> root]
  <2>2. x \in RunType /\ x.at = "dated" /\ x.created = now
    BY <1>1 DEF RunType
  <2> QED BY <1>1, <1>2, <2>1, <2>2
<1>3. CASE run[r].at = "dated"
  <2> DEFINE n == order + 1
             x == [run[r] EXCEPT !.at = "written", !.seq = n]
  <2>1. n \in Nat /\ run' = [run EXCEPT ![r] = x]
    BY <1>1, <1>2, <1>3 DEF Further
  <2> HIDE DEF n
  <2>2. /\ x \in RunType /\ x.at = "written" /\ x.seq = n /\ x.created = run[r].created
        /\ x.thread = run[r].thread
    BY <1>1, <2>1 DEF RunType
  <2> HIDE DEF x
  <2>3. run'[r] = x /\ \A s \in Runs \ {r} : run'[s] = run[s]
    BY <1>1, <2>1
  <2> QED BY <1>1, <1>3, <2>2, <2>3 DEF n
<1>4. CASE run[r].at = "written"
  <2> DEFINE x == [run[r] EXCEPT !.at = "stored"]
  <2>1. run' = [run EXCEPT ![r] = x]
    BY <1>1, <1>4 DEF Further
  <2>2. /\ x \in RunType /\ x.at = "stored" /\ x.seq = run[r].seq
        /\ x.created = run[r].created /\ x.thread = run[r].thread
    BY <1>1 DEF RunType
  <2> HIDE DEF x
  <2>3. run'[r] = x /\ \A s \in Runs \ {r} : run'[s] = run[s]
    BY <1>1, <2>1
  <2> QED BY <1>1, <1>4, <2>2, <2>3
<1>5. run[r].at \in {"none", "dated", "written"}
  BY Zenon DEF Further
<1> QED BY <1>2, <1>3, <1>4, <1>5

LEMMA NumbersKeep ==
    ASSUME RunsOk, NumbersDiffer, RunsGo PROVE NumbersDiffer'
<1>1. CASE UNCHANGED run
  BY <1>1 DEF NumbersDiffer
<1>2. ASSUME NEW r \in Runs, Further(r) PROVE NumbersDiffer'
  <2>1. order \in Nat /\ \A s \in Runs : run[s] \in RunType
    BY DEF RunsOk
  <2>2. ASSUME NEW s \in Runs \ {r}, run'[s].at \in {"written", "stored"},
               run'[r].at \in {"written", "stored"}
        PROVE  run'[s].seq # run'[r].seq
    <3>1. run'[s] = run[s] /\ run[s].seq <= order /\ run[s].seq \in Nat
      <4>1. run'[s] = run[s]
        BY <1>2, OneFurther
      <4> QED BY <2>1, <2>2, <4>1 DEF RunsOk, RunType
    <3>2. CASE run'[r].seq = order + 1
      BY <2>1, <3>1, <3>2
    <3>3. CASE run[r].at = "written" /\ run'[r].seq = run[r].seq
      BY <2>2, <3>1, <3>3 DEF NumbersDiffer
    <3> QED BY <1>2, <2>2, <3>2, <3>3, OneFurther
  <2>3. \A s \in Runs \ {r} : run'[s] = run[s]
    BY <1>2, OneFurther
  <2> QED BY <2>2, <2>3 DEF NumbersDiffer
<1> QED BY <1>1, <1>2 DEF RunsGo

\* Runs with different numbers have an order.
LEMMA InOrder ==
    ASSUME RunsOk, NumbersDiffer, NEW r \in Board!Stored, NEW q \in Board!Stored, r # q
    PROVE  /\ Board!Before(r, q) <=> ~Board!Before(q, r)
           /\ ~Board!Before(q, q)
<1>1. /\ r \in Runs /\ q \in Runs /\ run[r].seq # run[q].seq
      /\ run[r].created \in Nat /\ run[r].seq \in Nat
      /\ run[q].created \in Nat /\ run[q].seq \in Nat
  BY DEF Board!Stored, NumbersDiffer, RunsOk, RunType
<1> QED BY <1>1 DEF Board!Before

\* What is on its way after a stored run stays after it, and so does what is dated now ...
LEMMA FollowsStays ==
    ASSUME RunsOk, RunsGo, NEW t, NEW C, NEW q \in Board!RunsOf(t),
           \A s \in Board!OnTheWay \ C : run[s].thread = t => Follows(q, s)
    PROVE  \A s \in Board!OnTheWay' \ C : run'[s].thread = t => Follows(q, s)'
<1>1. /\ q \in Runs /\ q \in Board!Stored /\ run'[q] = run[q] /\ run[q] \in RunType
      /\ run[q].created <= now /\ run[q].seq <= order /\ order \in Nat /\ now \in Nat
  <2>1. q \in Board!Stored
    BY DEF Board!RunsOf
  <2> QED BY <2>1, StoredSame DEF Board!Stored, RunsOk
<1>2. CASE UNCHANGED run
  BY <1>2 DEF Board!OnTheWay, Follows
<1>3. ASSUME NEW r \in Runs, Further(r), NEW s \in Board!OnTheWay' \ C, run'[s].thread = t
      PROVE  Follows(q, s)'
  <2>0. s \in Runs /\ run'[s].at \in {"dated", "written"}
    BY DEF Board!OnTheWay
  <2>1. CASE s # r
    <3>1. run'[s] = run[s]
      BY <1>3, <2>0, <2>1, OneFurther
    <3>2. Follows(q, s)
      BY <1>3, <2>0, <3>1 DEF Board!OnTheWay
    <3> QED BY <1>1, <3>1, <3>2 DEF Follows
  <2>2. CASE s = r /\ run[r].at = "none"
    <3>1. run'[s].created = now /\ run'[s].at = "dated"
      BY <1>3, <2>2, OneFurther
    <3> QED BY <1>1, <3>1 DEF Follows
  <2>3. CASE s = r /\ run[r].at # "none"
    <3>1. /\ run[r].at = "dated" /\ run'[s].seq = order + 1
          /\ run'[s].created = run[s].created /\ run'[s].thread = run[s].thread
      BY <1>3, <2>0, <2>3, OneFurther
    <3>2. run[q].created <= run[s].created
      BY <1>3, <2>0, <2>3, <3>1 DEF Board!OnTheWay, Follows
    <3>3. run[q].seq \in Nat /\ run[q].seq < order + 1
      BY <1>1 DEF RunType
    <3> QED BY <1>1, <3>1, <3>2, <3>3 DEF Follows
  <2> QED BY <2>1, <2>2, <2>3
<1> QED BY <1>2, <1>3 DEF RunsGo

\* ... so that a label moves by the runs that were coming only.
LEMMA CardStays ==
    ASSUME RunsOk, NumbersDiffer, RunsGo, NEW t, NEW q, NEW C, NEW n, CardOk(t, q, C, n)
    PROVE  CardOk(t, q, C, n)'
<1>1. /\ q \in Board!RunsOf(t) /\ q \in Board!Stored /\ run[q].thread = t /\ C \subseteq Runs
      /\ \A s \in C : run[s].at # "none" /\ run[s].thread = t
      /\ \A s \in Board!OnTheWay \ C : run[s].thread = t => Follows(q, s)
  BY DEF CardOk, Board!RunsOf
<1>2. PICK P \in SUBSET Runs :
         /\ Cardinality(P) = n /\ P \cap C = {}
         /\ {s \in Board!RunsOf(t) : ~Board!Before(q, s)}
               = P \cup {s \in C \cap Board!Stored : Board!Before(s, q)}
  BY DEF CardOk
<1>3. \A s \in Board!Stored : s \in Board!Stored' /\ run'[s] = run[s]
  BY StoredSame
<1>4. q \in Board!RunsOf(t)'
  BY <1>1, <1>3 DEF Board!RunsOf
<1>5. \A s \in Board!OnTheWay' \ C : run'[s].thread = t => Follows(q, s)'
  BY <1>1, FollowsStays
<1>6. RunsOk' /\ NumbersDiffer'
  BY RunsTyped, NumbersKeep
<1>7. ASSUME NEW s \in C PROVE run'[s].at # "none" /\ run'[s].thread = t
  <2>1. CASE UNCHANGED run
    BY <1>1, <2>1
  <2>2. ASSUME NEW r \in Runs, Further(r) PROVE run'[s].at # "none" /\ run'[s].thread = t
    <3>1. s \in Runs /\ run[s].at # "none" /\ run[s].thread = t
      BY <1>1
    <3> QED BY <2>2, <3>1, OneFurther
  <2> QED BY <2>1, <2>2 DEF RunsGo
<1>8. ASSUME NEW s \in Board!Stored' \ Board!Stored
      PROVE  /\ Board!Before(s, q)' <=> ~Board!Before(q, s)'
             /\ s \in C \/ run'[s].thread # t \/ Board!Before(q, s)'
  <2>1. PICK r \in Runs : Further(r)
    BY <1>8 DEF RunsGo, Board!Stored
  <2>2. /\ s = r /\ run[s].at = "written" /\ s \in Runs /\ s # q
        /\ run'[s].seq = run[s].seq /\ run'[s].created = run[s].created
        /\ run'[s].thread = run[s].thread
    BY <1>1, <1>8, <2>1, OneFurther DEF Board!Stored
  <2>3. /\ run'[q] = run[q] /\ q \in Runs /\ run'[s].seq # run'[q].seq
        /\ run'[s].created \in Nat /\ run'[s].seq \in Nat
        /\ run'[q].created \in Nat /\ run'[q].seq \in Nat
    BY <1>1, <1>3, <1>6, <1>8, <2>2 DEF Board!Stored, NumbersDiffer, RunsOk, RunType
  <2>4. Board!Before(s, q)' <=> ~Board!Before(q, s)'
    BY <2>3 DEF Board!Before
  <2>5. ASSUME s \notin C, run'[s].thread = t PROVE Board!Before(q, s)'
    <3>1. Follows(q, s)
      BY <1>1, <2>2, <2>5 DEF Board!OnTheWay
    <3> QED BY <2>2, <2>3, <3>1 DEF Follows, Board!Before
  <2> QED BY <2>4, <2>5
<1>9. {s \in Board!RunsOf(t) : ~Board!Before(q, s)}'
         = P \cup {s \in C \cap Board!Stored : Board!Before(s, q)}'
  <2>1. ASSUME NEW s
        PROVE  s \in Board!RunsOf(t)' /\ ~Board!Before(q, s)'
                 <=> s \in P \/ (s \in C /\ s \in Board!Stored' /\ Board!Before(s, q)')
    <3>1. s \in Board!RunsOf(t) /\ ~Board!Before(q, s)
             <=> s \in P \/ (s \in C /\ s \in Board!Stored /\ Board!Before(s, q))
      BY <1>2
    <3>2. CASE s \in Board!Stored
      <4>1. /\ s \in Board!RunsOf(t)' <=> s \in Board!RunsOf(t)
            /\ Board!Before(q, s)' <=> Board!Before(q, s)
            /\ Board!Before(s, q)' <=> Board!Before(s, q)
            /\ s \in Board!Stored'
        BY <1>1, <1>3, <3>2 DEF Board!RunsOf, Board!Before
      <4> QED BY <3>1, <3>2, <4>1
    <3>3. CASE s \notin Board!Stored
      <4>1. s \notin P
        BY <3>1, <3>3 DEF Board!RunsOf
      <4>2. s \in Board!Stored' => (s \in Board!RunsOf(t)' <=> run'[s].thread = t)
        BY DEF Board!RunsOf
      <4>3. s \in Board!RunsOf(t)' => s \in Board!Stored'
        BY DEF Board!RunsOf
      <4> QED BY <1>7, <1>8, <3>3, <4>1, <4>2, <4>3
    <3> QED BY <3>2, <3>3
  <2> QED BY <2>1
<1> QED BY <1>1, <1>2, <1>4, <1>5, <1>7, <1>9 DEF CardOk

\* What strayed, strayed back.
LEMMA StrayStays ==
    ASSUME RunsOk, RunsGo, NEW r, NEW q, NEW C, StraysBack(r, q, C)
    PROVE  StraysBack(r, q, C)'
<1>1. \A s \in Board!Stored : s \in Board!Stored' /\ run'[s] = run[s]
  BY StoredSame
<1> QED BY <1>1 DEF StraysBack, Board!Before

\* Labels rise along the board.
LEMMA LabelsRise ==
    ASSUME BoardConstants, RunsOk, NEW t, NEW a \in Board!RunsOf(t), NEW b \in Board!RunsOf(t),
           Board!Before(a, b)
    PROVE  Board!Label(t, a) < Board!Label(t, b)
<1> DEFINE A == {s \in Board!RunsOf(t) : ~Board!Before(a, s)}
           B == {s \in Board!RunsOf(t) : ~Board!Before(b, s)}
<1>0. \A s \in Board!RunsOf(t) : s \in Runs /\ run[s].created \in Nat /\ run[s].seq \in Nat
  BY DEF Board!RunsOf, Board!Stored, RunsOk, RunType
<1>1. A \subseteq B
  BY <1>0 DEF Board!Before
<1>2. b \in B /\ b \notin A
  BY <1>0 DEF Board!Before
<1>3. IsFiniteSet(B)
  <2>1. B \subseteq Runs
    BY <1>0
  <2> QED BY <2>1, FS_Subset DEF BoardConstants
<1>4. IsFiniteSet(A) /\ Cardinality(A) \in Nat /\ Cardinality(B) \in Nat
  BY <1>1, <1>3, FS_Subset, FS_CardinalityType
<1>5. Cardinality(A) <= Cardinality(B) /\ (Cardinality(A) = Cardinality(B) => A = B)
  BY <1>1, <1>3, FS_Subset
<1>6. Cardinality(A) < Cardinality(B)
  BY <1>2, <1>4, <1>5
<1>7. Board!Label(t, a) = Cardinality(A) /\ Board!Label(t, b) = Cardinality(B)
  BY CountSame DEF Board!Label
<1> QED BY <1>6, <1>7

\* The label of a card moves by the runs that came in before it.
LEMMA LabelMoves ==
    ASSUME BoardConstants, NEW t, NEW q, NEW C, NEW n, CardOk(t, q, C, n)
    PROVE  LET O == {s \in C \cap Board!Stored : Board!Before(s, q)}
           IN  /\ n \in Nat /\ IsFiniteSet(O) /\ Cardinality(O) \in Nat
               /\ Board!Label(t, q) = n + Cardinality(O)
<1> DEFINE O == {s \in C \cap Board!Stored : Board!Before(s, q)}
<1>1. PICK P \in SUBSET Runs :
         /\ Cardinality(P) = n /\ P \cap C = {}
         /\ {s \in Board!RunsOf(t) : ~Board!Before(q, s)} = P \cup O
  BY DEF CardOk
<1>2. O \subseteq Runs /\ P \cap O = {}
  BY <1>1 DEF Board!Stored
<1>3. Board!Label(t, q) = Cardinality(P \cup O)
  BY <1>1, CountSame DEF Board!Label
<1> HIDE DEF O
<1>4. IsFiniteSet(P) /\ IsFiniteSet(O)
  BY <1>2, FS_Subset DEF BoardConstants
<1>5. /\ Cardinality(P) \in Nat /\ Cardinality(O) \in Nat
      /\ Cardinality(P \cup O) = Cardinality(P) + Cardinality(O) - Cardinality(P \cap O)
  BY <1>4, FS_CardinalityType, FS_Union
<1>6. Cardinality(P \cap O) = 0
  BY <1>2, FS_EmptySet
<1> QED BY <1>1, <1>3, <1>4, <1>5, <1>6 DEF O

\* The task a label names is the one whose card had it, or comes before that.
LEMMA LabelFinds ==
    ASSUME BoardConstants, RunsOk, NumbersDiffer, NEW t, NEW q, NEW C, NEW n, CardOk(t, q, C, n),
           NEW r \in Board!RunsOf(t), Board!Label(t, r) = n
    PROVE  StraysBack(r, q, C)
<1> DEFINE O == {s \in C \cap Board!Stored : Board!Before(s, q)}
<1>1. SUFFICES ASSUME r # q
               PROVE  /\ r \in Board!Stored /\ q \in Board!Stored /\ Board!Before(r, q)
                      /\ O # {}
  BY DEF StraysBack
<1>2. r \in Board!Stored /\ q \in Board!RunsOf(t) /\ q \in Board!Stored
  BY DEF CardOk, Board!RunsOf
<1>3. /\ n \in Nat /\ IsFiniteSet(O) /\ Cardinality(O) \in Nat
      /\ Board!Label(t, q) = n + Cardinality(O)
  BY LabelMoves
<1> HIDE DEF O
<1>4. ~(Board!Label(t, q) < Board!Label(t, r))
  BY <1>3
<1>5. Board!Before(r, q)
  <2>1. ~Board!Before(q, r)
    BY <1>2, <1>4, LabelsRise
  <2> QED BY <1>1, <1>2, <2>1, InOrder
<1>6. Board!Label(t, r) < Board!Label(t, q)
  BY <1>2, <1>5, LabelsRise
<1>7. O # {}
  <2>1. O = {} => Cardinality(O) = 0
    BY FS_EmptySet
  <2> QED BY <1>3, <1>6, <2>1
<1> QED BY <1>2, <1>5, <1>7

\* A card that is read has its label.
LEMMA CardRead ==
    ASSUME BoardConstants, RunsOk, NumbersDiffer, NEW t, NEW q \in Board!RunsOf(t)
    PROVE  CardOk(t, q, {s \in Board!OnTheWay : run[s].thread = t}, Board!Label(t, q))
<1> DEFINE C == {s \in Board!OnTheWay : run[s].thread = t}
           P == {s \in Board!RunsOf(t) : ~Board!Before(q, s)}
<1>1. C \subseteq Runs /\ C \cap Board!Stored = {} /\ P \subseteq Board!Stored /\ P \subseteq Runs
  BY DEF Board!OnTheWay, Board!RunsOf, Board!Stored
<1>2. \A s \in C : run[s].at # "none" /\ run[s].thread = t
  BY DEF Board!OnTheWay
<1>3. P \cap C = {} /\ P = P \cup {s \in C \cap Board!Stored : Board!Before(s, q)}
  BY <1>1
<1>4. Cardinality(P) = Board!Label(t, q)
  BY CountSame DEF Board!Label
<1>5. \A s \in Board!OnTheWay \ C : run[s].thread # t
  OBVIOUS
<1> QED BY <1>1, <1>2, <1>3, <1>4, <1>5 DEF CardOk

\* A message under way, and what was answered, while runs are stored.
LEMMA MessageStays ==
    ASSUME RunsOk, NumbersDiffer, MessageOk, RunsGo, UNCHANGED message PROVE MessageOk'
<1>1. PICK t, q, C, n, r : /\ t = message.thread /\ q = message.seen /\ C = message.coming
                           /\ n = message.label /\ r = message.run
  OBVIOUS
<1>2. message.pc = "sent" /\ message.label # 0 => CardOk(t, q, C, n)'
  BY <1>1, CardStays DEF MessageOk
<1>3. message.pc = "answering" /\ message.label # 0 => StraysBack(r, q, C)'
  BY <1>1, StrayStays DEF MessageOk
<1>4. /\ t = message'.thread /\ q = message'.seen /\ C = message'.coming
      /\ n = message'.label /\ r = message'.run
  BY <1>1
<1>5. message'.pc = "sent" /\ message'.label # 0 =>
         CardOk(message.thread, message.seen, message.coming, message.label)'
  BY <1>2, <1>4 DEF CardOk
<1>6. message'.pc = "answering" /\ message'.label # 0 =>
         StraysBack(message.run, message.seen, message.coming)'
  BY <1>3, <1>4 DEF StraysBack
<1> QED BY <1>5, <1>6 DEF MessageOk

LEMMA AnswersStay ==
    ASSUME RunsOk, AnswersOk, RunsGo, UNCHANGED answers PROVE AnswersOk'
<1>1. ASSUME NEW a \in answers, a.label # 0 PROVE StraysBack(a.run, a.seen, a.coming)'
  <2>1. PICK q, C, r : q = a.seen /\ C = a.coming /\ r = a.run
    OBVIOUS
  <2>2. StraysBack(r, q, C)
    BY <1>1, <2>1 DEF AnswersOk
  <2>3. StraysBack(r, q, C)'
    BY <2>2, StrayStays
  <2> QED BY <2>1, <2>3 DEF StraysBack
<1> QED BY <1>1 DEF AnswersOk

LEMMA BoardKeeps ==
    ASSUME BoardConstants, BoardInv, [Board!Next]_(Board!vars) PROVE BoardInv'
<1>1. /\ RunsOk /\ NumbersDiffer /\ MessageOk /\ AnswersOk
      /\ RunsGo /\ RunsOk' /\ NumbersDiffer'
  <2>1. RunsGo
    BY StepsGo DEF BoardInv
  <2> QED BY <2>1, RunsTyped, NumbersKeep DEF BoardInv
<1>2. CASE UNCHANGED <<message, answers>>
  BY <1>1, <1>2, MessageStays, AnswersStay DEF BoardInv
<1>3. ASSUME NEW t \in ThreadIds, Board!Write(t) PROVE BoardInv'
  <2> DEFINE C == {s \in Board!OnTheWay : run[s].thread = t}
  <2>1. PICK card \in Board!waiting_on_user(t) \cup {<<0, 0>>} :
           message' = [Board!NoMessage EXCEPT !.pc = "sent", !.thread = t, !.label = card[1],
                                              !.seen = card[2], !.coming = C]
    BY <1>3 DEF Board!Write
  <2>2. answers' = answers /\ run' = run
    BY <1>3 DEF Board!Write, Board!RunVars
  <2>3. card[1] # 0 => CardOk(t, card[2], C, card[1])
    <3>1. card[1] # 0 => card[2] \in Board!RunsOf(t) /\ card[1] = Board!Label(t, card[2])
      BY <2>1 DEF Board!waiting_on_user
    <3> QED BY <1>1, <3>1, CardRead
  <2> HIDE DEF C
  <2>4. /\ message'.pc = "sent" /\ message'.thread = t /\ message'.label = card[1]
        /\ message'.seen = card[2] /\ message'.coming = C
        /\ message' = [pc |-> message'.pc, thread |-> message'.thread, label |-> message'.label,
                       seen |-> message'.seen, run |-> message'.run,
                       question |-> message'.question, coming |-> message'.coming]
    BY <2>1 DEF Board!NoMessage
  <2>5. message'.label # 0 =>
           CardOk(message.thread, message.seen, message.coming, message.label)'
    BY <2>2, <2>3, <2>4 DEF CardOk, Board!RunsOf, Board!Stored, Board!OnTheWay, Board!Before,
                            Board!Label, Follows
  <2>6. MessageOk'
    BY <2>4, <2>5 DEF MessageOk
  <2> QED BY <1>1, <2>2, <2>6, AnswersStay DEF BoardInv
<1>4. CASE Board!follow_up
  <2>0. AnswersOk'
    BY <1>1, <1>4, AnswersStay DEF Board!follow_up
  <2>1. CASE message' = Board!NoMessage
    <3>1. MessageOk'
      BY <2>1 DEF MessageOk, Board!NoMessage
    <3> QED BY <1>1, <2>0, <3>1 DEF BoardInv
  <2>2. CASE ~(message' = Board!NoMessage)
    <3>1. /\ message.pc = "sent" /\ UNCHANGED run
          /\ \E task \in Board!AddressedTo(Board!waiting_on_user(message.thread)) :
                message' = [message EXCEPT !.pc = "answering", !.run = task[2],
                                           !.question = question[task[2]]]
      BY <1>4, <2>2, Zenon DEF Board!follow_up, Board!Refused
    <3>2. PICK task \in Board!waiting_on_user(message.thread) :
             /\ message.label \in {0, task[1]}
             /\ message' = [message EXCEPT !.pc = "answering", !.run = task[2],
                                           !.question = question[task[2]]]
      BY <3>1 DEF Board!AddressedTo
    <3> DEFINE m == [pc |-> "answering", thread |-> message.thread, label |-> message.label,
                     seen |-> message.seen, run |-> task[2], question |-> question[task[2]],
                     coming |-> message.coming]
    <3>3. message' = m
      BY <1>1, <3>2 DEF MessageOk
    <3>4. /\ message'.pc = "answering" /\ message'.run = task[2]
          /\ message'.label = message.label /\ message'.seen = message.seen
          /\ message'.coming = message.coming
          /\ message' = [pc |-> message'.pc, thread |-> message'.thread,
                         label |-> message'.label, seen |-> message'.seen,
                         run |-> message'.run, question |-> message'.question,
                         coming |-> message'.coming]
      BY <3>3
    <3>5. ASSUME message.label # 0 PROVE StraysBack(task[2], message.seen, message.coming)
      <4>1. PICK t, q, C, n, r : /\ t = message.thread /\ q = message.seen
                                 /\ C = message.coming /\ n = message.label /\ r = task[2]
        OBVIOUS
      <4>2. CardOk(t, q, C, n)
        BY <1>1, <3>1, <3>5, <4>1 DEF MessageOk
      <4>3. r \in Board!RunsOf(t) /\ Board!Label(t, r) = n
        BY <3>2, <3>5, <4>1 DEF Board!waiting_on_user
      <4>4. StraysBack(r, q, C)
        BY <1>1, <4>2, <4>3, LabelFinds
      <4> QED BY <4>1, <4>4
    <3>6. message'.label # 0 => StraysBack(message.run, message.seen, message.coming)'
      BY <3>1, <3>4, <3>5 DEF StraysBack, Board!Stored, Board!Before
    <3>7. MessageOk'
      BY <3>4, <3>6 DEF MessageOk
    <3> QED BY <1>1, <2>0, <3>7 DEF BoardInv
  <2> QED BY <2>1, <2>2
<1>5. CASE Board!answer_question
  <2>1. message' = Board!NoMessage /\ message.pc = "answering" /\ run' = run
    BY <1>5 DEF Board!answer_question, Board!RunVars
  <2>2. MessageOk'
    BY <2>1 DEF MessageOk, Board!NoMessage
  <2>3. CASE UNCHANGED answers
    BY <1>1, <2>2, <2>3, AnswersStay DEF BoardInv
  <2>4. CASE Board!Answered /\ question[message.run] = message.question
    <3> DEFINE b == [run |-> message.run, seen |-> message.seen, label |-> message.label,
                     coming |-> message.coming, picked |-> message.question,
                     question |-> question[message.run]]
    <3>1. answers' = answers \cup {b}
      BY <2>4 DEF Board!Answered
    <3>2. /\ b.question = b.picked
          /\ b.label # 0 => StraysBack(b.run, b.seen, b.coming)
      BY <1>1, <2>1, <2>4 DEF MessageOk
    <3> HIDE DEF b
    <3>3. \A a \in answers' : /\ a.question = a.picked
                              /\ a.label # 0 => StraysBack(a.run, a.seen, a.coming)
      BY <1>1, <3>1, <3>2 DEF AnswersOk
    <3>4. AnswersOk'
      BY <2>1, <3>3 DEF AnswersOk, StraysBack, Board!Stored, Board!Before
    <3> QED BY <1>1, <2>2, <3>4 DEF BoardInv
  <2> QED BY <1>5, <2>3, <2>4 DEF Board!answer_question
<1>6. ASSUME NEW r \in Runs, NEW t \in ThreadIds,
             Board!create_thread(r, t) \/ Board!start_run(r, t) \/ Board!Delegate(r, t)
      PROVE  UNCHANGED <<message, answers>>
  BY <1>6 DEF Board!create_thread, Board!start_run, Board!Delegate, Board!UserVars
<1>7. ASSUME NEW r \in Runs, \/ Board!PutRow(r) \/ Board!PutCommit(r)
                             \/ Board!AskUser(r) \/ Board!QuestionEnds(r)
      PROVE  UNCHANGED <<message, answers>>
  BY <1>7 DEF Board!PutRow, Board!PutCommit, Board!AskUser, Board!QuestionEnds, Board!UserVars
<1>8. CASE Board!Tick \/ Board!WalkBegin \/ Board!list_threads \/ UNCHANGED Board!vars
  <2>1. UNCHANGED <<message, answers>>
    BY <1>8 DEF Board!Tick, Board!WalkBegin, Board!list_threads, Board!vars, Board!UserVars
  <2> QED BY <1>2, <2>1
<1> QED BY <1>2, <1>3, <1>4, <1>5, <1>6, <1>7, <1>8 DEF Board!Next

LEMMA BoardStarts == ASSUME BoardConstants, Board!Init PROVE BoardInv
<1>1. /\ now = 0 /\ order = 0 /\ run = [r \in Runs |-> Board!NotStored]
      /\ message = Board!NoMessage /\ answers = {}
  BY DEF Board!Init
<1>2. Board!NotStored \in RunType /\ Board!NotStored.at = "none"
  BY DEF Board!NotStored, RunType
<1>3. RunsOk
  BY <1>1, <1>2 DEF RunsOk
<1>4. NumbersDiffer
  BY <1>1, <1>2 DEF NumbersDiffer
<1>5. MessageOk /\ AnswersOk
  BY <1>1 DEF MessageOk, AnswersOk, Board!NoMessage
<1> QED BY <1>3, <1>4, <1>5 DEF BoardInv

\* However many runs are stored side by side: while a labelled message is under way, the
\* label of the card its user read moves by exactly the runs that were being stored when
\* it was read (runs_of_thread, queued_events, put_run).
THEOREM LabelsMoveByTheOvertaken ==
    ASSUME BoardConstants
    PROVE  Board!Spec => []Board!LabelsMoveOnlyByOvertaking
<1>1. ASSUME BoardInv PROVE Board!LabelsMoveOnlyByOvertaking
  <2>1. SUFFICES ASSUME message.pc = "sent", message.label # 0
                 PROVE  Board!Label(message.thread, message.seen)
                           = message.label + Board!Cardinality(Board!Overtook(message))
    BY DEF Board!LabelsMoveOnlyByOvertaking
  <2>2. CardOk(message.thread, message.seen, message.coming, message.label)
    BY <1>1, <2>1 DEF BoardInv, MessageOk
  <2>3. PICK t, q, C, n : /\ t = message.thread /\ q = message.seen /\ C = message.coming
                          /\ n = message.label
    OBVIOUS
  <2>4. Board!Label(t, q) = n + Cardinality({s \in C \cap Board!Stored : Board!Before(s, q)})
    BY <2>2, <2>3, LabelMoves
  <2>5. Board!Overtook(message) = {s \in C \cap Board!Stored : Board!Before(s, q)}
    BY <2>3 DEF Board!Overtook
  <2> QED BY <2>3, <2>4, <2>5, CountSame
<1> QED BY BoardStarts, BoardKeeps, <1>1, PTL DEF Board!Spec

\* ... so a labelled message answers the task whose card its user read, or one before it
\* when a run that was being stored then came in before that card; and it answers the
\* question the follow-up picked (follow_up, answer_question).
THEOREM StrayAnswersGoBack ==
    ASSUME BoardConstants
    PROVE  Board!Spec => [](Board!AnswerStraysOnlyBack /\ Board!AnswerFitsQuestion)
<1>1. BoardInv => Board!AnswerStraysOnlyBack /\ Board!AnswerFitsQuestion
  BY DEF BoardInv, AnswersOk, StraysBack, Board!Overtook, Board!AnswerStraysOnlyBack,
         Board!AnswerFitsQuestion
<1> QED BY BoardStarts, BoardKeeps, <1>1, PTL DEF Board!Spec

(***************************************************************************)
(* The listing                                                             *)
(***************************************************************************)
\* Threads are finitely many and the server made them; a page holds one.
PagesConstants ==
    /\ IsFiniteSet(Runs) /\ IsFiniteSet(ThreadIds) /\ ThreadIds \subseteq Nat
    /\ Sessions = {} /\ PageSize \in Nat \ {0}

\* The run that began a thread, and was stored before any other of it was dated.
First(f, t) ==
    /\ run[f].at # "none" /\ run[f].thread = t /\ run[f].root
    /\ \A q \in Runs :
          run[q].at # "none" /\ run[q].thread = t =>
             run[f].created <= run[q].created /\ (q # f => run[f].at = "stored")

EachBegan == \A r \in Runs : run[r].at # "none" => \E f \in Runs : First(f, run[r].thread)

\* What a walk has yet to see comes after all it saw.
WalkOk ==
    /\ walk = [pc |-> walk.pc, seen |-> walk.seen, start |-> walk.start]
    /\ walk.pc \in {"none", "paging", "done"}
    /\ walk.seen \in Seq(ThreadIds) /\ walk.start \subseteq Board!Listed
    /\ walk.pc \in {"paging", "done"} =>
          \A t \in walk.start :
             \/ \E n \in DOMAIN walk.seen : walk.seen[n] = t
             \/ walk.pc = "paging" /\ Board!Place(t) > Len(walk.seen)

PagesInv == RunsOk /\ EachBegan /\ WalkOk

\* A run that is dated keeps its date, its thread and its kind.
LEMMA FurtherKeeps ==
    ASSUME RunsOk, NEW r \in Runs, Further(r), run[r].at # "none"
    PROVE  /\ run'[r].created = run[r].created /\ run'[r].thread = run[r].thread
           /\ run'[r].root = run[r].root /\ run'[r].at # "none" /\ run[r].at # "stored"
<1>0. run \in [Runs -> RunType]
  BY DEF RunsOk
<1>1. run[r].at \in {"none", "dated", "written"}
  BY Zenon DEF Further
<1>2. CASE run[r].at = "dated"
  <2> DEFINE n == order + 1
  <2>1. run' = [run EXCEPT ![r] = [run[r] EXCEPT !.at = "written", !.seq = n]]
    BY <1>2 DEF Further
  <2> HIDE DEF n
  <2> QED BY <1>0, <1>2, <2>1 DEF RunType
<1>3. CASE run[r].at = "written"
  <2>1. run' = [run EXCEPT ![r] = [run[r] EXCEPT !.at = "stored"]]
    BY <1>3 DEF Further
  <2> QED BY <1>0, <1>3, <2>1 DEF RunType
<1> QED BY <1>1, <1>2, <1>3

LEMMA FirstStays ==
    ASSUME RunsOk, RunsGo, Sessions = {}, NEW f \in Runs, NEW t, First(f, t)
    PROVE  First(f, t)'
<1>0. run \in [Runs -> RunType]
  BY DEF RunsOk
<1>1. CASE UNCHANGED run
  BY <1>1 DEF First
<1>2. ASSUME NEW r \in Runs, Further(r) PROVE First(f, t)'
  <2>1. \A s \in Runs \ {r} : run'[s] = run[s]
    BY <1>0, <1>2 DEF Further
  <2>2. run[r].at \in {"none", "dated", "written"}
    BY <1>2, Zenon DEF Further
  <2>3. CASE run[r].at = "none"
    <3>1. PICK u \in ThreadIds \cup {0}, root \in BOOLEAN :
             /\ Behind(u, root)
             /\ run' = [run EXCEPT ![r] = [at |-> "dated", created |-> now, seq |-> 0,
                                           thread |-> u, root |-> root]]
      BY <1>2, <2>3 DEF Further
    <3>2. run'[r].created = now /\ run'[r].thread = u
      BY <1>0, <3>1
    <3>3. f # r /\ run'[f] = run[f] /\ run[f].created <= now
      BY <2>1, <2>3 DEF First, RunsOk
    <3>4. u = t => run[f].at = "stored"
      <4> SUFFICES ASSUME u = t PROVE run[f].at = "stored"
        OBVIOUS
      <4>1. PICK q \in Board!RunsOf(t) : TRUE
        BY <3>1 DEF Behind, First
      <4>2. q \in Runs /\ run[q].at = "stored" /\ run[q].thread = t
        BY <4>1 DEF Board!RunsOf, Board!Stored
      <4> QED BY <4>2 DEF First
    <3> QED BY <2>1, <2>3, <3>2, <3>3, <3>4 DEF First
  <2>4. CASE run[r].at # "none"
    <3>1. /\ run'[r].created = run[r].created /\ run'[r].thread = run[r].thread
          /\ run'[r].root = run[r].root /\ run'[r].at # "none"
      BY <1>2, <2>4, FurtherKeeps
    <3>2. run[r].at # "stored"
      BY <1>2, <2>4, FurtherKeeps
    <3> QED BY <2>1, <2>4, <3>1, <3>2 DEF First
  <2> QED BY <2>3, <2>4
<1> QED BY <1>1, <1>2 DEF RunsGo

LEMMA EachBegins ==
    ASSUME RunsOk, EachBegan, RunsGo, Sessions = {} PROVE EachBegan'
<1>0. run \in [Runs -> RunType]
  BY DEF RunsOk
<1> SUFFICES ASSUME NEW x \in Runs, run'[x].at # "none"
             PROVE  \E f \in Runs : First(f, run[x].thread)'
  BY DEF EachBegan
<1>1. ASSUME NEW q \in Runs, run[q].at # "none", run[q].thread = run'[x].thread
      PROVE  \E f \in Runs : First(f, run[x].thread)'
  <2>1. PICK f \in Runs : First(f, run[q].thread)
    BY <1>1 DEF EachBegan
  <2>2. PICK t : t = run[q].thread
    OBVIOUS
  <2>3. First(f, t)
    BY <2>1, <2>2
  <2>4. First(f, t)'
    BY <2>3, FirstStays
  <2> QED BY <1>1, <2>2, <2>4 DEF First
<1>2. CASE run[x].at # "none" /\ run'[x].thread = run[x].thread
  BY <1>1, <1>2
<1>3. CASE UNCHANGED run
  BY <1>2, <1>3
<1>4. ASSUME NEW r \in Runs, Further(r)
      PROVE  \E f \in Runs : First(f, run[x].thread)'
  <2>1. \A s \in Runs \ {r} : run'[s] = run[s]
    BY <1>0, <1>4 DEF Further
  <2>2. CASE x # r
    BY <1>2, <2>1, <2>2
  <2>3. CASE x = r /\ run[r].at = "none"
    <3>1. PICK u \in ThreadIds \cup {0}, root \in BOOLEAN :
             /\ Behind(u, root)
             /\ run' = [run EXCEPT ![r] = [at |-> "dated", created |-> now, seq |-> 0,
                                           thread |-> u, root |-> root]]
      BY <1>4, <2>3 DEF Further
    <3>2. /\ run'[r].created = now /\ run'[r].thread = u /\ (run'[r].root <=> root)
          /\ run'[r].at = "dated" /\ now \in Nat
      BY <1>0, <3>1 DEF RunsOk
    <3>3. CASE Board!RunsOf(u) # {}
      <4>1. PICK q \in Board!RunsOf(u) : TRUE
        BY <3>3
      <4>2. q \in Runs /\ run[q].at # "none" /\ run[q].thread = u
        BY <4>1 DEF Board!RunsOf, Board!Stored
      <4> QED BY <1>1, <2>3, <3>2, <4>2
    <3>4. CASE root /\ \A s \in Runs : run[s].thread # u
      <4>1. First(r, u)'
        BY <2>1, <3>2, <3>4 DEF First
      <4> QED BY <2>3, <3>2, <4>1 DEF First
    <3> QED BY <3>1, <3>3, <3>4 DEF Behind
  <2>4. CASE x = r /\ run[r].at # "none"
    <3>1. run'[r].thread = run[r].thread
      BY <1>4, <2>4, FurtherKeeps
    <3> QED BY <1>2, <2>4, <3>1
  <2> QED BY <2>2, <2>3, <2>4
<1> QED BY <1>3, <1>4 DEF RunsGo

\* A listed thread began when its first run was dated, and that stays.
LEMMA ListedSince ==
    ASSUME RunsOk, EachBegan, NEW t \in Board!Listed
    PROVE  \E f \in Runs : First(f, t)
<1>1. PICK r \in Board!RunsOf(t) : TRUE
  BY DEF Board!Listed
<1>2. r \in Runs /\ run[r].at # "none" /\ run[r].thread = t
  BY <1>1 DEF Board!RunsOf, Board!Stored
<1> QED BY <1>2 DEF EachBegan

LEMMA StartedIs ==
    ASSUME RunsOk, NEW t \in Board!Listed, NEW f \in Runs, First(f, t)
    PROVE  f \in Board!RunsOf(t) /\ Board!SummaryRow(t).started = run[f].created
<1>1. PICK r \in Board!RunsOf(t) : TRUE
  BY DEF Board!Listed
<1>2. r \in Runs /\ run[r].at = "stored" /\ run[r].thread = t
  BY <1>1 DEF Board!RunsOf, Board!Stored
<1>3. f \in Board!RunsOf(t) /\ f \in Board!Roots(t)
  BY <1>2 DEF First, Board!RunsOf, Board!Stored, Board!Roots
<1>4. \A q \in Board!Roots(t) : run[f].created <= run[q].created
  BY DEF First, Board!Roots, Board!RunsOf, Board!Stored
<1>5. Board!SummaryRow(t).started
        = CHOOSE m \in {run[q].created : q \in Board!Roots(t)} :
             \A s \in Board!Roots(t) : m <= run[s].created
  BY <1>3 DEF Board!SummaryRow
<1>6. \A q \in Board!Roots(t) : run[q].created \in Nat
  BY DEF Board!Roots, Board!RunsOf, Board!Stored, RunsOk, RunType
<1>7. ASSUME NEW m \in {run[q].created : q \in Board!Roots(t)},
             \A s \in Board!Roots(t) : m <= run[s].created
      PROVE  m = run[f].created
  <2>1. PICK q \in Board!Roots(t) : m = run[q].created
    OBVIOUS
  <2> QED BY <1>3, <1>4, <1>6, <1>7, <2>1
<1>8. run[f].created \in {run[q].created : q \in Board!Roots(t)}
  BY <1>3
<1> QED BY <1>3, <1>4, <1>5, <1>7, <1>8

LEMMA StartedAt ==
    ASSUME RunsOk, EachBegan, NEW t \in Board!Listed
    PROVE  Board!SummaryRow(t).started \in Nat
<1>1. PICK f \in Runs : First(f, t)
  BY ListedSince
<1>2. Board!SummaryRow(t).started = run[f].created
  BY <1>1, StartedIs
<1> QED BY <1>2 DEF RunsOk, RunType

\* The listing's order is a total one.
LEMMA NewerOrders ==
    ASSUME PagesConstants, RunsOk, EachBegan
    PROVE  /\ \A a \in Board!Listed : ~Board!Newer(a, a)
           /\ \A a, b, c \in Board!Listed :
                 Board!Newer(a, b) /\ Board!Newer(b, c) => Board!Newer(a, c)
           /\ \A a, b \in Board!Listed : a # b => Board!Newer(a, b) \/ Board!Newer(b, a)
<1> DEFINE began(t) == Board!SummaryRow(t).started
<1>1. \A t \in Board!Listed : began(t) \in Nat /\ t \in Nat
  BY StartedAt DEF PagesConstants, Board!Listed
<1>2. \A a, b : Board!Newer(a, b) <=> began(a) > began(b) \/ (began(a) = began(b) /\ a < b)
  BY DEF Board!Newer
<1> HIDE DEF began
<1> QED BY <1>1, <1>2

LEMMA ListedIsFinite ==
    ASSUME PagesConstants
    PROVE  /\ IsFiniteSet(Board!Listed) /\ Cardinality(Board!Listed) \in Nat
           /\ \A t : Board!Place(t) = Cardinality({u \in Board!Listed : ~Board!Newer(t, u)})
<1>1. Board!Listed \subseteq ThreadIds
  BY DEF Board!Listed
<1>2. IsFiniteSet(Board!Listed)
  BY <1>1, FS_Subset DEF PagesConstants
<1>3. \A t : Board!Place(t) = Cardinality({u \in Board!Listed : ~Board!Newer(t, u)})
  BY CountSame DEF Board!Place
<1> QED BY <1>2, <1>3, FS_CardinalityType

\* Each listed thread has a place, and each place a thread.
LEMMA Places ==
    ASSUME PagesConstants, RunsOk, EachBegan
    PROVE  /\ \A t \in Board!Listed : Board!Place(t) \in 1..Cardinality(Board!Listed)
           /\ \A a, b \in Board!Listed : Board!Place(a) = Board!Place(b) => a = b
           /\ \A n \in 1..Cardinality(Board!Listed) :
                 \E t \in Board!Listed : Board!Place(t) = n
<1> DEFINE L == Board!Listed
           n == Cardinality(L)
           after(t) == {u \in L : ~Board!Newer(t, u)}
           f == [t \in L |-> Board!Place(t)]
<1>1. IsFiniteSet(L) /\ n \in Nat /\ \A t : Board!Place(t) = Cardinality(after(t))
  BY ListedIsFinite
<1>2. /\ \A a \in L : ~Board!Newer(a, a)
      /\ \A a, b, c \in L : Board!Newer(a, b) /\ Board!Newer(b, c) => Board!Newer(a, c)
      /\ \A a, b \in L : a # b => Board!Newer(a, b) \/ Board!Newer(b, a)
  BY NewerOrders
<1> HIDE DEF L
<1>3. ASSUME NEW t \in L PROVE Board!Place(t) \in 1..n
  <2>1. after(t) \in SUBSET L /\ t \in after(t)
    BY <1>2
  <2> HIDE DEF after
  <2>2. IsFiniteSet(after(t)) /\ Cardinality(after(t)) <= n
    BY <1>1, <2>1, FS_Subset
  <2>3. Cardinality(after(t)) \in Nat /\ Cardinality(after(t)) # 0
    BY <2>1, <2>2, FS_EmptySet, FS_CardinalityType
  <2> HIDE DEF n
  <2> QED BY <1>1, <2>2, <2>3
<1>4. ASSUME NEW a \in L, NEW b \in L, Board!Newer(a, b)
      PROVE  Board!Place(a) # Board!Place(b)
  <2>1. after(a) \in SUBSET after(b) /\ b \in after(b) /\ b \notin after(a)
    BY <1>2, <1>4
  <2>2. after(b) \in SUBSET L
    OBVIOUS
  <2> HIDE DEF after
  <2>3. IsFiniteSet(after(b)) /\ after(a) # after(b)
    BY <1>1, <2>1, <2>2, FS_Subset
  <2>4. Cardinality(after(a)) # Cardinality(after(b))
    BY <2>1, <2>3, FS_Subset
  <2> QED BY <1>1, <2>4
<1>5. \A a, b \in L : Board!Place(a) = Board!Place(b) => a = b
  BY <1>2, <1>4
<1>6. f \in Injection(L, 1..n)
  BY <1>3, <1>5 DEF Injection, IsInjective
<1>7. IsFiniteSet(1..n) /\ Cardinality(1..n) = n
  <2> HIDE DEF n
  <2> QED BY <1>1, FS_Interval
<1>8. f \in Surjection(L, 1..n)
  <2> HIDE DEF f
  <2>1. Cardinality(L) = Cardinality(1..n)
    BY <1>7
  <2> QED BY <1>6, <1>7, <2>1, FS_Injection
<1>9. \A i \in 1..n : \E t \in L : f[t] = i
  <2> HIDE DEF n, f
  <2> QED BY <1>8 DEF Surjection
<1>10. \A i \in 1..n : \E t \in L : Board!Place(t) = i
  BY <1>9
<1> QED BY <1>3, <1>5, <1>10 DEF L

LEMMA Listing ==
    ASSUME PagesConstants, RunsOk, EachBegan
    PROVE  /\ Board!threads_of \in Seq(ThreadIds)
           /\ Len(Board!threads_of) = Cardinality(Board!Listed)
           /\ \A t \in Board!Listed : Board!threads_of[Board!Place(t)] = t
<1> DEFINE L == Board!Listed
           n == Cardinality(L)
           at(i) == CHOOSE t \in L : Board!Place(t) = i
<1>1. n \in Nat /\ L \subseteq ThreadIds
  BY ListedIsFinite DEF Board!Listed
<1>2. Board!threads_of = [i \in 1..n |-> at(i)]
  BY CountSame DEF Board!threads_of
<1>3. /\ \A t \in L : Board!Place(t) \in 1..n
      /\ \A a, b \in L : Board!Place(a) = Board!Place(b) => a = b
      /\ \A i \in 1..n : \E t \in L : Board!Place(t) = i
  BY Places
<1> HIDE DEF n, L
<1>4. \A i \in 1..n : at(i) \in L /\ Board!Place(at(i)) = i
  <2> TAKE i \in 1..n
  <2>1. \E t \in L : Board!Place(t) = i
    BY <1>3
  <2> QED BY <2>1
<1> HIDE DEF at
<1>5. Board!threads_of \in Seq(ThreadIds) /\ Len(Board!threads_of) = n
  BY <1>1, <1>2, <1>4
<1>6. \A t \in L : Board!threads_of[Board!Place(t)] = t
  BY <1>2, <1>3, <1>4
<1> QED BY <1>5, <1>6 DEF n, L

StartedByFirst ==
    \A t \in Board!Listed, f \in Runs :
       First(f, t) => Board!SummaryRow(t).started = run[f].created

LEMMA FirstStarts == RunsOk => StartedByFirst
BY StartedIs DEF StartedByFirst

LEMMA FirstStartsNext == RunsOk' => StartedByFirst'
BY FirstStarts, PTL

\* Threads only come in, and before none that was there.
LEMMA PlaceGrows ==
    ASSUME PagesConstants, RunsOk, EachBegan, RunsGo, NEW t \in Board!Listed
    PROVE  /\ t \in Board!Listed'
           /\ Board!Place(t) \in Nat /\ Board!Place(t)' \in Nat /\ Board!Place(t) <= Board!Place(t)'
<1> DEFINE began(u) == Board!SummaryRow(u).started
           A == {u \in Board!Listed : ~Board!Newer(t, u)}
           B == {u \in Board!Listed' : ~Board!Newer(t, u)'}
<1>1. ASSUME NEW u \in Board!Listed
      PROVE  u \in Board!Listed' /\ began(u)' = began(u)
  <2>1. PICK f \in Runs : First(f, u)
    BY ListedSince
  <2>2. PICK q \in Board!RunsOf(u) : TRUE
    BY DEF Board!Listed
  <2>3. u \in Board!Listed'
    BY <2>2, StoredSame DEF Board!RunsOf, Board!Listed
  <2>4. PICK v : v = u
    OBVIOUS
  <2>5. First(f, v)'
    BY <2>1, <2>4, FirstStays DEF PagesConstants
  <2>6. began(v)' = run'[f].created
    BY <2>3, <2>4, <2>5, RunsTyped, FirstStartsNext DEF StartedByFirst
  <2>7. f \in Board!RunsOf(v) /\ began(v) = run[f].created
    BY <2>1, <2>4, StartedIs
  <2>8. run'[f] = run[f]
    BY <2>7, StoredSame DEF Board!RunsOf
  <2> QED BY <2>3, <2>4, <2>6, <2>7, <2>8
<1>2. \A a, b : /\ Board!Newer(a, b) <=> began(a) > began(b) \/ (began(a) = began(b) /\ a < b)
                /\ Board!Newer(a, b)' <=> \/ began(a)' > began(b)'
                                          \/ began(a)' = began(b)' /\ a < b
  BY DEF Board!Newer
<1> HIDE DEF began
<1>3. A \subseteq B
  BY <1>1, <1>2
<1>4. IsFiniteSet(Board!Listed')
  <2>1. Board!Listed' \subseteq ThreadIds
    BY DEF Board!Listed
  <2> QED BY <2>1, FS_Subset DEF PagesConstants
<1>5. B \subseteq Board!Listed'
  OBVIOUS
<1>6. Board!Place(t) = Cardinality(A) /\ Board!Place(t)' = Cardinality(B)
  BY CountSame DEF Board!Place
<1> HIDE DEF A, B
<1>7. IsFiniteSet(B)
  BY <1>4, <1>5, FS_Subset
<1>8. IsFiniteSet(A) /\ Cardinality(A) <= Cardinality(B)
  BY <1>3, <1>7, FS_Subset
<1>9. Cardinality(A) \in Nat /\ Cardinality(B) \in Nat
  BY <1>7, <1>8, FS_CardinalityType
<1> QED BY <1>1, <1>6, <1>8, <1>9

LEMMA WalkStays ==
    ASSUME PagesConstants, PagesInv, RunsGo, UNCHANGED walk PROVE WalkOk'
<1>1. \A t \in Board!Listed :
         /\ t \in Board!Listed'
         /\ Board!Place(t) \in Nat /\ Board!Place(t)' \in Nat /\ Board!Place(t) <= Board!Place(t)'
  BY PlaceGrows DEF PagesInv
<1>2. WalkOk /\ walk.start \subseteq Board!Listed /\ Len(walk.seen) \in Nat
  BY DEF PagesInv, WalkOk
<1>3. walk'.start \subseteq Board!Listed'
  BY <1>1, <1>2
<1>4. ASSUME walk'.pc \in {"paging", "done"}, NEW t \in walk'.start
      PROVE  \/ \E n \in DOMAIN walk'.seen : walk'.seen[n] = t
             \/ walk'.pc = "paging" /\ Board!Place(t)' > Len(walk'.seen)
  <2>1. \/ \E n \in DOMAIN walk.seen : walk.seen[n] = t
        \/ walk.pc = "paging" /\ Board!Place(t) > Len(walk.seen)
    BY <1>2, <1>4 DEF WalkOk
  <2>2. /\ Board!Place(t) \in Nat /\ Board!Place(t)' \in Nat /\ Board!Place(t) <= Board!Place(t)'
    BY <1>1, <1>2, <1>4
  <2>3. CASE Board!Place(t) > Len(walk.seen) /\ walk.pc = "paging"
    <3>1. Board!Place(t)' > Len(walk.seen)
      BY <1>2, <2>2, <2>3
    <3> QED BY <2>3, <3>1
  <2> QED BY <2>1, <2>3
<1> QED BY <1>2, <1>3, <1>4 DEF WalkOk

LEMMA WalkBegins ==
    ASSUME PagesConstants, RunsOk, EachBegan, Board!WalkBegin PROVE WalkOk'
<1>1. /\ walk' = [pc |-> "paging", seen |-> <<>>, start |-> Board!Listed]
      /\ run' = run
  BY DEF Board!WalkBegin, Board!RunVars
<1>2. \A t \in Board!Listed : Board!Place(t) \in 1..Cardinality(Board!Listed)
  BY Places
<1>3. Board!Listed' = Board!Listed /\ \A t : Board!Place(t)' = Board!Place(t)
  BY <1>1 DEF Board!Listed, Board!Place, Board!Newer, Board!SummaryRow, Board!Roots, Board!ByTime,
              Board!RunsOf, Board!Stored
<1>4. Len(<<>>) = 0 /\ <<>> \in Seq(ThreadIds)
  OBVIOUS
<1>5. walk'.pc = "paging" /\ walk'.seen = <<>> /\ walk'.start = Board!Listed
  BY <1>1
<1>6. \A t \in walk'.start : Board!Place(t)' > Len(walk'.seen)
  BY <1>2, <1>3, <1>4, <1>5, ListedIsFinite
<1> QED BY <1>1, <1>3, <1>4, <1>5, <1>6 DEF WalkOk

\* A page holds the threads at the places behind those seen.
LEMMA PageSeen ==
    ASSUME PagesConstants, PagesInv, Board!list_threads PROVE WalkOk'
<1> DEFINE seen == walk.seen
           list == Board!threads_of
           after == Len(seen)
           most == Len(list)
           to == IF after + PageSize < most THEN after + PageSize ELSE most
           page == SubSeq(list, after + 1, to)
           pc == IF Len(page) < PageSize THEN "done" ELSE "paging"
<1>1. /\ walk.pc = "paging" /\ run' = run
      /\ walk' = [walk EXCEPT !.seen = @ \o page, !.pc = IF Len(page) < PageSize THEN "done" ELSE @]
  BY DEF Board!list_threads, Board!RunVars
<1>2. walk' = [pc |-> pc, seen |-> seen \o page, start |-> walk.start]
  BY <1>1, Zenon DEF PagesInv, WalkOk
<1>3. seen \in Seq(ThreadIds) /\ after \in Nat /\ PageSize \in Nat \ {0}
  BY DEF PagesInv, WalkOk, PagesConstants
<1>4. /\ list \in Seq(ThreadIds) /\ most = Cardinality(Board!Listed) /\ most \in Nat
      /\ \A t \in Board!Listed : list[Board!Place(t)] = t /\ Board!Place(t) \in 1..most
  BY Listing, Places DEF PagesInv
<1>5. Board!Listed' = Board!Listed /\ \A t : Board!Place(t)' = Board!Place(t)
  BY <1>1 DEF Board!Listed, Board!Place, Board!Newer, Board!SummaryRow, Board!Roots, Board!ByTime,
              Board!RunsOf, Board!Stored
<1>6. /\ walk.start \subseteq Board!Listed
      /\ \A t \in walk.start : \/ \E n \in DOMAIN seen : seen[n] = t
                               \/ Board!Place(t) > after
  BY <1>1 DEF PagesInv, WalkOk
<1> HIDE DEF seen, list
<1>7. /\ to \in Int /\ after + 1 \in Int /\ to <= most
      /\ \A i \in after + 1..to : list[i] \in ThreadIds
  BY <1>3, <1>4
<1>8. to - (after + 1) + 1 = to - after
  BY <1>3, <1>7
<1> HIDE DEF to
<1>9. /\ page \in Seq(ThreadIds)
      /\ Len(page) = IF after + 1 <= to THEN to - (after + 1) + 1 ELSE 0
      /\ \A i \in 1..to - (after + 1) + 1 : page[i] = list[after + 1 + i - 1]
  BY <1>7, SubSeqProperties
<1>10. /\ Len(page) = IF after + 1 <= to THEN to - after ELSE 0
       /\ \A i \in 1..to - after : page[i] = list[after + 1 + i - 1]
  BY <1>8, <1>9
<1> HIDE DEF page, after, most
<1>11. \A i \in 1..to - after : page[i] = list[after + i]
  <2> SUFFICES ASSUME NEW i \in 1..to - after PROVE page[i] = list[after + i]
    OBVIOUS
  <2>1. after + 1 + i - 1 = after + i
    BY <1>3
  <2> QED BY <1>10, <2>1
<1>12. /\ seen \o page \in Seq(ThreadIds) /\ Len(seen \o page) = after + Len(page)
       /\ DOMAIN (seen \o page) = 1..after + Len(page)
       /\ \A i \in 1..after : (seen \o page)[i] = seen[i]
       /\ \A i \in 1..Len(page) : (seen \o page)[after + i] = page[i]
  BY <1>3, <1>9, ConcatProperties DEF after
<1>13. ASSUME NEW t \in walk.start
       PROVE  \/ \E n \in DOMAIN (seen \o page) : (seen \o page)[n] = t
              \/ pc = "paging" /\ Board!Place(t)' > Len(seen \o page)
  <2>1. CASE \E n \in DOMAIN seen : seen[n] = t
    <3>1. PICK n \in 1..after : seen[n] = t
      BY <1>3, <2>1 DEF after
    <3>2. n \in 1..after + Len(page)
      BY <1>3, <1>9, <3>1
    <3> QED BY <1>12, <3>1, <3>2
  <2>2. CASE Board!Place(t) > after
    <3> DEFINE p == Board!Place(t)
    <3>1. p \in 1..most /\ list[p] = t /\ p > after /\ p' = p
      BY <1>4, <1>5, <1>6, <2>2
    <3> HIDE DEF p
    <3>2. CASE p <= to
      <4>1. p - after \in 1..to - after /\ after + 1 <= to /\ after + (p - after) = p
        BY <1>3, <1>7, <3>1, <3>2
      <4>2. Len(page) = to - after /\ page[p - after] = t
        BY <1>10, <1>11, <3>1, <4>1
      <4>3. (seen \o page)[p] = t /\ p \in 1..after + Len(page)
        BY <1>3, <1>12, <3>1, <4>1, <4>2
      <4> QED BY <1>12, <4>3
    <3>3. CASE p > to
      <4>1. to = after + PageSize /\ to - after = PageSize /\ after + 1 <= to
        BY <1>3, <1>4, <3>1, <3>3 DEF to
      <4>2. Len(page) = PageSize /\ Len(seen \o page) = to
        BY <1>10, <1>12, <4>1
      <4>3. pc = "paging" /\ p' > Len(seen \o page)
        BY <1>3, <3>1, <3>3, <4>2
      <4> QED BY <4>3 DEF p
    <3> QED BY <1>3, <1>7, <3>1, <3>2, <3>3
  <2> QED BY <1>6, <2>1, <2>2
<1> HIDE DEF pc
<1>14. walk'.pc = pc /\ walk'.seen = seen \o page /\ walk'.start = walk.start
  BY <1>2
<1>15. pc \in {"paging", "done"}
  BY DEF pc
<1> QED BY <1>2, <1>5, <1>6, <1>12, <1>13, <1>14, <1>15 DEF WalkOk

LEMMA PagesKeep ==
    ASSUME PagesConstants, PagesInv, [Board!Next]_(Board!vars) PROVE PagesInv'
<1>1. RunsGo /\ RunsOk' /\ EachBegan'
  BY StepsGo, RunsTyped, EachBegins DEF PagesConstants, PagesInv
<1>2. CASE UNCHANGED walk
  BY <1>1, <1>2, WalkStays DEF PagesInv
<1>3. CASE Board!WalkBegin
  BY <1>1, <1>3, WalkBegins DEF PagesInv
<1>4. CASE Board!list_threads
  BY <1>1, <1>4, PageSeen DEF PagesInv
<1>5. ASSUME NEW r \in Runs, NEW t \in ThreadIds,
             Board!create_thread(r, t) \/ Board!start_run(r, t) \/ Board!Delegate(r, t)
      PROVE  UNCHANGED walk
  BY <1>5 DEF Board!create_thread, Board!start_run, Board!Delegate, Board!WalkVars
<1>6. ASSUME NEW r \in Runs, \/ Board!PutRow(r) \/ Board!PutCommit(r)
                             \/ Board!AskUser(r) \/ Board!QuestionEnds(r)
      PROVE  UNCHANGED walk
  BY <1>6 DEF Board!PutRow, Board!PutCommit, Board!AskUser, Board!QuestionEnds, Board!WalkVars
<1>7. ASSUME NEW t \in ThreadIds, Board!Write(t) PROVE UNCHANGED walk
  BY <1>7 DEF Board!Write, Board!WalkVars
<1>8. CASE Board!Tick \/ Board!follow_up \/ Board!answer_question \/ UNCHANGED Board!vars
  <2>1. UNCHANGED walk
    BY <1>8, Zenon DEF Board!Tick, Board!follow_up, Board!answer_question, Board!vars, Board!WalkVars
  <2> QED BY <1>2, <2>1
<1> QED BY <1>2, <1>3, <1>4, <1>5, <1>6, <1>7, <1>8 DEF Board!Next

LEMMA PagesStart == ASSUME PagesConstants, Board!Init PROVE PagesInv
<1>1. /\ now = 0 /\ order = 0 /\ run = [r \in Runs |-> Board!NotStored]
      /\ walk = Board!NoWalk
  BY DEF Board!Init
<1>2. Board!NotStored \in RunType /\ Board!NotStored.at = "none"
  BY DEF Board!NotStored, RunType
<1>3. RunsOk /\ EachBegan
  BY <1>1, <1>2 DEF RunsOk, EachBegan
<1>4. <<>> \in Seq(ThreadIds)
  OBVIOUS
<1>5. WalkOk
  BY <1>1, <1>4 DEF WalkOk, Board!NoWalk
<1> QED BY <1>3, <1>5 DEF PagesInv

\* A client that walks the pages of threads the server made sees every thread
\* that was listed when it began, however many are made and go on meanwhile.
THEOREM WalksMissNothing ==
    ASSUME PagesConstants
    PROVE  Board!Spec => []Board!PagesMissNothing
<1>1. PagesInv => Board!PagesMissNothing
  BY DEF PagesInv, WalkOk, Board!PagesMissNothing
<1> QED BY PagesStart, PagesKeep, <1>1, PTL DEF Board!Spec
=============================================================================
