--------------------------- MODULE StopScopesProofs ---------------------------
(***************************************************************************)
(* That stops are exact, for any lineage of runs, any scopes and any       *)
(* number of requests.                                                     *)
(*                                                                         *)
(* The invariant relates numbers to what was seen: a request numbers its   *)
(* stop above every run it found, a run that began after a stop's answer   *)
(* is numbered above the stop, and the stop of a scope only rises.         *)
(***************************************************************************)
EXTENDS StopScopes, TLAPS

RequestState ==
    [pc : Pcs, scope : Scopes, number : Nat, open : SUBSET Runs, bad : BOOLEAN]

Types ==
    /\ log \in [Runs -> Phases]
    /\ number \in [Runs -> Nat]
    /\ path \in [Runs -> Paths]
    /\ queued \in [Runs -> BOOLEAN]
    /\ trigger \in [enabled : BOOLEAN, generation : Nat]
    /\ read \in [Runs -> Nat]
    /\ order \in Nat
    /\ stops \in [Scopes -> Nat]
    /\ req \in [Requests -> RequestState]
    /\ hist \in [after : [Runs -> SUBSET Requests], seen : [Requests -> SUBSET Runs],
                 fired : [Requests -> SUBSET Runs]]

\* Where a run is, its producer and its log agree.
RunIsPlaced(r) ==
    /\ path[r] \in {"idle", "checked", "refused"} => log[r] = "none"
    /\ path[r] = "putting" <=> log[r] = "writing"
    /\ path[r] \in {"stored", "open", "shut"} => Visible(r)
    /\ path[r] \in {"open", "shut"} => Source[r] = "fire"
    /\ queued[r] => Visible(r)
    /\ path[r] \notin {"idle", "refused"} /\ Parent[r] # NoRun => Visible(Parent[r])

\* A run has its number from the moment its row is written.
RunIsNumbered(r) ==
    /\ number[r] <= order
    /\ path[r] \in {"idle", "checked"} => number[r] = 0
    /\ log[r] # "none" => number[r] # 0

FireHasRead(r) ==
    /\ read[r] <= trigger.generation
    /\ read[r] # 0 => Source[r] = "fire" /\ path[r] # "idle"

RunsOk == \A r \in Runs : RunIsPlaced(r) /\ RunIsNumbered(r) /\ FireHasRead(r)

\* The stop of a scope is that of a request, and a request in the middle of
\* replacing it is the only one and brings a higher number.
StopsAreAsked ==
    \A s \in Scopes : stops[s] # 0 =>
        \E q \in Requests : req[q].scope = s /\ req[q].number = stops[s]

StopsAreNumbered ==
    \A q \in Requests :
        /\ req[q].number <= order
        /\ req[q].pc \in {"idle", "pause", "number"} => req[q].number = 0
        /\ req[q].pc = "commit" => req[q].number > stops[req[q].scope]
        /\ req[q].pc \in {"snapshot", "cancel", "ok"} =>
                req[q].number # 0 /\ req[q].number <= stops[req[q].scope]

OneReplaces ==
    \A p, q \in Requests :
        req[p].pc = "commit" /\ req[q].pc = "commit" /\ req[p].scope = req[q].scope => p = q

StopsOk == StopsAreAsked /\ StopsAreNumbered /\ OneReplaces

\* What a request found was there, with the runs above it, and is numbered
\* below its stop.
SeenOk ==
    \A q \in Requests :
        /\ req[q].pc # "idle" /\ req[q].scope.kind = "run" => Visible(req[q].scope.key)
        /\ \A r \in hist.seen[q] : Visible(r)
        /\ Closed(hist.seen[q])
        /\ req[q].number # 0 => \A r \in hist.seen[q] : number[r] < req[q].number

\* Whether a stop of the scope goes through the run's tree.
About(scope, r) ==
    CASE scope.kind = "run"    -> scope.key \in Chain[r]
      [] scope.kind = "thread" -> scope.key = ThreadOf[r]
      [] scope.kind = "owner"  -> TRUE

\* What a request found and is to cancel is in its snapshot until it is
\* cancelled.
SnapshotOk ==
    \A q \in Requests :
        /\ req[q].pc = "ok" => ~req[q].bad
        /\ \A r \in hist.seen[q] :
            About(req[q].scope, r) /\ log[r] = "queued" =>
                /\ req[q].pc # "ok"
                /\ req[q].pc = "cancel" /\ ~req[q].bad => r \in req[q].open

\* A fire from before a pause that went well: its gate is shut, or it was past
\* it, and then it is numbered below the stop.
FiredOk ==
    \A q \in Requests :
        /\ req[q].pc \in {"idle", "pause"} => hist.fired[q] = {}
        /\ req[q].scope.kind = "owner" /\ ~req[q].bad =>
            \A r \in hist.fired[q] :
                /\ read[r] # 0
                /\ trigger.enabled => trigger.generation > read[r]
                /\ req[q].number # 0 /\ (queued[r] \/ log[r] = "running" \/ path[r] = "open") =>
                        number[r] < req[q].number

\* A request that was answered when a run began names no such run and has a
\* lower number.
AfterOk ==
    \A r \in Runs : \A q \in hist.after[r] :
        /\ q \in Answered
        /\ Parent[r] = NoRun
        /\ path[r] # "idle"
        /\ req[q].scope.kind = "run" => req[q].scope.key # r
        /\ number[r] # 0 => req[q].number < number[r]

Inductive ==
    /\ Types /\ RunsOk /\ StopsOk /\ SeenOk /\ SnapshotOk /\ FiredOk /\ AfterOk
    /\ OnlyCoveredCancelled

-----------------------------------------------------------------------------
(* Lineage. *)

\* A run is in its own chain, the chain stays in its session and in any closed
\* set the run is in, and that of a run with no parent is the run alone.
LEMMA ChainFacts ==
    ASSUME Lineage, NEW r \in Runs
    PROVE  /\ r \in Chain[r] /\ Chain[r] \subseteq Runs
           /\ \A m \in Chain[r] : ThreadOf[m] = ThreadOf[r]
           /\ \A rs \in SUBSET Runs : r \in rs /\ Closed(rs) => Chain[r] \subseteq rs
           /\ Parent[r] = NoRun => Chain[r] = {r}
<1>1. r \in Chain[r] /\ Chain[r] \subseteq Runs
    BY DEF Chain
<1>2. \A rs \in SUBSET Runs : r \in rs /\ Closed(rs) => Chain[r] \subseteq rs
    BY DEF Chain
<1>3. \A m \in Chain[r] : ThreadOf[m] = ThreadOf[r]
    <2> DEFINE T == {m \in Runs : ThreadOf[m] = ThreadOf[r]}
    <2>1. Closed(T)
        BY DEF Closed, Lineage
    <2>2. r \in T
        OBVIOUS
    <2>3. QED
        BY <1>2, <2>1, <2>2
<1>4. ASSUME Parent[r] = NoRun PROVE Chain[r] = {r}
    <2>1. Closed({r})
        BY <1>4 DEF Closed
    <2>2. QED
        BY <1>1, <1>2, <2>1
<1>5. QED
    BY <1>1, <1>2, <1>3, <1>4

\* A stop that is about a run in the chain goes through the run's tree.
LEMMA InScopeIsAbout ==
    ASSUME Lineage, NEW s \in Scopes, NEW r \in Runs, NEW m \in Chain[r], InScope(s, m)
    PROVE  About(s, r)
<1>1. m \in Runs /\ ThreadOf[m] = ThreadOf[r]
    BY ChainFacts
<1>2. s.kind \in {"run", "thread", "owner"}
    BY DEF Lineage
<1>3. QED
    BY <1>1, <1>2 DEF InScope, About

\* A stop that goes through a run's tree names a run in its chain.
LEMMA AboutIsInScope ==
    ASSUME Lineage, NEW s \in Scopes, NEW r \in Runs, About(s, r)
    PROVE  \E m \in Chain[r] : InScope(s, m)
<1>1. r \in Chain[r]
    BY ChainFacts
<1>2. s.kind \in {"run", "thread", "owner"}
    BY DEF Lineage
<1>3. QED
    BY <1>1, <1>2 DEF InScope, About

-----------------------------------------------------------------------------
(* Types. *)

\* A request moves to another place, and may change its other fields.
LEMMA RequestMoves ==
    ASSUME Types, NEW q \in Requests, NEW pc \in Pcs
    PROVE  /\ [req EXCEPT ![q].pc = pc] \in [Requests -> RequestState]
           /\ \A s \in Scopes : [req EXCEPT ![q].pc = pc, ![q].scope = s] \in [Requests -> RequestState]
           /\ \A n \in Nat : [req EXCEPT ![q].pc = pc, ![q].number = n] \in [Requests -> RequestState]
           /\ \A rs \in SUBSET Runs : [req EXCEPT ![q].pc = pc, ![q].open = rs] \in [Requests -> RequestState]
           /\ [req EXCEPT ![q].pc = pc, ![q].bad = TRUE] \in [Requests -> RequestState]
           /\ \A rs \in SUBSET Runs : [req EXCEPT ![q].open = rs] \in [Requests -> RequestState]
           /\ \A rs \in SUBSET Runs : [req EXCEPT ![q].open = rs, ![q].bad = TRUE] \in [Requests -> RequestState]
<1>1. req \in [Requests -> RequestState] /\ req[q] \in RequestState
    BY DEF Types
<1>2. \A e \in RequestState : [req EXCEPT ![q] = e] \in [Requests -> RequestState]
    BY <1>1
<1>3. [req EXCEPT ![q].pc = pc] \in [Requests -> RequestState]
    <2>1. [req[q] EXCEPT !.pc = pc] \in RequestState
        BY <1>1 DEF RequestState
    <2>2. QED
        BY <1>2, <2>1
<1>4. ASSUME NEW s \in Scopes
      PROVE  [req EXCEPT ![q].pc = pc, ![q].scope = s] \in [Requests -> RequestState]
    <2>1. [req[q] EXCEPT !.pc = pc, !.scope = s] \in RequestState
        BY <1>1 DEF RequestState
    <2>2. QED
        BY <1>2, <2>1
<1>5. ASSUME NEW n \in Nat
      PROVE  [req EXCEPT ![q].pc = pc, ![q].number = n] \in [Requests -> RequestState]
    <2>1. [req[q] EXCEPT !.pc = pc, !.number = n] \in RequestState
        BY <1>1 DEF RequestState
    <2>2. QED
        BY <1>2, <2>1
<1>6. ASSUME NEW rs \in SUBSET Runs
      PROVE  [req EXCEPT ![q].pc = pc, ![q].open = rs] \in [Requests -> RequestState]
    <2>1. [req[q] EXCEPT !.pc = pc, !.open = rs] \in RequestState
        BY <1>1 DEF RequestState
    <2>2. QED
        BY <1>2, <2>1
<1>7. [req EXCEPT ![q].pc = pc, ![q].bad = TRUE] \in [Requests -> RequestState]
    <2>1. [req[q] EXCEPT !.pc = pc, !.bad = TRUE] \in RequestState
        BY <1>1 DEF RequestState
    <2>2. QED
        BY <1>2, <2>1
<1>8. ASSUME NEW rs \in SUBSET Runs
      PROVE  [req EXCEPT ![q].open = rs] \in [Requests -> RequestState]
    <2>1. [req[q] EXCEPT !.open = rs] \in RequestState
        BY <1>1 DEF RequestState
    <2>2. QED
        BY <1>2, <2>1
<1>9. ASSUME NEW rs \in SUBSET Runs
      PROVE  [req EXCEPT ![q].open = rs, ![q].bad = TRUE] \in [Requests -> RequestState]
    <2>1. [req[q] EXCEPT !.open = rs, !.bad = TRUE] \in RequestState
        BY <1>1 DEF RequestState
    <2>2. QED
        BY <1>2, <2>1
<1>10. QED
    BY <1>3, <1>4, <1>5, <1>6, <1>7, <1>8, <1>9

\* A step keeps the types.
LEMMA TypesNext ==
    ASSUME Lineage, Types, [Next]_vars
    PROVE  Types'
<1> USE DEF Types, Phases, Paths, Pcs
<1>1. ASSUME NEW r \in Runs, PostBegin(r) PROVE Types'
    BY <1>1 DEF PostBegin, Begins, Answered
<1>2. ASSUME NEW r \in Runs, child_spec(r) PROVE Types'
    BY <1>2 DEF child_spec
<1>3. ASSUME NEW r \in Runs, fire(r) PROVE Types'
    BY <1>3 DEF fire, Begins, Answered
<1>4. ASSUME NEW r \in Runs, Finish(r) PROVE Types'
    BY <1>4 DEF Finish
<1>5. ASSUME NEW r \in Runs, PutRow(r) PROVE Types'
    BY <1>5 DEF PutRow
<1>6. ASSUME NEW r \in Runs, PutCommit(r) PROVE Types'
    BY <1>6 DEF PutCommit
<1>7. ASSUME NEW r \in Runs, Push(r) PROVE Types'
    BY <1>7 DEF Push
<1>8. ASSUME NEW r \in Runs, SettleGate(r) PROVE Types'
    BY <1>8 DEF SettleGate, gate_of
<1>9. ASSUME NEW r \in Runs, settle_fire(r) PROVE Types'
    <2>1. CASE path[r] = "open" /\ queued' = [queued EXCEPT ![r] = TRUE]
                    /\ path' = [path EXCEPT ![r] = "end"] /\ UNCHANGED log
        BY <1>9, <2>1 DEF settle_fire
    <2>2. CASE log' = [log EXCEPT ![r] = "cancelled"] /\ UNCHANGED <<queued, path>>
        BY <1>9, <2>2 DEF settle_fire
    <2>3. QED
        BY <1>9, <2>1, <2>2 DEF settle_fire
<1>10. ASSUME NEW r \in Runs, Claim(r) PROVE Types'
    BY <1>10 DEF Claim
<1>11. ASSUME NEW r \in Runs, Boundary(r) PROVE Types'
    BY <1>11 DEF Boundary
<1>12. ASSUME NEW q \in Requests, NEW s \in Scopes, StopBegin(q, s) PROVE Types'
    BY <1>12, RequestMoves DEF StopBegin
<1>13. ASSUME NEW q \in Requests, pause_triggers(q) PROVE Types'
    <2>1. [req EXCEPT ![q].pc = "number"] \in [Requests -> RequestState]
        BY RequestMoves
    <2>2. [req EXCEPT ![q].pc = "number", ![q].bad = TRUE] \in [Requests -> RequestState]
        BY RequestMoves
    <2>3. req' \in [Requests -> RequestState]
        BY <1>13, <2>1, <2>2 DEF pause_triggers, Step
    <2>4. trigger' \in [enabled : BOOLEAN, generation : Nat]
        BY <1>13 DEF pause_triggers
    <2>5. hist' \in [after : [Runs -> SUBSET Requests], seen : [Requests -> SUBSET Runs],
                     fired : [Requests -> SUBSET Runs]]
        BY <1>13 DEF pause_triggers
    <2>6. QED
        BY <1>13, <2>3, <2>4, <2>5 DEF pause_triggers
<1>14. ASSUME NEW q \in Requests, PutStop(q) PROVE Types'
    <2>1. [req EXCEPT ![q].pc = "failed"] \in [Requests -> RequestState]
        BY RequestMoves
    <2>2. [req EXCEPT ![q].pc = "commit", ![q].number = order + 1] \in [Requests -> RequestState]
        <3>1. order + 1 \in Nat /\ "commit" \in Pcs
            OBVIOUS
        <3>2. QED
            BY <3>1, RequestMoves
    <2>3. order' \in Nat
        BY <1>14 DEF PutStop
    <2>4. \/ req' = [req EXCEPT ![q].pc = "failed"]
          \/ req' = [req EXCEPT ![q].pc = "commit", ![q].number = order + 1]
        BY <1>14, Zenon DEF PutStop, Step
    <2>5. req' \in [Requests -> RequestState]
        BY <2>1, <2>2, <2>4, Zenon
    <2>6. QED
        BY <1>14, <2>3, <2>5 DEF PutStop
<1>15. ASSUME NEW q \in Requests, put_stop(q) PROVE Types'
    <2>1. req' \in [Requests -> RequestState]
        BY <1>15, RequestMoves DEF put_stop, Step
    <2>2. req[q] \in RequestState
        OBVIOUS
    <2>3. QED
        BY <1>15, <2>1, <2>2 DEF put_stop, RequestState
<1>16. ASSUME NEW q \in Requests, StopSnapshot(q) PROVE Types'
    BY <1>16, RequestMoves DEF StopSnapshot, open_runs_under
<1>17. ASSUME NEW q \in Requests, NEW r \in Runs, StopCancel(q, r) PROVE Types'
    <2>1. req' \in [Requests -> RequestState]
        <3>1. req[q] \in RequestState
            OBVIOUS
        <3>2. req[q].open \ {r} \in SUBSET Runs
            BY <3>1 DEF RequestState
        <3>3. [req EXCEPT ![q].open = req[q].open \ {r}] \in [Requests -> RequestState]
            BY <3>2, RequestMoves
        <3>4. [req EXCEPT ![q].open = req[q].open \ {r}, ![q].bad = TRUE] \in [Requests -> RequestState]
            BY <3>2, RequestMoves
        <3>5. QED
            BY <1>17, <3>3, <3>4 DEF StopCancel
    <2>2. QED
        BY <1>17, <2>1 DEF StopCancel
<1>18. ASSUME NEW q \in Requests, StopAnswer(q) PROVE Types'
    BY <1>18, RequestMoves DEF StopAnswer, Step
<1>19. ASSUME NEW q \in Requests, StopDies(q) PROVE Types'
    BY <1>19, RequestMoves DEF StopDies, Step
<1>20. ASSUME Resume PROVE Types'
    BY <1>20 DEF Resume
<1>21. ASSUME UNCHANGED vars PROVE Types'
    BY <1>21 DEF vars
<1>22. QED
    BY <1>1, <1>2, <1>3, <1>4, <1>5, <1>6, <1>7, <1>8, <1>9, <1>10, <1>11, <1>12, <1>13, <1>14,
       <1>15, <1>16, <1>17, <1>18, <1>19, <1>20, <1>21 DEF Next, Produce, Work, Stop

-----------------------------------------------------------------------------
(* Runs: the producer and the log of a run agree, numbers only once given. *)

\* A step keeps each run placed, numbered and in step with its trigger.
LEMMA RunsNext ==
    ASSUME Lineage, Types, RunsOk, [Next]_vars
    PROVE  RunsOk'
<1> USE DEF Types, RunsOk, RunIsPlaced, RunIsNumbered, FireHasRead, Visible, Lineage
<1>1. ASSUME NEW r \in Runs, PostBegin(r) PROVE RunsOk'
    BY <1>1 DEF PostBegin, Step, Begins
<1>2. ASSUME NEW r \in Runs, child_spec(r) PROVE RunsOk'
    BY <1>2 DEF child_spec, Step
<1>3. ASSUME NEW r \in Runs, fire(r) PROVE RunsOk'
    BY <1>3 DEF fire, Step, Begins
<1>4. ASSUME NEW r \in Runs, Finish(r) PROVE RunsOk'
    BY <1>4 DEF Finish, Step
<1>5. ASSUME NEW r \in Runs, PutRow(r) PROVE RunsOk'
    <2>1. \A m \in Runs : RunIsPlaced(m)'
        BY <1>5 DEF PutRow
    <2>2. \A m \in Runs : RunIsNumbered(m)'
        BY <1>5 DEF PutRow
    <2>3. \A m \in Runs : FireHasRead(m)'
        BY <1>5 DEF PutRow
    <2>4. QED
        BY <2>1, <2>2, <2>3
<1>6. ASSUME NEW r \in Runs, PutCommit(r) PROVE RunsOk'
    BY <1>6 DEF PutCommit, Step
<1>7. ASSUME NEW r \in Runs, Push(r) PROVE RunsOk'
    BY <1>7 DEF Push, Step
<1>8. ASSUME NEW r \in Runs, SettleGate(r) PROVE RunsOk'
    BY <1>8 DEF SettleGate, Step, gate_of
<1>9. ASSUME NEW r \in Runs, settle_fire(r) PROVE RunsOk'
    BY <1>9 DEF settle_fire, Step
<1>10. ASSUME NEW r \in Runs, Claim(r) PROVE RunsOk'
    BY <1>10 DEF Claim, Step
<1>11. ASSUME NEW r \in Runs, Boundary(r) PROVE RunsOk'
    BY <1>11 DEF Boundary, Step
<1>12. ASSUME NEW q \in Requests, NEW s \in Scopes, StopBegin(q, s) PROVE RunsOk'
    BY <1>12 DEF StopBegin, Step
<1>13. ASSUME NEW q \in Requests, pause_triggers(q) PROVE RunsOk'
    BY <1>13 DEF pause_triggers, Step
<1>14. ASSUME NEW q \in Requests, PutStop(q) PROVE RunsOk'
    BY <1>14 DEF PutStop, Step
<1>15. ASSUME NEW q \in Requests, put_stop(q) PROVE RunsOk'
    BY <1>15 DEF put_stop, Step
<1>16. ASSUME NEW q \in Requests, StopSnapshot(q) PROVE RunsOk'
    BY <1>16 DEF StopSnapshot, Step
<1>17. ASSUME NEW q \in Requests, NEW r \in Runs, StopCancel(q, r) PROVE RunsOk'
    BY <1>17 DEF StopCancel, Step
<1>18. ASSUME NEW q \in Requests, StopAnswer(q) PROVE RunsOk'
    BY <1>18 DEF StopAnswer, Step
<1>19. ASSUME NEW q \in Requests, StopDies(q) PROVE RunsOk'
    BY <1>19 DEF StopDies, Step
<1>20. ASSUME Resume PROVE RunsOk'
    BY <1>20 DEF Resume, Step
<1>21. ASSUME UNCHANGED vars PROVE RunsOk'
    BY <1>21 DEF vars, Step
<1>22. QED
    BY <1>1, <1>2, <1>3, <1>4, <1>5, <1>6, <1>7, <1>8, <1>9, <1>10, <1>11, <1>12, <1>13, <1>14,
       <1>15, <1>16, <1>17, <1>18, <1>19, <1>20, <1>21 DEF Next, Produce, Work, Stop

\* A run that is visible stays so, keeps its number and does not wait again;
\* stops only rise.
Onward ==
    /\ \A r \in Runs : Visible(r) =>
            /\ Visible(r)' /\ number'[r] = number[r]
            /\ log'[r] = "queued" => log[r] = "queued"
    /\ \A s \in Scopes : stops'[s] >= stops[s]

\* No step goes back on that.
LEMMA GoesOnward ==
    ASSUME Lineage, Types, RunsOk, StopsOk, [Next]_vars
    PROVE  Onward
<1> USE DEF Types, RunsOk, RunIsPlaced, RunIsNumbered, Visible, Onward
<1>1. ASSUME NEW r \in Runs, PostBegin(r) PROVE Onward
    BY <1>1 DEF PostBegin, Step
<1>2. ASSUME NEW r \in Runs, child_spec(r) PROVE Onward
    BY <1>2 DEF child_spec, Step
<1>3. ASSUME NEW r \in Runs, fire(r) PROVE Onward
    BY <1>3 DEF fire, Step
<1>4. ASSUME NEW r \in Runs, Finish(r) PROVE Onward
    BY <1>4 DEF Finish, Step
<1>5. ASSUME NEW r \in Runs, PutRow(r) PROVE Onward
    BY <1>5 DEF PutRow, Step
<1>6. ASSUME NEW r \in Runs, PutCommit(r) PROVE Onward
    BY <1>6 DEF PutCommit, Step
<1>7. ASSUME NEW r \in Runs, Push(r) PROVE Onward
    BY <1>7 DEF Push, Step
<1>8. ASSUME NEW r \in Runs, SettleGate(r) PROVE Onward
    BY <1>8 DEF SettleGate, Step
<1>9. ASSUME NEW r \in Runs, settle_fire(r) PROVE Onward
    BY <1>9 DEF settle_fire, Step
<1>10. ASSUME NEW r \in Runs, Claim(r) PROVE Onward
    BY <1>10 DEF Claim, Step
<1>11. ASSUME NEW r \in Runs, Boundary(r) PROVE Onward
    BY <1>11 DEF Boundary, Step
<1>12. ASSUME NEW q \in Requests, NEW s \in Scopes, StopBegin(q, s) PROVE Onward
    BY <1>12 DEF StopBegin, Step
<1>13. ASSUME NEW q \in Requests, pause_triggers(q) PROVE Onward
    BY <1>13 DEF pause_triggers, Step
<1>14. ASSUME NEW q \in Requests, PutStop(q) PROVE Onward
    BY <1>14 DEF PutStop, Step
<1>15. ASSUME NEW q \in Requests, put_stop(q) PROVE Onward
    <2>1. \A s \in Scopes : stops[s] \in Nat /\ stops'[s] \in {stops[s], req[q].number}
        BY <1>15 DEF put_stop
    <2>2. req[q].number \in Nat /\ req[q].scope \in Scopes /\ req[q].number > stops[req[q].scope]
        BY <1>15 DEF put_stop, StopsOk, StopsAreNumbered, RequestState
    <2>3. \A s \in Scopes : stops'[s] >= stops[s]
        BY <1>15, <2>1, <2>2 DEF put_stop
    <2>4. QED
        BY <1>15, <2>3 DEF put_stop
<1>16. ASSUME NEW q \in Requests, StopSnapshot(q) PROVE Onward
    BY <1>16 DEF StopSnapshot, Step
<1>17. ASSUME NEW q \in Requests, NEW r \in Runs, StopCancel(q, r) PROVE Onward
    BY <1>17 DEF StopCancel, Step
<1>18. ASSUME NEW q \in Requests, StopAnswer(q) PROVE Onward
    BY <1>18 DEF StopAnswer, Step
<1>19. ASSUME NEW q \in Requests, StopDies(q) PROVE Onward
    BY <1>19 DEF StopDies, Step
<1>20. ASSUME Resume PROVE Onward
    BY <1>20 DEF Resume, Step
<1>21. ASSUME UNCHANGED vars PROVE Onward
    BY <1>21 DEF vars, Step
<1>22. QED
    BY <1>1, <1>2, <1>3, <1>4, <1>5, <1>6, <1>7, <1>8, <1>9, <1>10, <1>11, <1>12, <1>13, <1>14,
       <1>15, <1>16, <1>17, <1>18, <1>19, <1>20, <1>21 DEF Next, Produce, Work, Stop

-----------------------------------------------------------------------------
(* Stops: what a step does to its request. *)

Becomes(q, pc, scope, n, open, bad) ==
    /\ \A p \in Requests : p # q => req'[p] = req[p]
    /\ req'[q].pc = pc /\ req'[q].scope = scope /\ req'[q].number = n
    /\ req'[q].open = open /\ req'[q].bad = bad

\* Another place, the rest as it was.
Goes(q, pc) == Becomes(q, pc, req[q].scope, req[q].number, req[q].open, req[q].bad)

\* All that is needed of the types of stops.
Numbers ==
    /\ order \in Nat
    /\ \A s \in Scopes : stops[s] \in Nat
    /\ stops = [s \in Scopes |-> stops[s]]
    /\ \A q \in Requests : req[q].number \in Nat /\ req[q].scope \in Scopes

\* A step to another place changes nothing else of the request.
LEMMA StepGoes ==
    ASSUME Types, NEW q \in Requests, NEW pc, Step(q, pc)
    PROVE  Goes(q, pc)
BY DEF Types, RequestState, Step, Goes, Becomes

\* A request takes its scope; an owner's pauses the triggers first.
LEMMA BeginGoes ==
    ASSUME Types, NEW q \in Requests, NEW s \in Scopes, StopBegin(q, s)
    PROVE  Becomes(q, IF s.kind = "owner" THEN "pause" ELSE "number", s, req[q].number,
                   req[q].open, req[q].bad)
BY DEF Types, RequestState, StopBegin, Becomes

\* The triggers are paused, or the request remembers that it failed.
LEMMA PauseGoes ==
    ASSUME Types, NEW q \in Requests, pause_triggers(q)
    PROVE  \/ Goes(q, "number") /\ trigger'.enabled = FALSE /\ trigger'.generation = trigger.generation
           \/ /\ Becomes(q, "number", req[q].scope, req[q].number, req[q].open, TRUE)
              /\ trigger' = trigger
BY DEF Types, RequestState, pause_triggers, Step, Goes, Becomes

\* The stop takes the next number, where no other is replacing the scope's.
LEMMA PutStopGoes ==
    ASSUME Types, NEW q \in Requests, PutStop(q)
    PROVE  \/ /\ Becomes(q, "commit", req[q].scope, order + 1, req[q].open, req[q].bad)
              /\ order' = order + 1
              /\ \A p \in Requests : req[p].pc = "commit" => req[p].scope # req[q].scope
           \/ Goes(q, "failed") /\ order' = order
<1>1. CASE /\ \A p \in Requests : req[p].pc = "commit" => req[p].scope # req[q].scope
           /\ order' = order + 1
           /\ req' = [req EXCEPT ![q].pc = "commit", ![q].number = order + 1]
    BY <1>1 DEF Types, RequestState, Becomes
<1>2. CASE Step(q, "failed") /\ order' = order
    BY <1>2, StepGoes
<1>3. QED
    BY <1>1, <1>2 DEF PutStop

\* The request keeps the waiting runs it found.
LEMMA SnapshotGoes ==
    ASSUME Types, NEW q \in Requests, StopSnapshot(q)
    PROVE  Becomes(q, "cancel", req[q].scope, req[q].number,
                   {r \in open_runs_under(req[q].scope) : log[r] = "queued"}, req[q].bad)
BY DEF Types, RequestState, StopSnapshot, Becomes

\* One run is taken off the snapshot, cancelled or not.
LEMMA CancelGoes ==
    ASSUME Types, NEW q \in Requests, NEW r \in Runs, StopCancel(q, r)
    PROVE  \/ /\ Becomes(q, req[q].pc, req[q].scope, req[q].number, req[q].open \ {r}, req[q].bad)
              /\ log' = [log EXCEPT ![r] = IF @ = "queued" /\ stopped(r) THEN "cancelled" ELSE @]
           \/ /\ Becomes(q, req[q].pc, req[q].scope, req[q].number, req[q].open \ {r}, TRUE)
              /\ log' = log
<1>1. CASE /\ req' = [req EXCEPT ![q].open = @ \ {r}]
           /\ log' = [log EXCEPT ![r] = IF @ = "queued" /\ stopped(r) THEN "cancelled" ELSE @]
    BY <1>1 DEF Types, RequestState, Becomes
<1>2. CASE req' = [req EXCEPT ![q].open = @ \ {r}, ![q].bad = TRUE] /\ log' = log
    BY <1>2 DEF Types, RequestState, Becomes
<1>3. QED
    BY <1>1, <1>2 DEF StopCancel

-----------------------------------------------------------------------------
(* Steps of runs, and steps of requests. *)

RunsMove ==
    \/ \E r \in Runs : PostBegin(r) \/ child_spec(r) \/ fire(r) \/ Finish(r)
    \/ \E r \in Runs : Produce(r) \/ Work(r)
    \/ Resume
    \/ UNCHANGED vars

\* Each step is a run's or a request's.
LEMMA WhoMoves ==
    ASSUME [Next]_vars
    PROVE  \/ RunsMove
           \/ \E q \in Requests, s \in Scopes : StopBegin(q, s)
           \/ \E q \in Requests :
                \/ pause_triggers(q) \/ PutStop(q) \/ put_stop(q) \/ StopSnapshot(q)
                \/ \E r \in Runs : StopCancel(q, r)
                \/ StopAnswer(q) \/ StopDies(q)
BY Zenon DEF Next, RunsMove, Stop

\* The runs leave the requests and their stops alone.
RequestsStay ==
    /\ req' = req /\ stops' = stops /\ order' \in {order, order + 1}
    /\ hist'.seen = hist.seen /\ hist'.fired = hist.fired

\* No step of a run is seen in a request.
LEMMA RunsLeaveRequests ==
    ASSUME Types, RunsMove
    PROVE  RequestsStay
<1> USE DEF RequestsStay
<1>1. ASSUME NEW r \in Runs, PostBegin(r) PROVE RequestsStay
    BY <1>1 DEF PostBegin, Begins, Types
<1>2. ASSUME NEW r \in Runs, child_spec(r) PROVE RequestsStay
    BY <1>2 DEF child_spec
<1>3. ASSUME NEW r \in Runs, fire(r) PROVE RequestsStay
    BY <1>3 DEF fire, Begins, Types
<1>4. ASSUME NEW r \in Runs, Finish(r) PROVE RequestsStay
    BY <1>4 DEF Finish
<1>5. ASSUME NEW r \in Runs, PutRow(r) PROVE RequestsStay
    BY <1>5 DEF PutRow
<1>6. ASSUME NEW r \in Runs, PutCommit(r) PROVE RequestsStay
    BY <1>6 DEF PutCommit
<1>7. ASSUME NEW r \in Runs, Push(r) PROVE RequestsStay
    BY <1>7 DEF Push
<1>8. ASSUME NEW r \in Runs, SettleGate(r) PROVE RequestsStay
    BY <1>8 DEF SettleGate
<1>9. ASSUME NEW r \in Runs, settle_fire(r) PROVE RequestsStay
    BY <1>9 DEF settle_fire
<1>10. ASSUME NEW r \in Runs, Claim(r) PROVE RequestsStay
    BY <1>10 DEF Claim
<1>11. ASSUME NEW r \in Runs, Boundary(r) PROVE RequestsStay
    BY <1>11 DEF Boundary
<1>12. ASSUME Resume PROVE RequestsStay
    BY <1>12 DEF Resume
<1>13. ASSUME UNCHANGED vars PROVE RequestsStay
    BY <1>13 DEF vars
<1>14. QED
    BY <1>1, <1>2, <1>3, <1>4, <1>5, <1>6, <1>7, <1>8, <1>9, <1>10, <1>11, <1>12, <1>13 DEF
       RunsMove, Produce, Work

\* A request that moves without a new number and keeps what holds of it where
\* it goes to.
LEMMA StopsKept ==
    ASSUME Numbers, StopsOk, NEW q \in Requests, NEW pc, NEW open, NEW bad,
           Becomes(q, pc, req[q].scope, req[q].number, open, bad), UNCHANGED <<stops, order>>,
           pc # "commit",
           pc \in {"idle", "pause", "number"} => req[q].number = 0,
           pc \in {"snapshot", "cancel", "ok"} =>
                req[q].number # 0 /\ req[q].number <= stops[req[q].scope]
    PROVE  StopsOk'
<1> USE DEF Numbers, StopsOk, Becomes
<1>1. \A p \in Requests : req'[p].scope = req[p].scope /\ req'[p].number = req[p].number
    OBVIOUS
<1>2. StopsAreAsked'
    BY <1>1 DEF StopsAreAsked
<1>3. StopsAreNumbered'
    BY DEF StopsAreNumbered
<1>4. OneReplaces'
    BY DEF OneReplaces
<1>5. QED
    BY <1>2, <1>3, <1>4

\* A step keeps the numbers of stops in order.
LEMMA StopsNext ==
    ASSUME Types, StopsOk, [Next]_vars
    PROVE  StopsOk'
<1>a. Numbers
    BY DEF Types, RequestState, Numbers
<1>b. \A s \in Scopes : stops[s] <= order
    BY <1>a DEF Numbers, StopsOk, StopsAreAsked, StopsAreNumbered
<1>1. CASE RunsMove
    <2>1. RequestsStay
        BY <1>1, RunsLeaveRequests
    <2>2. QED
        BY <1>a, <2>1 DEF RequestsStay, Numbers, StopsOk, StopsAreAsked, StopsAreNumbered, OneReplaces
<1>2. ASSUME NEW q \in Requests, NEW s \in Scopes, StopBegin(q, s) PROVE StopsOk'
    <2>1. req[q].pc = "idle" /\ UNCHANGED <<order, stops>>
        BY <1>2 DEF StopBegin
    <2>2. Becomes(q, IF s.kind = "owner" THEN "pause" ELSE "number", s, req[q].number,
                  req[q].open, req[q].bad)
        BY <1>2, BeginGoes
    <2>3. req[q].number = 0
        BY <2>1 DEF StopsOk, StopsAreNumbered
    <2>4. StopsAreAsked'
        BY <1>a, <2>1, <2>2, <2>3 DEF StopsOk, StopsAreAsked, Becomes, Numbers
    <2>5. StopsAreNumbered'
        BY <1>a, <2>1, <2>2, <2>3 DEF StopsOk, StopsAreNumbered, Becomes, Numbers
    <2>6. OneReplaces'
        BY <2>1, <2>2 DEF StopsOk, OneReplaces, Becomes
    <2>7. QED
        BY <2>4, <2>5, <2>6 DEF StopsOk
<1>3. ASSUME NEW q \in Requests, pause_triggers(q) PROVE StopsOk'
    <2>1. req[q].pc = "pause" /\ UNCHANGED <<order, stops>>
        BY <1>3 DEF pause_triggers
    <2>2. PICK bad \in BOOLEAN : Becomes(q, "number", req[q].scope, req[q].number, req[q].open, bad)
        BY <1>3, PauseGoes DEF Goes, Types, RequestState
    <2>3. req[q].number = 0
        BY <2>1 DEF StopsOk, StopsAreNumbered
    <2>4. QED
        BY <1>a, <2>1, <2>2, <2>3, StopsKept
<1>4. ASSUME NEW q \in Requests, PutStop(q) PROVE StopsOk'
    <2>1. req[q].pc = "number" /\ UNCHANGED stops
        BY <1>4 DEF PutStop
    <2>2. CASE Goes(q, "failed") /\ order' = order
        BY <1>a, <2>1, <2>2, StopsKept DEF Goes
    <2>3. CASE /\ Becomes(q, "commit", req[q].scope, order + 1, req[q].open, req[q].bad)
               /\ order' = order + 1
               /\ \A p \in Requests : req[p].pc = "commit" => req[p].scope # req[q].scope
        <3>1. req[q].number = 0
            BY <2>1 DEF StopsOk, StopsAreNumbered
        <3>2. StopsAreAsked'
            BY <1>a, <2>1, <2>3, <3>1 DEF StopsOk, StopsAreAsked, Becomes, Numbers
        <3>3. StopsAreNumbered'
            BY <1>a, <1>b, <2>1, <2>3 DEF StopsOk, StopsAreNumbered, Becomes, Numbers
        <3>4. OneReplaces'
            BY <2>1, <2>3 DEF StopsOk, OneReplaces, Becomes
        <3>5. QED
            BY <3>2, <3>3, <3>4 DEF StopsOk
    <2>4. QED
        BY <1>4, <2>2, <2>3, PutStopGoes
<1>5. ASSUME NEW q \in Requests, put_stop(q) PROVE StopsOk'
    <2>1. /\ req[q].pc = "commit" /\ UNCHANGED order
          /\ stops' = [stops EXCEPT ![req[q].scope] = req[q].number]
        BY <1>5 DEF put_stop
    <2>2. Becomes(q, "snapshot", req[q].scope, req[q].number, req[q].open, req[q].bad)
        BY <1>5, StepGoes DEF put_stop, Goes
    <2>3. \A s \in Scopes : stops'[s] = IF s = req[q].scope THEN req[q].number ELSE stops[s]
        BY <1>a, <2>1 DEF Numbers
    <2>4. req[q].number > stops[req[q].scope] /\ req[q].number # 0
        BY <1>a, <2>1 DEF StopsOk, StopsAreNumbered, Numbers
    <2>5. StopsAreAsked'
        BY <1>a, <2>2, <2>3 DEF StopsOk, StopsAreAsked, Becomes, Numbers
    <2>6. StopsAreNumbered'
        <3> SUFFICES ASSUME NEW p \in Requests
                     PROVE  /\ req'[p].number <= order'
                            /\ req'[p].pc \in {"idle", "pause", "number"} => req'[p].number = 0
                            /\ req'[p].pc = "commit" => req'[p].number > stops'[req'[p].scope]
                            /\ req'[p].pc \in {"snapshot", "cancel", "ok"} =>
                                    req'[p].number # 0 /\ req'[p].number <= stops'[req'[p].scope]
            BY DEF StopsAreNumbered
        <3>1. CASE p = q
            BY <1>a, <2>1, <2>2, <2>3, <2>4, <3>1 DEF StopsOk, StopsAreNumbered, Becomes, Numbers
        <3>2. CASE p # q
            <4>1. req'[p] = req[p]
                BY <2>2, <3>2 DEF Becomes
            <4>2. req[p].pc = "commit" => req[p].scope # req[q].scope
                BY <2>1, <3>2 DEF StopsOk, OneReplaces
            <4>3. QED
                BY <1>a, <2>1, <2>3, <2>4, <4>1, <4>2 DEF StopsOk, StopsAreNumbered, Numbers
        <3>3. QED
            BY <3>1, <3>2
    <2>7. OneReplaces'
        BY <2>2 DEF StopsOk, OneReplaces, Becomes
    <2>8. QED
        BY <2>5, <2>6, <2>7 DEF StopsOk
<1>6. ASSUME NEW q \in Requests, StopSnapshot(q) PROVE StopsOk'
    <2>1. req[q].pc = "snapshot" /\ UNCHANGED <<order, stops>>
        BY <1>6 DEF StopSnapshot
    <2>2. req[q].number # 0 /\ req[q].number <= stops[req[q].scope]
        BY <2>1 DEF StopsOk, StopsAreNumbered
    <2>3. QED
        <3>1. PICK open : Becomes(q, "cancel", req[q].scope, req[q].number, open, req[q].bad)
            BY <1>6, SnapshotGoes, Zenon
        <3>2. QED
            BY <1>a, <2>1, <2>2, <3>1, StopsKept
<1>7. ASSUME NEW q \in Requests, NEW r \in Runs, StopCancel(q, r) PROVE StopsOk'
    <2>1. req[q].pc = "cancel" /\ UNCHANGED <<order, stops>>
        BY <1>7 DEF StopCancel
    <2>2. req[q].number # 0 /\ req[q].number <= stops[req[q].scope]
        BY <2>1 DEF StopsOk, StopsAreNumbered
    <2>3. PICK bad : Becomes(q, req[q].pc, req[q].scope, req[q].number, req[q].open \ {r}, bad)
        BY <1>7, CancelGoes, Zenon
    <2>4. QED
        BY <1>a, <2>1, <2>2, <2>3, StopsKept
<1>8. ASSUME NEW q \in Requests, StopAnswer(q) PROVE StopsOk'
    <2>1. req[q].pc = "cancel" /\ UNCHANGED <<order, stops>>
        BY <1>8 DEF StopAnswer
    <2>2. req[q].number # 0 /\ req[q].number <= stops[req[q].scope]
        BY <2>1 DEF StopsOk, StopsAreNumbered
    <2>3. PICK pc \in {"ok", "failed"} : Goes(q, pc)
        BY <1>8, StepGoes DEF StopAnswer
    <2>4. QED
        BY <1>a, <2>1, <2>2, <2>3, StopsKept DEF Goes
<1>9. ASSUME NEW q \in Requests, StopDies(q) PROVE StopsOk'
    <2>1. UNCHANGED <<order, stops>> /\ Goes(q, "dead")
        BY <1>9, StepGoes DEF StopDies
    <2>2. QED
        BY <1>a, <2>1, StopsKept DEF Goes
<1>10. QED
    BY <1>1, <1>2, <1>3, <1>4, <1>5, <1>6, <1>7, <1>8, <1>9, WhoMoves

-----------------------------------------------------------------------------
(* What requests found. *)

\* Requests keep their scopes and numbers.
Carries ==
    \A q \in Requests :
        /\ req'[q].scope = req[q].scope /\ req'[q].number = req[q].number
        /\ req'[q].pc # "idle" => req[q].pc # "idle"

\* A request that is under way keeps its scope and its number.
LEMMA RequestsCarry ==
    ASSUME Types, NEW q \in Requests,
           \/ pause_triggers(q) \/ put_stop(q) \/ StopSnapshot(q)
           \/ \E r \in Runs : StopCancel(q, r)
           \/ StopAnswer(q) \/ StopDies(q)
    PROVE  Carries /\ hist'.seen = hist.seen
<1>1. CASE pause_triggers(q)
    <2>1. PICK bad : Becomes(q, "number", req[q].scope, req[q].number, req[q].open, bad)
        BY <1>1, PauseGoes, Zenon DEF Goes
    <2>2. req[q].pc # "idle" /\ hist'.seen = hist.seen
        BY <1>1 DEF pause_triggers, Types
    <2>3. QED
        BY <2>1, <2>2 DEF Becomes, Carries
<1>2. CASE put_stop(q)
    <2>1. req[q].pc # "idle" /\ hist'.seen = hist.seen /\ Goes(q, "snapshot")
        BY <1>2, StepGoes DEF put_stop
    <2>2. QED
        BY <2>1 DEF Goes, Becomes, Carries
<1>3. CASE StopSnapshot(q)
    <2>1. PICK open : Becomes(q, "cancel", req[q].scope, req[q].number, open, req[q].bad)
        BY <1>3, SnapshotGoes, Zenon
    <2>2. req[q].pc # "idle" /\ hist'.seen = hist.seen
        BY <1>3 DEF StopSnapshot
    <2>3. QED
        BY <2>1, <2>2 DEF Becomes, Carries
<1>4. ASSUME NEW r \in Runs, StopCancel(q, r) PROVE Carries /\ hist'.seen = hist.seen
    <2>1. PICK bad : Becomes(q, req[q].pc, req[q].scope, req[q].number, req[q].open \ {r}, bad)
        BY <1>4, CancelGoes, Zenon
    <2>2. req[q].pc # "idle" /\ hist'.seen = hist.seen
        BY <1>4 DEF StopCancel
    <2>3. QED
        BY <2>1, <2>2 DEF Becomes, Carries
<1>5. CASE StopAnswer(q)
    <2>1. req[q].pc # "idle" /\ hist'.seen = hist.seen
        BY <1>5 DEF StopAnswer
    <2>2. PICK pc : Goes(q, pc)
        BY <1>5, StepGoes, Zenon DEF StopAnswer
    <2>3. QED
        BY <2>1, <2>2 DEF Goes, Becomes, Carries
<1>6. CASE StopDies(q)
    <2>1. req[q].pc # "idle" /\ hist'.seen = hist.seen /\ Goes(q, "dead")
        BY <1>6, StepGoes DEF StopDies
    <2>2. QED
        BY <2>1 DEF Goes, Becomes, Carries
<1>7. QED
    BY <1>1, <1>2, <1>3, <1>4, <1>5, <1>6

\* Then what it found stays found.
LEMMA SeenKept ==
    ASSUME Lineage, Types, SeenOk, Onward, Carries, hist'.seen = hist.seen
    PROVE  SeenOk'
<1>1. hist.seen \in [Requests -> SUBSET Runs] /\ \A q \in Requests : req[q].scope \in Scopes
    BY DEF Types, RequestState
<1>2. \A s \in Scopes : s.kind = "run" => s.key \in Runs
    BY DEF Lineage
<1>3. QED
    BY <1>1, <1>2 DEF SeenOk, Onward, Carries, Visible, Closed

\* A step keeps what requests found below their numbers.
LEMMA SeenNext ==
    ASSUME Lineage, Types, RunsOk, StopsOk, SeenOk, [Next]_vars
    PROVE  SeenOk'
<1>a. Onward
    BY GoesOnward
<1>b. hist.seen \in [Requests -> SUBSET Runs] /\ \A q \in Requests : req[q].scope \in Scopes
    BY DEF Types, RequestState
<1>c. \A s \in Scopes : s.kind = "run" => s.key \in Runs
    BY DEF Lineage
<1>1. CASE RunsMove
    <2>1. Carries /\ hist'.seen = hist.seen
        BY <1>1, RunsLeaveRequests DEF RequestsStay, Carries
    <2>2. QED
        BY <1>a, <2>1, SeenKept
<1>2. ASSUME NEW q \in Requests, NEW s \in Scopes, StopBegin(q, s) PROVE SeenOk'
    <2>1. req[q].pc = "idle" /\ Found(s) /\ UNCHANGED <<log, number>>
        BY <1>2 DEF StopBegin
    <2>2. PICK pc : Becomes(q, pc, s, req[q].number, req[q].open, req[q].bad)
        BY <1>2, BeginGoes, Zenon
    <2>3. req[q].number = 0
        BY <2>1 DEF StopsOk, StopsAreNumbered
    <2>4. \A p \in Requests : hist'.seen[p] = IF p = q THEN {r \in Runs : Visible(r)} ELSE hist.seen[p]
        BY <1>2 DEF StopBegin, Types
    <2>5. s.kind = "run" => Visible(s.key)
        BY <2>1 DEF Found
    <2>6. Closed({r \in Runs : Visible(r)})
        <3>1. \A r \in Runs : Visible(r) /\ Parent[r] # NoRun => Visible(Parent[r]) /\ Parent[r] \in Runs
            BY DEF RunsOk, RunIsPlaced, Visible, Lineage, Types
        <3>2. QED
            BY <3>1 DEF Closed
    <2>7. ASSUME NEW p \in Requests
          PROVE  /\ req'[p].pc # "idle" /\ req'[p].scope.kind = "run" => Visible(req[p].scope.key)'
                 /\ \A r \in hist'.seen[p] : Visible(r)'
                 /\ Closed(hist.seen[p])'
                 /\ req'[p].number # 0 => \A r \in hist'.seen[p] : number'[r] < req'[p].number
        <3>1. CASE p = q
            <4>1. req'[p].scope = s /\ req'[p].number = 0 /\ hist'.seen[p] = {r \in Runs : Visible(r)}
                BY <2>2, <2>3, <2>4, <3>1 DEF Becomes
            <4>2. Closed(hist.seen[p])'
                BY <2>6, <4>1 DEF Closed
            <4>3. QED
                BY <2>1, <2>5, <4>1, <4>2 DEF Visible
        <3>2. CASE p # q
            <4>1. req'[p] = req[p] /\ hist'.seen[p] = hist.seen[p]
                BY <2>2, <2>4, <3>2 DEF Becomes
            <4>2. QED
                BY <2>1, <4>1 DEF SeenOk, Visible, Closed
        <3>3. QED
            BY <3>1, <3>2
    <2>8. QED
        BY <2>7 DEF SeenOk
<1>3. ASSUME NEW q \in Requests, PutStop(q) PROVE SeenOk'
    <2>1. req[q].pc = "number" /\ UNCHANGED <<log, number, hist>>
        BY <1>3 DEF PutStop
    <2>2. CASE Goes(q, "failed")
        <3>1. Carries
            BY <2>1, <2>2 DEF Goes, Becomes, Carries
        <3>2. QED
            BY <1>a, <2>1, <3>1, SeenKept
    <2>3. CASE Becomes(q, "commit", req[q].scope, order + 1, req[q].open, req[q].bad)
        <3>1. \A r \in Runs : number[r] < order + 1
            BY DEF Types, RunsOk, RunIsNumbered
        <3>2. \A p \in Requests : req'[p].scope = req[p].scope /\ (req'[p].pc # "idle" => req[p].pc # "idle")
            BY <2>1, <2>3 DEF Becomes
        <3>3. \A p \in Requests : req'[p].number # 0 => \A r \in hist.seen[p] : number[r] < req'[p].number
            BY <1>b, <2>3, <3>1 DEF Becomes, SeenOk
        <3>4. QED
            BY <1>b, <1>c, <2>1, <3>2, <3>3 DEF SeenOk, Visible, Closed
    <2>4. QED
        BY <1>3, <2>2, <2>3, PutStopGoes
<1>4. ASSUME NEW q \in Requests,
             \/ pause_triggers(q) \/ put_stop(q) \/ StopSnapshot(q)
             \/ \E r \in Runs : StopCancel(q, r)
             \/ StopAnswer(q) \/ StopDies(q)
      PROVE  SeenOk'
    BY <1>a, <1>4, RequestsCarry, SeenKept
<1>5. QED
    BY <1>1, <1>2, <1>3, <1>4, WhoMoves
-----------------------------------------------------------------------------
(* What a recorded stop covers. *)

\* A recorded stop covers what its request found and everything under it.
LEMMA RecordedCovers ==
    ASSUME Lineage, Types, RunsOk, StopsOk, SeenOk
    PROVE  CoversWhatWasThere
<1> SUFFICES ASSUME NEW q \in Requests, NEW r \in Runs, req[q].pc \in {"snapshot", "cancel", "ok"},
                    NEW m \in Chain[r] \cap hist.seen[q], InScope(req[q].scope, m)
             PROVE  stopped(r)
    BY DEF CoversWhatWasThere
<1>1. req[q].scope \in Scopes /\ m \in Runs /\ m \in Chain[r]
    BY ChainFacts DEF Types, RequestState
<1>2. Visible(m) /\ (req[q].number # 0 => number[m] < req[q].number)
    BY DEF SeenOk
<1>3. req[q].number # 0 /\ req[q].number <= stops[req[q].scope]
    BY DEF StopsOk, StopsAreNumbered
<1>4. req[q].number \in Nat /\ stops[req[q].scope] \in Nat /\ number[m] \in Nat
    BY <1>1 DEF Types, RequestState
<1>5. stops[req[q].scope] # 0 /\ stops[req[q].scope] > number[m]
    BY <1>2, <1>3, <1>4
<1>6. QED
    BY <1>1, <1>2, <1>5 DEF stopped, stop_names

\* What a request found and its stop is about has a run of the scope above it
\* that the request found too.
LEMMA FoundIsCovered ==
    ASSUME Lineage, Types, RunsOk, StopsOk, SeenOk,
           NEW q \in Requests, NEW r \in hist.seen[q],
           req[q].pc \in {"snapshot", "cancel", "ok"}, About(req[q].scope, r)
    PROVE  stopped(r)
<1>1. req[q].scope \in Scopes /\ hist.seen[q] \in SUBSET Runs
    BY DEF Types, RequestState
<1>2. PICK m \in Chain[r] : InScope(req[q].scope, m)
    BY <1>1, AboutIsInScope
<1>3. Closed(hist.seen[q]) /\ Visible(r)
    BY DEF SeenOk
<1>4. m \in hist.seen[q]
    BY <1>1, <1>3, ChainFacts
<1>5. QED
    BY <1>1, <1>2, <1>3, <1>4, RecordedCovers DEF CoversWhatWasThere

\* A covered run stays covered.
LEMMA StoppedStays ==
    ASSUME Lineage, Types, Onward, NEW r \in Runs, stopped(r), [Next]_vars
    PROVE  stopped(r)'
<1>1. PICK m \in Chain[r], s \in Scopes :
          Visible(m) /\ stops[s] # 0 /\ stop_names(s, stops[s], m)
    BY DEF stopped
<1>2. m \in Runs
    BY ChainFacts
<1>3. Visible(m)' /\ number'[m] = number[m] /\ stops'[s] >= stops[s]
    BY <1>1, <1>2 DEF Onward
<1>4. stops[s] \in Nat /\ stops'[s] \in Nat /\ number[m] \in Nat
    BY <1>2, TypesNext DEF Types
<1>5. stops'[s] # 0 /\ (s.kind # "run" => stops'[s] > number'[m])
    BY <1>1, <1>3, <1>4 DEF stop_names
<1>6. QED
    BY <1>1, <1>3, <1>5 DEF stopped, stop_names

\* A run is cancelled where a stop covers it or its gate is shut.
LEMMA CancelledNext ==
    ASSUME Lineage, Types, RunsOk, StopsOk, OnlyCoveredCancelled, [Next]_vars
    PROVE  OnlyCoveredCancelled'
<1> USE DEF Types, OnlyCoveredCancelled
<1>a. \A r \in Runs : stopped(r) => stopped(r)'
    BY GoesOnward, StoppedStays
<1>1. ASSUME NEW r \in Runs, PostBegin(r) PROVE OnlyCoveredCancelled'
    BY <1>1, <1>a DEF PostBegin
<1>2. ASSUME NEW r \in Runs, child_spec(r) PROVE OnlyCoveredCancelled'
    BY <1>2, <1>a DEF child_spec
<1>3. ASSUME NEW r \in Runs, fire(r) PROVE OnlyCoveredCancelled'
    BY <1>3, <1>a DEF fire
<1>4. ASSUME NEW r \in Runs, Finish(r) PROVE OnlyCoveredCancelled'
    BY <1>4, <1>a DEF Finish
<1>5. ASSUME NEW r \in Runs, PutRow(r) PROVE OnlyCoveredCancelled'
    BY <1>5, <1>a DEF PutRow
<1>6. ASSUME NEW r \in Runs, PutCommit(r) PROVE OnlyCoveredCancelled'
    BY <1>6, <1>a DEF PutCommit
<1>7. ASSUME NEW r \in Runs, Push(r) PROVE OnlyCoveredCancelled'
    BY <1>7, <1>a DEF Push
<1>8. ASSUME NEW r \in Runs, SettleGate(r) PROVE OnlyCoveredCancelled'
    BY <1>8, <1>a DEF SettleGate
<1>9. ASSUME NEW r \in Runs, settle_fire(r) PROVE OnlyCoveredCancelled'
    BY <1>9, <1>a DEF settle_fire, RunsOk, RunIsPlaced
<1>10. ASSUME NEW r \in Runs, Claim(r) PROVE OnlyCoveredCancelled'
    BY <1>10, <1>a DEF Claim
<1>11. ASSUME NEW r \in Runs, Boundary(r) PROVE OnlyCoveredCancelled'
    BY <1>11, <1>a DEF Boundary
<1>12. ASSUME NEW q \in Requests, NEW s \in Scopes, StopBegin(q, s) PROVE OnlyCoveredCancelled'
    BY <1>12, <1>a DEF StopBegin
<1>13. ASSUME NEW q \in Requests, pause_triggers(q) PROVE OnlyCoveredCancelled'
    BY <1>13, <1>a DEF pause_triggers
<1>14. ASSUME NEW q \in Requests, PutStop(q) PROVE OnlyCoveredCancelled'
    BY <1>14, <1>a DEF PutStop
<1>15. ASSUME NEW q \in Requests, put_stop(q) PROVE OnlyCoveredCancelled'
    BY <1>15, <1>a DEF put_stop
<1>16. ASSUME NEW q \in Requests, StopSnapshot(q) PROVE OnlyCoveredCancelled'
    BY <1>16, <1>a DEF StopSnapshot
<1>17. ASSUME NEW q \in Requests, NEW r \in Runs, StopCancel(q, r) PROVE OnlyCoveredCancelled'
    BY <1>17, <1>a DEF StopCancel, RequestState
<1>18. ASSUME NEW q \in Requests, StopAnswer(q) PROVE OnlyCoveredCancelled'
    BY <1>18, <1>a DEF StopAnswer
<1>19. ASSUME NEW q \in Requests, StopDies(q) PROVE OnlyCoveredCancelled'
    BY <1>19, <1>a DEF StopDies
<1>20. ASSUME Resume PROVE OnlyCoveredCancelled'
    BY <1>20, <1>a DEF Resume
<1>21. ASSUME UNCHANGED vars PROVE OnlyCoveredCancelled'
    BY <1>21, <1>a DEF vars
<1>22. QED
    BY <1>1, <1>2, <1>3, <1>4, <1>5, <1>6, <1>7, <1>8, <1>9, <1>10, <1>11, <1>12, <1>13, <1>14,
       <1>15, <1>16, <1>17, <1>18, <1>19, <1>20, <1>21 DEF Next, Produce, Work, Stop

\* A step keeps what a request is to cancel in its snapshot until it has.
LEMMA SnapshotNext ==
    ASSUME Lineage, Types, RunsOk, StopsOk, SeenOk, SnapshotOk, [Next]_vars
    PROVE  SnapshotOk'
<1> DEFINE Waits(p, r) == About(req[p].scope, r) /\ log[r] = "queued"
           Held(p) == /\ req[p].pc = "ok" => ~req[p].bad
                      /\ \A r \in hist.seen[p] : Waits(p, r) =>
                            /\ req[p].pc # "ok"
                            /\ req[p].pc = "cancel" /\ ~req[p].bad => r \in req[p].open
<1>a. Onward
    BY GoesOnward
<1>b. \A p \in Requests : Held(p)
    BY DEF SnapshotOk
<1>c. SUFFICES \A p \in Requests : Held(p)'
    BY DEF SnapshotOk
<1>d. \A p \in Requests : \A r \in hist.seen[p] :
          r \in Runs /\ (log'[r] = "queued" => log[r] = "queued")
    BY <1>a DEF Types, SeenOk, Onward
\* A request that does not move keeps what it has.
<1>e. ASSUME NEW p \in Requests, req'[p] = req[p], hist'.seen[p] = hist.seen[p]
      PROVE  Held(p)'
    BY <1>b, <1>d, <1>e
\* Nor does one that goes to where nothing is asked of it.
<1>f. ASSUME NEW q \in Requests, NEW pc, NEW scope, NEW n, NEW open, NEW bad,
             Becomes(q, pc, scope, n, open, bad), pc \notin {"cancel", "ok"},
             \A p \in Requests : p # q => hist'.seen[p] = hist.seen[p]
      PROVE  \A p \in Requests : Held(p)'
    <2>1. Held(q)'
        BY <1>f DEF Becomes
    <2>2. \A p \in Requests : p # q => Held(p)'
        BY <1>e, <1>f DEF Becomes
    <2>3. QED
        BY <2>1, <2>2
<1> HIDE DEF Held
<1>1. CASE RunsMove
    BY <1>1, <1>e, RunsLeaveRequests DEF RequestsStay
<1>2. ASSUME NEW q \in Requests, NEW s \in Scopes, StopBegin(q, s)
      PROVE  \A p \in Requests : Held(p)'
    <2>1. \A p \in Requests : p # q => hist'.seen[p] = hist.seen[p]
        BY <1>2 DEF StopBegin, Types
    <2>2. PICK pc : Becomes(q, pc, s, req[q].number, req[q].open, req[q].bad) /\ pc \in {"pause", "number"}
        BY <1>2, BeginGoes
    <2>3. QED
        BY <1>f, <2>1, <2>2
<1>3. ASSUME NEW q \in Requests, pause_triggers(q)
      PROVE  \A p \in Requests : Held(p)'
    <2>1. hist'.seen = hist.seen
        BY <1>3, RequestsCarry
    <2>2. PICK bad : Becomes(q, "number", req[q].scope, req[q].number, req[q].open, bad)
        BY <1>3, PauseGoes, Zenon DEF Goes
    <2>3. QED
        BY <1>f, <2>1, <2>2
<1>4. ASSUME NEW q \in Requests, PutStop(q)
      PROVE  \A p \in Requests : Held(p)'
    <2>1. hist'.seen = hist.seen
        BY <1>4 DEF PutStop
    <2>2. PICK pc, n : /\ pc \in {"commit", "failed"}
                       /\ Becomes(q, pc, req[q].scope, n, req[q].open, req[q].bad)
        BY <1>4, PutStopGoes DEF Goes
    <2>3. QED
        BY <1>f, <2>1, <2>2
<1>5. ASSUME NEW q \in Requests, put_stop(q)
      PROVE  \A p \in Requests : Held(p)'
    <2>1. hist'.seen = hist.seen /\ Goes(q, "snapshot")
        BY <1>5, StepGoes DEF put_stop
    <2>2. QED
        BY <1>f, <2>1 DEF Goes
<1>6. ASSUME NEW q \in Requests, StopSnapshot(q)
      PROVE  \A p \in Requests : Held(p)'
    <2>1. req[q].pc = "snapshot" /\ UNCHANGED <<log, hist>>
        BY <1>6 DEF StopSnapshot
    <2>2. Becomes(q, "cancel", req[q].scope, req[q].number,
                  {r \in open_runs_under(req[q].scope) : log[r] = "queued"}, req[q].bad)
        BY <1>6, SnapshotGoes
    <2>3. \A r \in Runs : About(req[q].scope, r) /\ log[r] = "queued" => r \in open_runs_under(req[q].scope)
        BY DEF About, open_runs_under, Types
    <2>4. Held(q)'
        BY <1>d, <2>1, <2>2, <2>3 DEF Becomes, Held
    <2>5. \A p \in Requests : p # q => Held(p)'
        BY <1>e, <2>1, <2>2 DEF Becomes
    <2>6. QED
        BY <2>4, <2>5
<1>7. ASSUME NEW q \in Requests, NEW r \in Runs, StopCancel(q, r)
      PROVE  \A p \in Requests : Held(p)'
    <2>1. req[q].pc = "cancel" /\ hist' = hist
        BY <1>7 DEF StopCancel
    <2>2. \A p \in Requests : p # q => Held(p)'
        BY <1>7, <1>e, <2>1, CancelGoes DEF Becomes
    <2>3. CASE /\ Becomes(q, req[q].pc, req[q].scope, req[q].number, req[q].open \ {r}, req[q].bad)
               /\ log' = [log EXCEPT ![r] = IF @ = "queued" /\ stopped(r) THEN "cancelled" ELSE @]
        <3>1. r \in hist.seen[q] /\ About(req[q].scope, r) => log'[r] # "queued"
            BY <2>1, <2>3, FoundIsCovered DEF Types
        <3>2. Held(q)'
            BY <1>b, <1>d, <2>1, <2>3, <3>1 DEF Becomes, Held
        <3>3. QED
            BY <2>2, <3>2
    <2>4. CASE Becomes(q, req[q].pc, req[q].scope, req[q].number, req[q].open \ {r}, TRUE)
        <3>1. req'[q].bad = TRUE /\ req'[q].pc = "cancel"
            BY <2>1, <2>4 DEF Becomes
        <3>2. req'[q].pc # "ok"
            BY <3>1
        <3>3. Held(q)'
            BY <3>1, <3>2 DEF Held
        <3>4. QED
            BY <2>2, <3>3
    <2>5. QED
        BY <1>7, <2>2, <2>3, <2>4, CancelGoes
<1>8. ASSUME NEW q \in Requests, StopAnswer(q)
      PROVE  \A p \in Requests : Held(p)'
    <2>1. /\ req[q].pc = "cancel" /\ req[q].open = {} /\ UNCHANGED <<log, hist>>
          /\ Goes(q, IF req[q].bad THEN "failed" ELSE "ok")
        BY <1>8, StepGoes DEF StopAnswer
    <2>2. Held(q)'
        BY <1>b, <1>d, <2>1 DEF Goes, Becomes, Held
    <2>3. \A p \in Requests : p # q => Held(p)'
        BY <1>e, <2>1 DEF Goes, Becomes
    <2>4. QED
        BY <2>2, <2>3
<1>9. ASSUME NEW q \in Requests, StopDies(q)
      PROVE  \A p \in Requests : Held(p)'
    <2>1. hist'.seen = hist.seen /\ Goes(q, "dead")
        BY <1>9, StepGoes DEF StopDies
    <2>2. QED
        BY <1>f, <2>1 DEF Goes
<1>10. QED
    BY <1>1, <1>2, <1>3, <1>4, <1>5, <1>6, <1>7, <1>8, <1>9, WhoMoves
-----------------------------------------------------------------------------
(* What came before and after a stop. *)

\* A request that was answered moves no more.
LEMMA AnsweredRest ==
    ASSUME Types, [Next]_vars
    PROVE  /\ \A p \in Answered : req'[p] = req[p]
           /\ Answered \subseteq Answered'
<1> SUFFICES \A p \in Answered : req'[p] = req[p]
    BY DEF Answered
<1>a. \A p \in Answered : p \in Requests /\ req[p].pc \in {"ok", "failed", "dead"}
    BY DEF Answered
<1>1. CASE RunsMove
    BY <1>1, RunsLeaveRequests DEF RequestsStay
<1>2. ASSUME NEW q \in Requests, NEW pc, NEW scope, NEW n, NEW open, NEW bad,
             Becomes(q, pc, scope, n, open, bad), q \notin Answered
      PROVE  \A p \in Answered : req'[p] = req[p]
    BY <1>a, <1>2 DEF Becomes
<1>3. ASSUME NEW q \in Requests, NEW s \in Scopes, StopBegin(q, s)
      PROVE  \A p \in Answered : req'[p] = req[p]
    <2>1. q \notin Answered
        BY <1>a, <1>3 DEF StopBegin
    <2>2. QED
        BY <1>2, <1>3, <2>1, BeginGoes
<1>4. ASSUME NEW q \in Requests, pause_triggers(q) PROVE \A p \in Answered : req'[p] = req[p]
    <2>1. q \notin Answered
        BY <1>a, <1>4 DEF pause_triggers
    <2>2. PICK bad : Becomes(q, "number", req[q].scope, req[q].number, req[q].open, bad)
        BY <1>4, PauseGoes, Zenon DEF Goes
    <2>3. QED
        BY <1>2, <2>1, <2>2
<1>5. ASSUME NEW q \in Requests, PutStop(q) PROVE \A p \in Answered : req'[p] = req[p]
    <2>1. q \notin Answered
        BY <1>a, <1>5 DEF PutStop
    <2>2. PICK pc, n : Becomes(q, pc, req[q].scope, n, req[q].open, req[q].bad)
        BY <1>5, PutStopGoes, Zenon DEF Goes
    <2>3. QED
        BY <1>2, <2>1, <2>2
<1>6. ASSUME NEW q \in Requests, put_stop(q) PROVE \A p \in Answered : req'[p] = req[p]
    <2>1. q \notin Answered /\ Goes(q, "snapshot")
        BY <1>a, <1>6, StepGoes DEF put_stop
    <2>2. QED
        BY <1>2, <2>1 DEF Goes
<1>7. ASSUME NEW q \in Requests, StopSnapshot(q) PROVE \A p \in Answered : req'[p] = req[p]
    <2>1. q \notin Answered
        BY <1>a, <1>7 DEF StopSnapshot
    <2>2. PICK open : Becomes(q, "cancel", req[q].scope, req[q].number, open, req[q].bad)
        BY <1>7, SnapshotGoes, Zenon
    <2>3. QED
        BY <1>2, <2>1, <2>2
<1>8. ASSUME NEW q \in Requests, NEW r \in Runs, StopCancel(q, r)
      PROVE  \A p \in Answered : req'[p] = req[p]
    <2>1. q \notin Answered
        BY <1>a, <1>8 DEF StopCancel
    <2>2. PICK bad : Becomes(q, req[q].pc, req[q].scope, req[q].number, req[q].open \ {r}, bad)
        BY <1>8, CancelGoes, Zenon
    <2>3. QED
        BY <1>2, <2>1, <2>2
<1>9. ASSUME NEW q \in Requests, StopAnswer(q) PROVE \A p \in Answered : req'[p] = req[p]
    <2>1. q \notin Answered
        BY <1>a, <1>9 DEF StopAnswer
    <2>2. PICK pc : Goes(q, pc)
        BY <1>9, StepGoes, Zenon DEF StopAnswer
    <2>3. QED
        BY <1>2, <2>1, <2>2 DEF Goes
<1>10. ASSUME NEW q \in Requests, StopDies(q) PROVE \A p \in Answered : req'[p] = req[p]
    <2>1. q \notin Answered /\ Goes(q, "dead")
        BY <1>a, <1>10, StepGoes DEF StopDies
    <2>2. QED
        BY <1>2, <2>1 DEF Goes
<1>11. QED
    BY <1>1, <1>3, <1>4, <1>5, <1>6, <1>7, <1>8, <1>9, <1>10, WhoMoves

\* Runs that have begun keep what was answered before them, and their numbers
\* once given.
BegunStay ==
    \A r \in Runs :
        /\ hist'.after[r] # hist.after[r] =>
                /\ path[r] = "idle" /\ path'[r] # "idle" /\ number'[r] = 0
                /\ hist'.after[r] = Answered /\ Parent[r] = NoRun /\ ~Visible(r)
        /\ path[r] # "idle" => path'[r] # "idle"
        /\ number'[r] \in {number[r], order + 1}

\* No step changes what came before a run.
LEMMA BegunRunsStay ==
    ASSUME Lineage, Types, RunsOk, [Next]_vars
    PROVE  BegunStay
<1> USE DEF Types, BegunStay
<1>1. ASSUME NEW r \in Runs, PostBegin(r) PROVE BegunStay
    BY <1>1 DEF PostBegin, Begins, RunsOk, RunIsPlaced, RunIsNumbered, Visible, Lineage
<1>2. ASSUME NEW r \in Runs, child_spec(r) PROVE BegunStay
    BY <1>2 DEF child_spec
<1>3. ASSUME NEW r \in Runs, fire(r) PROVE BegunStay
    BY <1>3 DEF fire, Begins, RunsOk, RunIsPlaced, RunIsNumbered, Visible, Lineage
<1>4. ASSUME NEW r \in Runs, Finish(r) PROVE BegunStay
    BY <1>4 DEF Finish
<1>5. ASSUME NEW r \in Runs, PutRow(r) PROVE BegunStay
    BY <1>5 DEF PutRow
<1>6. ASSUME NEW r \in Runs, PutCommit(r) PROVE BegunStay
    BY <1>6 DEF PutCommit
<1>7. ASSUME NEW r \in Runs, Push(r) PROVE BegunStay
    BY <1>7 DEF Push
<1>8. ASSUME NEW r \in Runs, SettleGate(r) PROVE BegunStay
    BY <1>8 DEF SettleGate, gate_of
<1>9. ASSUME NEW r \in Runs, settle_fire(r) PROVE BegunStay
    BY <1>9 DEF settle_fire
<1>10. ASSUME NEW r \in Runs, Claim(r) PROVE BegunStay
    BY <1>10 DEF Claim
<1>11. ASSUME NEW r \in Runs, Boundary(r) PROVE BegunStay
    BY <1>11 DEF Boundary
<1>12. ASSUME NEW q \in Requests, NEW s \in Scopes, StopBegin(q, s) PROVE BegunStay
    BY <1>12 DEF StopBegin
<1>13. ASSUME NEW q \in Requests, pause_triggers(q) PROVE BegunStay
    BY <1>13 DEF pause_triggers
<1>14. ASSUME NEW q \in Requests, PutStop(q) PROVE BegunStay
    BY <1>14 DEF PutStop
<1>15. ASSUME NEW q \in Requests, put_stop(q) PROVE BegunStay
    BY <1>15 DEF put_stop
<1>16. ASSUME NEW q \in Requests, StopSnapshot(q) PROVE BegunStay
    BY <1>16 DEF StopSnapshot
<1>17. ASSUME NEW q \in Requests, NEW r \in Runs, StopCancel(q, r) PROVE BegunStay
    BY <1>17 DEF StopCancel
<1>18. ASSUME NEW q \in Requests, StopAnswer(q) PROVE BegunStay
    BY <1>18 DEF StopAnswer
<1>19. ASSUME NEW q \in Requests, StopDies(q) PROVE BegunStay
    BY <1>19 DEF StopDies
<1>20. ASSUME Resume PROVE BegunStay
    BY <1>20 DEF Resume
<1>21. ASSUME UNCHANGED vars PROVE BegunStay
    BY <1>21 DEF vars
<1>22. QED
    BY <1>1, <1>2, <1>3, <1>4, <1>5, <1>6, <1>7, <1>8, <1>9, <1>10, <1>11, <1>12, <1>13, <1>14,
       <1>15, <1>16, <1>17, <1>18, <1>19, <1>20, <1>21 DEF Next, Produce, Work, Stop

\* A step keeps what began after an answer above its stop.
LEMMA AfterNext ==
    ASSUME Lineage, Types, RunsOk, StopsOk, SeenOk, AfterOk, [Next]_vars
    PROVE  AfterOk'
<1>a. /\ \A p \in Answered : p \in Requests /\ req[p].pc # "idle" /\ req'[p] = req[p] /\ p \in Answered'
      /\ \A p \in Requests : req[p].number \in Nat /\ req[p].number <= order
    BY AnsweredRest DEF Answered, Types, RequestState, StopsOk, StopsAreNumbered
<1> SUFFICES ASSUME NEW r \in Runs, NEW q \in hist'.after[r]
             PROVE  /\ q \in Answered' /\ Parent[r] = NoRun /\ path'[r] # "idle"
                    /\ req'[q].scope.kind = "run" => req'[q].scope.key # r
                    /\ number'[r] # 0 => req'[q].number < number'[r]
    BY DEF AfterOk
<1>b. BegunStay
    BY BegunRunsStay
<1>1. CASE hist'.after[r] = hist.after[r]
    <2>1. /\ q \in Answered /\ Parent[r] = NoRun /\ path[r] # "idle"
          /\ req[q].scope.kind = "run" => req[q].scope.key # r
          /\ number[r] # 0 => req[q].number < number[r]
        BY <1>1 DEF AfterOk
    <2>2. req'[q] = req[q] /\ q \in Answered' /\ req[q].number \in Nat /\ req[q].number <= order
        BY <1>a, <2>1
    <2>3. path'[r] # "idle" /\ number'[r] \in {number[r], order + 1} /\ order \in Nat
        BY <1>b, <2>1 DEF BegunStay, Types
    <2>4. QED
        BY <2>1, <2>2, <2>3
<1>2. CASE hist'.after[r] # hist.after[r]
    <2>1. /\ path'[r] # "idle" /\ number'[r] = 0 /\ q \in Answered /\ Parent[r] = NoRun /\ ~Visible(r)
        BY <1>b, <1>2 DEF BegunStay
    <2>2. req'[q] = req[q] /\ q \in Answered' /\ q \in Requests /\ req[q].pc # "idle"
        BY <1>a, <2>1
    <2>3. req[q].scope.kind = "run" => Visible(req[q].scope.key)
        BY <2>2 DEF SeenOk
    <2>4. QED
        BY <2>1, <2>2, <2>3
<1>3. QED
    BY <1>1, <1>2

\* A fire that read its trigger before a pause: its gate stays shut, and it does
\* not get past it.
Past(r) == read[r] # 0 /\ (trigger.enabled => trigger.generation > read[r])
GotIn(r) == queued[r] \/ log[r] = "running" \/ path[r] = "open"

PastStays ==
    \A r \in Runs : Past(r) => Past(r)' /\ (GotIn(r)' => GotIn(r))

\* No step lets an earlier fire past its gate.
LEMMA PastFiresStay ==
    ASSUME Lineage, Types, RunsOk, [Next]_vars
    PROVE  PastStays
<1> USE DEF Types, PastStays, Past, GotIn
<1>1. ASSUME NEW r \in Runs, PostBegin(r) PROVE PastStays
    BY <1>1 DEF PostBegin, RunsOk, RunIsPlaced, FireHasRead, Visible
<1>2. ASSUME NEW r \in Runs, child_spec(r) PROVE PastStays
    BY <1>2 DEF child_spec, RunsOk, RunIsPlaced, FireHasRead, Visible
<1>3. ASSUME NEW r \in Runs, fire(r) PROVE PastStays
    BY <1>3 DEF fire, RunsOk, RunIsPlaced, FireHasRead, Visible
<1>4. ASSUME NEW r \in Runs, Finish(r) PROVE PastStays
    BY <1>4 DEF Finish
<1>5. ASSUME NEW r \in Runs, PutRow(r) PROVE PastStays
    BY <1>5 DEF PutRow, RunsOk, RunIsPlaced, FireHasRead, Visible
<1>6. ASSUME NEW r \in Runs, PutCommit(r) PROVE PastStays
    BY <1>6 DEF PutCommit, RunsOk, RunIsPlaced, FireHasRead, Visible
<1>7. ASSUME NEW r \in Runs, Push(r) PROVE PastStays
    BY <1>7 DEF Push, RunsOk, RunIsPlaced, FireHasRead, Visible
<1>8. ASSUME NEW r \in Runs, SettleGate(r) PROVE PastStays
    BY <1>8 DEF SettleGate, gate_of
<1>9. ASSUME NEW r \in Runs, settle_fire(r) PROVE PastStays
    BY <1>9 DEF settle_fire
<1>10. ASSUME NEW r \in Runs, Claim(r) PROVE PastStays
    BY <1>10 DEF Claim
<1>11. ASSUME NEW r \in Runs, Boundary(r) PROVE PastStays
    BY <1>11 DEF Boundary
<1>12. ASSUME NEW q \in Requests, NEW s \in Scopes, StopBegin(q, s) PROVE PastStays
    BY <1>12 DEF StopBegin
<1>13. ASSUME NEW q \in Requests, pause_triggers(q) PROVE PastStays
    BY <1>13 DEF pause_triggers
<1>14. ASSUME NEW q \in Requests, PutStop(q) PROVE PastStays
    BY <1>14 DEF PutStop
<1>15. ASSUME NEW q \in Requests, put_stop(q) PROVE PastStays
    BY <1>15 DEF put_stop
<1>16. ASSUME NEW q \in Requests, StopSnapshot(q) PROVE PastStays
    BY <1>16 DEF StopSnapshot
<1>17. ASSUME NEW q \in Requests, NEW r \in Runs, StopCancel(q, r) PROVE PastStays
    BY <1>17 DEF StopCancel
<1>18. ASSUME NEW q \in Requests, StopAnswer(q) PROVE PastStays
    BY <1>18 DEF StopAnswer
<1>19. ASSUME NEW q \in Requests, StopDies(q) PROVE PastStays
    BY <1>19 DEF StopDies
<1>20. ASSUME Resume PROVE PastStays
    BY <1>20 DEF Resume, RunsOk, RunIsPlaced, FireHasRead, Visible
<1>21. ASSUME UNCHANGED vars PROVE PastStays
    BY <1>21 DEF vars
<1>22. QED
    BY <1>1, <1>2, <1>3, <1>4, <1>5, <1>6, <1>7, <1>8, <1>9, <1>10, <1>11, <1>12, <1>13, <1>14,
       <1>15, <1>16, <1>17, <1>18, <1>19, <1>20, <1>21 DEF Next, Produce, Work, Stop

\* A request that takes no new number and finds no new fires.
Holds(q) ==
    /\ req'[q].scope = req[q].scope /\ req'[q].number = req[q].number
    /\ req'[q].pc \in {"idle", "pause"} => req[q].pc \in {"idle", "pause"}
    /\ req'[q].bad = FALSE => req[q].bad = FALSE
    /\ hist'.fired[q] = hist.fired[q]

\* A request past its number takes no new fires.
LEMMA RequestsHold ==
    ASSUME Types, NEW q \in Requests,
           \/ put_stop(q) \/ StopSnapshot(q)
           \/ \E r \in Runs : StopCancel(q, r)
           \/ StopAnswer(q) \/ StopDies(q)
    PROVE  \A p \in Requests : Holds(p)
<1>a. ASSUME NEW pc, NEW open, NEW bad, hist'.fired = hist.fired,
             Becomes(q, pc, req[q].scope, req[q].number, open, bad),
             pc \notin {"idle", "pause"}, bad = FALSE => req[q].bad = FALSE
      PROVE  \A p \in Requests : Holds(p)
    <2>1. ASSUME NEW p \in Requests, p # q PROVE Holds(p)
        BY <1>a, <2>1 DEF Becomes, Holds
    <2>2. Holds(q)
        BY <1>a DEF Becomes, Holds
    <2>3. QED
        BY <2>1, <2>2
<1>1. CASE put_stop(q)
    <2>1. hist'.fired = hist.fired /\ Goes(q, "snapshot")
        BY <1>1, StepGoes DEF put_stop
    <2>2. "snapshot" \notin {"idle", "pause"}
        OBVIOUS
    <2>3. PICK open : Becomes(q, "snapshot", req[q].scope, req[q].number, open, req[q].bad)
        BY <2>1 DEF Goes
    <2>4. QED
        BY <1>a, <2>1, <2>2, <2>3
<1>2. CASE StopSnapshot(q)
    <2>1. PICK open : Becomes(q, "cancel", req[q].scope, req[q].number, open, req[q].bad)
        BY <1>2, SnapshotGoes, Zenon
    <2>2. hist'.fired = hist.fired
        BY <1>2 DEF StopSnapshot
    <2>3. "cancel" \notin {"idle", "pause"}
        OBVIOUS
    <2>4. QED
        BY <1>a, <2>1, <2>2, <2>3
<1>3. ASSUME NEW r \in Runs, StopCancel(q, r) PROVE \A p \in Requests : Holds(p)
    <2>1. hist'.fired = hist.fired /\ req[q].pc \notin {"idle", "pause"}
        BY <1>3 DEF StopCancel
    <2>2. CASE Becomes(q, req[q].pc, req[q].scope, req[q].number, req[q].open \ {r}, req[q].bad)
        BY <1>a, <2>1, <2>2
    <2>3. CASE Becomes(q, req[q].pc, req[q].scope, req[q].number, req[q].open \ {r}, TRUE)
        BY <1>a, <2>1, <2>3
    <2>4. QED
        BY <1>3, <2>2, <2>3, CancelGoes
<1>4. CASE StopAnswer(q)
    <2>1. hist'.fired = hist.fired
        BY <1>4 DEF StopAnswer
    <2>2. PICK pc : pc \notin {"idle", "pause"} /\ Goes(q, pc)
        BY <1>4, StepGoes DEF StopAnswer
    <2>3. PICK open : Becomes(q, pc, req[q].scope, req[q].number, open, req[q].bad)
        BY <2>2 DEF Goes
    <2>4. QED
        BY <1>a, <2>1, <2>2, <2>3
<1>5. CASE StopDies(q)
    <2>1. hist'.fired = hist.fired /\ Goes(q, "dead")
        BY <1>5, StepGoes DEF StopDies
    <2>2. "dead" \notin {"idle", "pause"}
        OBVIOUS
    <2>3. PICK open : Becomes(q, "dead", req[q].scope, req[q].number, open, req[q].bad)
        BY <2>1 DEF Goes
    <2>4. QED
        BY <1>a, <2>1, <2>2, <2>3
<1>6. QED
    BY <1>1, <1>2, <1>3, <1>4, <1>5

\* A step keeps earlier fires out, or below the stop.
LEMMA FiredNext ==
    ASSUME Lineage, Types, RunsOk, StopsOk, FiredOk, [Next]_vars
    PROVE  FiredOk'
<1> DEFINE Quiet(p) ==
        /\ req[p].pc \in {"idle", "pause"} => hist.fired[p] = {}
        /\ req[p].scope.kind = "owner" /\ ~req[p].bad =>
            \A r \in hist.fired[p] :
                /\ Past(r)
                /\ req[p].number # 0 /\ GotIn(r) => number[r] < req[p].number
<1>a. \A p \in Requests : Quiet(p)
    BY DEF FiredOk, Past, GotIn
<1>b. SUFFICES \A p \in Requests : Quiet(p)'
    BY DEF FiredOk, Past, GotIn
<1>c. \A p \in Requests : hist.fired[p] \subseteq Runs
    BY DEF Types
<1>d. \A r \in Runs : Past(r) => Past(r)' /\ (GotIn(r)' => GotIn(r) /\ number'[r] = number[r])
    <2>1. \A r \in Runs : GotIn(r) => Visible(r)
        BY DEF RunsOk, RunIsPlaced, GotIn, Visible
    <2>2. QED
        BY <2>1, PastFiresStay, GoesOnward DEF PastStays, Onward
<1>e. ASSUME NEW p \in Requests, Holds(p) PROVE Quiet(p)'
    <2>1. req'[p].pc \in {"idle", "pause"} => hist'.fired[p] = {}
        BY <1>a, <1>e DEF Holds
    <2>2. ASSUME req'[p].scope.kind = "owner", ~req'[p].bad, NEW r \in hist'.fired[p]
          PROVE  Past(r)' /\ (req'[p].number # 0 /\ GotIn(r)' => number'[r] < req'[p].number)
        <3>1. r \in Runs /\ Past(r) /\ (req[p].number # 0 /\ GotIn(r) => number[r] < req[p].number)
            BY <1>a, <1>c, <1>e, <2>2 DEF Holds
        <3>2. QED
            BY <1>d, <1>e, <3>1 DEF Holds
    <2>3. QED
        BY <2>1, <2>2
<1>f. ASSUME NEW p \in Requests, req'[p] = req[p], hist'.fired[p] = hist.fired[p] PROVE Holds(p)
    BY <1>f DEF Holds
<1> HIDE DEF Quiet
<1>1. CASE RunsMove
    BY <1>1, <1>e, <1>f, RunsLeaveRequests DEF RequestsStay
<1>2. ASSUME NEW q \in Requests, NEW s \in Scopes, StopBegin(q, s)
      PROVE  \A p \in Requests : Quiet(p)'
    <2>1. req[q].pc = "idle" /\ hist'.fired = hist.fired
        BY <1>2 DEF StopBegin, Types
    <2>2. PICK pc : Becomes(q, pc, s, req[q].number, req[q].open, req[q].bad)
        BY <1>2, BeginGoes, Zenon
    <2>3. hist'.fired[q] = {}
        BY <1>a, <2>1 DEF Quiet
    <2>4. Quiet(q)'
        BY <2>3 DEF Quiet
    <2>5. \A p \in Requests : p # q => Quiet(p)'
        BY <1>e, <1>f, <2>1, <2>2 DEF Becomes
    <2>6. QED
        BY <2>4, <2>5
<1>3. ASSUME NEW q \in Requests, pause_triggers(q)
      PROVE  \A p \in Requests : Quiet(p)'
    <2>1. req[q].pc = "pause" /\ UNCHANGED <<number, read>>
          /\ \A p \in Requests : hist'.fired[p] = IF p = q THEN {r \in Runs : read[r] # 0} ELSE hist.fired[p]
        BY <1>3 DEF pause_triggers, Types
    <2>2. req[q].number = 0
        BY <2>1 DEF StopsOk, StopsAreNumbered
    <2>3. PICK bad : Becomes(q, "number", req[q].scope, req[q].number, req[q].open, bad)
        BY <1>3, PauseGoes, Zenon DEF Goes
    <2>4. \A p \in Requests : p # q => Quiet(p)'
        BY <1>e, <1>f, <2>1, <2>3 DEF Becomes
    <2>5. req'[q].pc = "number" /\ req'[q].number = 0
        BY <2>2, <2>3 DEF Becomes
    <2>6. CASE trigger'.enabled = FALSE
        <3>1. \A r \in hist'.fired[q] : Past(r)'
            BY <2>1, <2>6 DEF Past
        <3>2. QED
            BY <2>4, <2>5, <3>1 DEF Quiet
    <2>7. CASE Becomes(q, "number", req[q].scope, req[q].number, req[q].open, TRUE)
        <3>1. req'[q].bad = TRUE
            BY <2>7 DEF Becomes
        <3>2. Quiet(q)'
            BY <2>5, <3>1 DEF Quiet
        <3>3. QED
            BY <2>4, <3>2
    <2>8. QED
        BY <1>3, <2>6, <2>7, PauseGoes
<1>4. ASSUME NEW q \in Requests, PutStop(q)
      PROVE  \A p \in Requests : Quiet(p)'
    <2>1. UNCHANGED <<log, number, path, queued, trigger, read, hist>>
        BY <1>4 DEF PutStop
    <2>2. CASE Goes(q, "failed")
        <3>1. Holds(q)
            BY <2>1, <2>2 DEF Goes, Becomes, Holds
        <3>2. \A p \in Requests : p # q => Holds(p)
            BY <1>f, <2>1, <2>2 DEF Goes, Becomes
        <3>3. QED
            BY <1>e, <3>1, <3>2
    <2>3. CASE Becomes(q, "commit", req[q].scope, order + 1, req[q].open, req[q].bad)
        <3>1. \A r \in Runs : number[r] < order + 1
            BY DEF Types, RunsOk, RunIsNumbered
        <3>2. req'[q].pc = "commit" /\ req'[q].number = order + 1
              /\ req'[q].scope = req[q].scope /\ req'[q].bad = req[q].bad
            BY <2>3 DEF Becomes
        <3>3. \A r \in hist.fired[q] : Past(r) => Past(r)' /\ number'[r] < order + 1
            BY <1>c, <1>d, <2>1, <3>1
        <3>4. Quiet(q)'
            BY <1>a, <2>1, <3>2, <3>3 DEF Quiet
        <3>5. \A p \in Requests : p # q => Holds(p)
            BY <1>f, <2>1, <2>3 DEF Becomes
        <3>6. QED
            BY <1>e, <3>4, <3>5
    <2>4. QED
        BY <1>4, <2>2, <2>3, PutStopGoes
<1>5. ASSUME NEW q \in Requests,
             \/ put_stop(q) \/ StopSnapshot(q)
             \/ \E r \in Runs : StopCancel(q, r)
             \/ StopAnswer(q) \/ StopDies(q)
      PROVE  \A p \in Requests : Quiet(p)'
    BY <1>e, <1>5, RequestsHold
<1>6. QED
    BY <1>1, <1>2, <1>3, <1>4, <1>5, WhoMoves
-----------------------------------------------------------------------------
(* The invariant, and what follows from it. *)

\* The invariant holds at the start ...
LEMMA InductiveInit ==
    ASSUME Lineage, Init
    PROVE  Inductive
<1>1. Types
    <2>1. (CHOOSE s \in Scopes : TRUE) \in Scopes
        BY DEF Lineage
    <2>2. QED
        BY <2>1 DEF Init, Types, RequestState, Phases, Paths, Pcs
<1>2. RunsOk
    BY DEF Init, RunsOk, RunIsPlaced, RunIsNumbered, FireHasRead, Visible, Lineage
<1>3. \A q \in Requests : req[q].pc = "idle" /\ req[q].number = 0 /\ req[q].bad = FALSE
    BY DEF Init
<1>4. StopsOk
    BY <1>3 DEF Init, StopsOk, StopsAreAsked, StopsAreNumbered, OneReplaces
<1>5. SeenOk /\ SnapshotOk /\ FiredOk
    <2>1. \A q \in Requests : hist.seen[q] = {} /\ hist.fired[q] = {}
        BY DEF Init
    <2>2. QED
        BY <1>3, <2>1 DEF SeenOk, SnapshotOk, FiredOk, Closed
<1>6. AfterOk
    BY DEF Init, AfterOk
<1>7. OnlyCoveredCancelled
    BY DEF Init, OnlyCoveredCancelled
<1>8. QED
    BY <1>1, <1>2, <1>4, <1>5, <1>6, <1>7 DEF Inductive

\* ... and every step keeps it.
LEMMA InductiveNext ==
    ASSUME Lineage, Inductive, [Next]_vars
    PROVE  Inductive'
BY TypesNext, RunsNext, StopsNext, SeenNext, SnapshotNext, FiredNext, AfterNext, CancelledNext
   DEF Inductive

\* What began after a stop's answer is not covered by that stop.
LEMMA SparesLater ==
    ASSUME Lineage, Types, RunsOk, StopsOk, AfterOk
    PROVE  SparesWhatCameAfter
<1> SUFFICES ASSUME NEW r \in Runs, Visible(r), Parent[r] = NoRun, stopped(r)
             PROVE  \E q \in Requests \ hist.after[r] :
                        req[q].number # 0 /\ InScope(req[q].scope, r)
    BY DEF SparesWhatCameAfter
<1>1. PICK s \in Scopes : stops[s] # 0 /\ stop_names(s, stops[s], r)
    BY ChainFacts DEF stopped
<1>2. PICK q \in Requests : req[q].scope = s /\ req[q].number = stops[s]
    BY <1>1 DEF StopsOk, StopsAreAsked
<1>3. number[r] \in Nat /\ req[q].number \in Nat /\ number[r] # 0
    BY DEF Types, RequestState, RunsOk, RunIsNumbered, Visible
<1>4. q \notin hist.after[r]
    <2>1. s.kind = "run" => s.key = r
        BY <1>1 DEF stop_names, InScope
    <2>2. s.kind # "run" => number[r] < req[q].number
        BY <1>1, <1>2, <1>3 DEF stop_names
    <2>3. q \in hist.after[r] => s.kind # "run"
        BY <1>2, <2>1 DEF AfterOk
    <2>4. q \in hist.after[r] => number[r] = 0 \/ req[q].number < number[r]
        BY DEF AfterOk
    <2>5. QED
        BY <1>3, <2>2, <2>3, <2>4
<1>5. QED
    BY <1>1, <1>2, <1>4 DEF stop_names

\* What an answer says holds.
LEMMA AnsweredHold ==
    ASSUME Lineage, Inductive
    PROVE  AnsweredStopsHold
<1> USE DEF Inductive
<1>1. AnsweredLeavesNoneWaiting
    <2> SUFFICES ASSUME NEW q \in Requests, NEW r \in hist.seen[q], req[q].pc = "ok",
                        NEW m \in Chain[r], InScope(req[q].scope, m)
                 PROVE  log[r] # "queued"
        BY DEF AnsweredLeavesNoneWaiting
    <2>1. req[q].scope \in Scopes /\ r \in Runs
        BY DEF Types, RequestState
    <2>2. About(req[q].scope, r)
        BY <2>1, InScopeIsAbout
    <2>3. QED
        BY <2>2 DEF SnapshotOk
<1>2. QuietAfterOwnerStop
    <2> SUFFICES ASSUME NEW q \in Requests, req[q].pc = "ok", req[q].scope.kind = "owner",
                        NEW r \in hist.fired[q],
                        queued[r] \/ log[r] = "running" \/ path[r] = "open"
                 PROVE  stopped(r)
        BY DEF QuietAfterOwnerStop
    <2>1. req[q].scope \in Scopes /\ r \in Runs
        BY DEF Types, RequestState
    <2>2. req[q].number # 0 /\ req[q].number <= stops[req[q].scope]
        BY DEF StopsOk, StopsAreNumbered
    <2>3. number[r] < req[q].number
        BY <2>2 DEF SnapshotOk, FiredOk
    <2>4. Visible(r)
        BY <2>1 DEF RunsOk, RunIsPlaced, Visible
    <2>5. stops[req[q].scope] # 0 /\ stops[req[q].scope] > number[r]
        BY <2>1, <2>2, <2>3 DEF Types, RequestState
    <2>6. InScope(req[q].scope, r) /\ r \in Chain[r]
        BY <2>1, ChainFacts DEF InScope
    <2>7. QED
        BY <2>1, <2>4, <2>5, <2>6 DEF stopped, stop_names
<1>3. QED
    BY <1>1, <1>2 DEF AnsweredStopsHold

\* So it holds throughout.
LEMMA InductiveIsInvariant == Spec => []Inductive
<1>1. Init => Inductive
    BY InductiveInit, StopAssumption
<1>2. Inductive /\ [Next]_vars => Inductive'
    BY InductiveNext, StopAssumption
<1>3. QED
    BY <1>1, <1>2, PTL DEF Spec

\* A stop covers everything that was there when it was asked for and all that
\* comes under it, and nothing that began after its answer; nothing else is
\* cancelled (put_stop, stopped, stop_names, open_runs_under): for any lineage,
\* any scopes and any number of requests, with failures and deaths anywhere.
THEOREM ScopesAreExact == Spec => []StopsAreExact
<1>1. Inductive => StopsAreExact
    BY StopAssumption, RecordedCovers, SparesLater DEF Inductive, StopsAreExact
<1>2. QED
    BY <1>1, InductiveIsInvariant, PTL

\* A stop answered without an error left nothing it found waiting, and after an
\* owner's no earlier fire brings in work the stop does not cover, however often
\* the trigger is resumed (stop, stop_owner, gate_of).
THEOREM AnswersHold == Spec => []AnsweredStopsHold
<1>1. Inductive => AnsweredStopsHold
    BY StopAssumption, AnsweredHold
<1>2. QED
    BY <1>1, InductiveIsInvariant, PTL
=============================================================================
