------------------------------ MODULE NextTick ------------------------------
(***************************************************************************)
(* scheduler.rs `next_tick`: the first tick of a schedule after a time,     *)
(* through changes of the clocks.  The cron library is external; what it    *)
(* may answer is what next_tick defends itself against: besides the next    *)
(* matching time, the end of a gap, whether or not the gap skipped a time   *)
(* of the pattern, and never a gap whose skipped times it stepped over.     *)
(*                                                                         *)
(* Times count parts of a minute; a wall-clock time is an instant plus the  *)
(* zone's offset; a pattern is a set of minutes of a (short) day.           *)
(***************************************************************************)
EXTENDS Integers, FiniteSets, FiniteSetsExt

CONSTANTS
    Minute,       \* parts of a minute an instant can fall on
    MaxCandidates,\* candidates next_tick looks at (1000)
    Step,         \* minutes gap_tick looks ahead at a time (60)
    MaxSkipped,   \* minutes is_tick looks back over a gap (180)
    Day,          \* minutes of a day
    Changes,      \* minutes at which clocks may change
    Gaps,         \* by how many minutes
    Crons,        \* the patterns
    MaxStart      \* bound: the latest time asked for

NextTickAssumption ==
    /\ {Minute, MaxCandidates, Step, MaxSkipped, Day} \subseteq Nat \ {0} /\ MaxStart \in Nat
    /\ Changes \subseteq Nat /\ Gaps \subseteq 1..MaxSkipped
    /\ \A c \in Crons : c # {} /\ c \subseteq 0..(Day - 1)

VARIABLES
    zone,    \* when its clocks go forward and back, and by how much
    cron,    \* the pattern
    start,   \* after_ms
    after,   \* where the search for candidates stands
    tries,   \* candidates seen
    tick     \* what next_tick returns: Searching before, GaveUp for an error

vars == <<zone, cron, start, after, tries, tick>>

Searching == -1
GaveUp    == -2

Zones == {z \in [fwd : Changes, back : Changes, gap : Gaps] :
            z.fwd + z.gap < z.back \/ z.back + z.gap < z.fwd}

\* local_minus_utc
Offset(u) ==
    LET f == zone.fwd * Minute
        b == zone.back * Minute
        summer == IF f < b THEN f <= u /\ u < b ELSE u < b \/ f <= u
    IN  IF summer THEN zone.gap * Minute ELSE 0

Floor(u) == u - (u % Minute)

Wall(u) == u + Offset(u)

\* is_time_matching of a wall-clock time
Matches(wall) == wall % Minute = 0 /\ (wall \div Minute) % Day \in cron

Horizon == MaxStart + (2 * Day + 2 * Max(Gaps)) * Minute

\* from_local_datetime: the instants a wall-clock time names, none in a gap.
FromLocal(wall) == {u \in {wall, wall - zone.gap * Minute} : Wall(u) = wall}

\* Where the clocks resume after the gap.
GapEnd == zone.fwd * Minute

\* The minutes of wall-clock time the gap skips.
SkippedWalls == {GapEnd + m * Minute : m \in 0..(zone.gap - 1)}

\* find_next_occurrence
FindNextOccurrence(a) ==
    LET match == Min({u \in (a + 1)..Horizon : Matches(Wall(u))})
    IN  {match} \cup {u \in {GapEnd} : a < u /\ u < match}

\* Mutant: the repeat of a wall-clock time is a tick too.
IsTickTwice(c) ==
    LET never == {m \in 1..MaxSkipped :
                     \A n \in 1..m : FromLocal(Wall(c) - n * Minute) = {}}
    IN  Matches(Wall(c)) \/ \E m \in never : Matches(Wall(c) - m * Minute)

\* is_tick: not the repeat of a wall-clock time; its wall-clock time matches,
\* or one of those just before it that never happened does.
IsTick(c) ==
    LET never == {m \in 1..MaxSkipped :
                     \A n \in 1..m : FromLocal(Wall(c) - n * Minute) = {}}
    IN  /\ c = Min(FromLocal(Wall(c)))
        /\ Matches(Wall(c)) \/ \E m \in never : Matches(Wall(c) - m * Minute)

\* The bisection: high is on the new offset, low is not.
RECURSIVE Bisect(_, _, _)
Bisect(low, high, old) ==
    IF high - low <= Minute THEN high
    ELSE LET middle == low + (high - low) \div 2
         IN  IF Offset(middle) > old THEN Bisect(low, middle, old)
             ELSE Bisect(middle, high, old)

\* The minute the clocks resume at, known to lie in (from, to].
Resume(from, to) ==
    LET old == Offset(from)
        high == Floor(Bisect(from, to, old))
    IN  IF Offset(high) > old THEN high ELSE high + Minute

\* gap_tick: the first gap's end in (a, before) whose gap skipped a time the
\* pattern names, -1 if there is none.  `from` is where the scan stands.
RECURSIVE GapTick(_, _, _)
GapTick(from, a, before) ==
    LET to == Min({from + Step * Minute, before})
        resume == Resume(from, to)
    IN  IF from >= before THEN -1
        ELSE IF /\ Offset(to) > Offset(from)
                /\ a < resume /\ resume < before
                /\ \E m \in 0..((Offset(to) - Offset(from)) \div Minute - 1) :
                      Matches(resume + Offset(from) + m * Minute)
        THEN resume
        ELSE GapTick(to, a, before)

Init == /\ zone \in Zones
        /\ cron \in Crons
        /\ start \in 0..MaxStart
        /\ after = start
        /\ tries = 0
        /\ tick = Searching

\* One turn of next_tick's loop.
NextCandidate ==
    /\ tick = Searching
    /\ tries' = tries + 1
    /\ \E c \in FindNextOccurrence(after) :
          LET gap == GapTick(start, start, c)
          IN  IF IsTick(c)
              THEN tick' = (IF gap = -1 THEN c ELSE gap) /\ UNCHANGED after
              ELSE after' = c /\ tick' = IF tries' = MaxCandidates THEN GaveUp ELSE tick
    /\ UNCHANGED <<zone, cron, start>>

Spec == Init /\ [][NextCandidate]_vars

(***************************************************************************)
(* What next_tick's comment promises, said without a search.                *)
(***************************************************************************)
\* An instant is a tick if its wall-clock time is one of the pattern, for the
\* first time; or if clocks resume there, having skipped a time of the pattern.
Ticks(u) == \/ Matches(Wall(u)) /\ \A v \in 0..(u - 1) : Wall(v) # Wall(u)
            \/ u = GapEnd /\ \E w \in SkippedWalls : Matches(w)

\* next_tick gives the first tick strictly after the time it is given: no tick
\* is passed over at a gap, none is given twice where clocks repeat, none that is
\* not a tick is given, whatever the cron library makes of the gap; and it does
\* not run out of candidates while it rejects the repeats of an hour.
FirstTickAfter ==
    tick # Searching => tick = Min({u \in (start + 1)..Horizon : Ticks(u)})
=============================================================================
