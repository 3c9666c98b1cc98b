----------------------------- MODULE MCServices -----------------------------
(***************************************************************************)
(* Services of the server that share nothing, side by side: the key set    *)
(* that tokens are checked with, the threads and their boards, and the     *)
(* search for a schedule's next tick.  The variable part says which of     *)
(* them a behaviour is about; the variables of the others are Off.  The    *)
(* threads come three times, with the constants of three questions.        *)
(***************************************************************************)
EXTENDS Integers, TLC

CONSTANTS c1, c2, Off

VARIABLES part,
    keys, fetches, req, took, published, changed, since,                    \* KeyCache
    now, run, order, question, questions, message, messages, answers,       \* Threads
    walk, walks,
    zone, cron, start, after, tries, tick                                   \* NextTick

keyVars    == <<keys, fetches, req, took, published, changed, since>>
threadVars == <<now, run, order, question, questions, message, messages, answers, walk, walks>>
tickVars   == <<zone, cron, start, after, tries, tick>>
vars       == <<part, keyVars, threadVars, tickVars>>

Symmetric == Permutations({c1, c2})

(***************************************************************************)
(* The parts                                                               *)
(***************************************************************************)
\* Two requests, an issuer that rotates two keys.
Keys == INSTANCE KeyCache WITH
    Requests <- {c1, c2}, Kids <- {"old", "new"}, FirstKeys <- {"old"},
    REFRESH_INTERVAL <- 2, MAX_AGE <- 3, JWKS_TIMEOUT <- 1

\* One thread whose runs are stored side by side, and a user who answers.
Board == INSTANCE Threads WITH
    Runs <- {1, 2, 3}, ThreadIds <- {1}, Sessions <- {1}, MaxTime <- 1, Writers <- 2,
    MaxQuestions <- 2, MaxMessages <- 1, PageSize <- 1, MaxWalks <- 0

\* Threads the server makes, and a client who pages through them.
Pages == INSTANCE Threads WITH
    Runs <- {1, 2, 3}, ThreadIds <- {1, 2}, Sessions <- {}, MaxTime <- 1, Writers <- 2,
    MaxQuestions <- 0, MaxMessages <- 1, PageSize <- 1, MaxWalks <- 1

\* One thread and the summaries both stores make of it.
Listing == INSTANCE Threads WITH
    Runs <- {1, 2, 3, 4}, ThreadIds <- {1}, Sessions <- {1}, MaxTime <- 2, Writers <- 2,
    MaxQuestions <- 0, MaxMessages <- 0, PageSize <- 1, MaxWalks <- 0

\* Days of five minutes, clocks that change by one or two, instants between
\* minutes, and every pattern.
AllCrons == SUBSET (0..4) \ {{}}

Tick == INSTANCE NextTick WITH
    Minute <- 2, MaxCandidates <- 4, Step <- 3, MaxSkipped <- 3, Day <- 5,
    Changes <- {3, 4, 9}, Gaps <- {1, 2}, Crons <- AllCrons, MaxStart <- 20

ASSUME Keys!IntervalsAssumption /\ Tick!NextTickAssumption

(***************************************************************************)
(* The specification                                                       *)
(***************************************************************************)
NoKeys    == /\ keys = Off /\ fetches = Off /\ req = Off /\ took = Off /\ published = Off
             /\ changed = Off /\ since = Off
NoThreads == /\ now = Off /\ run = Off /\ order = Off /\ question = Off /\ questions = Off
             /\ message = Off /\ messages = Off /\ answers = Off /\ walk = Off /\ walks = Off
NoTick    == zone = Off /\ cron = Off /\ start = Off /\ after = Off /\ tries = Off /\ tick = Off

Init ==
    \/ part = "keys" /\ Keys!Init /\ NoThreads /\ NoTick
    \/ part = "board" /\ Board!Init /\ NoKeys /\ NoTick
    \/ part = "pages" /\ Pages!Init /\ NoKeys /\ NoTick
    \/ part = "listing" /\ Listing!Init /\ NoKeys /\ NoTick
    \/ part = "tick" /\ Tick!Init /\ NoKeys /\ NoThreads

Next ==
    \/ part = "keys" /\ Keys!Next /\ UNCHANGED <<part, threadVars, tickVars>>
    \/ part = "board" /\ Board!Next /\ UNCHANGED <<part, keyVars, tickVars>>
    \/ part = "pages" /\ Pages!Next /\ UNCHANGED <<part, keyVars, tickVars>>
    \/ part = "listing" /\ Listing!Next /\ UNCHANGED <<part, keyVars, tickVars>>
    \/ part = "tick" /\ Tick!NextCandidate /\ UNCHANGED <<part, keyVars, threadVars>>

Spec == Init /\ [][Next]_vars

(***************************************************************************)
(* Properties                                                              *)
(***************************************************************************)
\* A key the issuer published longer ago than an interval and a fetch is not
\* refused, and one withdrawn for longer than a set is used is accepted only
\* after a failed fetch, whatever other requests asked for; and for all that the
\* issuer is not asked again within the interval, however long a fetch took
\* (auth.rs OidcVerifier::key).
KeysAreCurrent ==
    /\ [](part = "keys" => Keys!RotatedKeyIsFound /\ Keys!WithdrawnKeyLapses)
    /\ [][part = "keys" => Keys!SparesIssuer]_vars

\* Where the servers' clocks agree: a labelled message answers the task its user
\* read that label on, or is refused, unless a run that was being stored at that
\* moment is seen before that card; labels move by such runs only, and an answer
\* that goes astray goes to a task sorted before the card (store.rs
\* runs_of_thread, http.rs follow_up).  And an answer closes the question the
\* follow-up picked (answer_question).
AnswersReachTheirTask ==
    part = "board" =>
        Board!LabelsMoveOnlyByOvertaking /\ Board!AnswerStraysOnlyBack /\ Board!AnswerFitsQuestion

\* A client that pages through the listing sees every thread that was there
\* when it began, whatever comes in between the pages (http.rs list_threads),
\* and the in-memory store and Postgres summarise a thread alike (store.rs,
\* postgres.rs threads_of).
ListingsAreTrue ==
    /\ part = "pages" => Pages!PagesMissNothing
    /\ part = "listing" => Listing!StoresAgree

\* next_tick gives the first tick after its start through changes of the clocks
\* (scheduler.rs next_tick).
FirstTickAfter == part = "tick" => Tick!FirstTickAfter
=============================================================================
