------------------------------- MODULE Threads -------------------------------
(***************************************************************************)
(* Threads: the runs of one session, listed newest thread first, and on a  *)
(* thread's board oldest run first.  A run's place on the board is its     *)
(* label, T1, T2 and so on, and a message "T<n>: text" to the thread       *)
(* answers the task of that label when it waits on its user.               *)
(*                                                                         *)
(* A run is dated when its first event is made, numbered when its row is   *)
(* written and seen when the transaction commits; servers and requests do  *)
(* these steps side by side.  Run ids are random and compare as numbers    *)
(* here.  One principal owns every run.                                    *)
(***************************************************************************)
EXTENDS Naturals, FiniteSets, Sequences, SequencesExt

CONSTANTS
    Runs,          \* run ids, numbers
    ThreadIds,     \* thread ids, numbers
    Sessions,      \* the threads that clients and triggers name themselves
    MaxTime,       \* the last millisecond
    Writers,       \* runs being stored side by side
    MaxQuestions,  \* questions the tasks ask in all
    MaxMessages,   \* messages the user sends
    PageSize,      \* threads in a page
    MaxWalks       \* walks through the pages

VARIABLES
    now,        \* the millisecond, by a clock that all servers share
    run,        \* [Runs -> [at, created, seq, thread, root]]
    order,      \* the last number of gol_order
    question,   \* [Runs -> the question the run waits on its user for, 0 without]
    questions,  \* questions asked so far
    message,    \* the message being sent
    messages,   \* messages sent so far
    answers,    \* what was answered
    walk,       \* the walk through the pages
    walks       \* walks so far

vars == <<now, run, order, question, questions, message, messages, answers, walk, walks>>
RunVars == <<run, order>>
AskVars == <<question, questions>>
UserVars == <<message, messages, answers>>
WalkVars == <<walk, walks>>

NotStored == [at |-> "none", created |-> 0, seq |-> 0, thread |-> 0, root |-> FALSE]
NoMessage == [pc |-> "none", thread |-> 0, label |-> 0, seen |-> 0, run |-> 0, question |-> 0,
              coming |-> {}]
NoWalk == [pc |-> "none", seen |-> <<>>, start |-> {}]

-----------------------------------------------------------------------------
(* What the stores answer. *)

Stored == {r \in Runs : run[r].at = "stored"}
RunsOf(t) == {r \in Stored : run[r].thread = t}
ByTime(a, b) == run[a].created < run[b].created \/ (run[a].created = run[b].created /\ a < b)

\* The board is sorted by time, then by the store's order.
Before(a, b) ==
    \/ run[a].created < run[b].created
    \/ run[a].created = run[b].created /\ run[a].seq < run[b].seq

\* A run's place on the board of its thread, from 1: its label.
Label(t, r) == Cardinality({s \in RunsOf(t) : ~Before(r, s)})

\* The runs that may be the thread's coordinator.
Roots(t) == {r \in RunsOf(t) : run[r].root}

\* The in-memory store makes a summary in one pass over a thread's runs, oldest
\* first.
Summary(t) ==
    LET step(sum, r) ==
            [coordinator |-> IF run[r].root /\ ~sum.rooted THEN r ELSE sum.coordinator,
             started     |-> IF run[r].root /\ ~sum.rooted THEN run[r].created ELSE sum.started,
             runs        |-> sum.runs + 1,
             rooted      |-> sum.rooted \/ run[r].root]
        sorted == SetToSortSeq(RunsOf(t), ByTime)
        first  == Head(sorted)
        sum    == FoldLeft(step, [coordinator |-> first, started |-> run[first].created,
                                  runs |-> 0, rooted |-> FALSE], sorted)
    IN  [coordinator |-> sum.coordinator, started |-> sum.started, runs |-> sum.runs]

\* Postgres groups them.
SummaryRow(t) ==
    LET named == IF Roots(t) # {} THEN Roots(t) ELSE RunsOf(t)
    IN  [coordinator |-> CHOOSE r \in named : \A s \in named \ {r} : ByTime(r, s),
         started     |-> CHOOSE m \in {run[r].created : r \in named} :
                            \A s \in named : m <= run[s].created,
         runs        |-> Cardinality(RunsOf(t))]

\* Bug: threads by their latest run.
ThreadsByLatest ==
    LET latest(t) == CHOOSE m \in {run[r].created : r \in RunsOf(t)} :
                        \A s \in RunsOf(t) : m >= run[s].created
    IN  SetToSortSeq({t \in ThreadIds : RunsOf(t) # {}}, LAMBDA a, b :
            latest(a) > latest(b) \/ (latest(a) = latest(b) /\ a < b))

Listed == {t \in ThreadIds : RunsOf(t) # {}}

\* The newest thread first, then by thread id.
Newer(a, b) ==
    LET x == SummaryRow(a).started
        y == SummaryRow(b).started
    IN  x > y \/ (x = y /\ a < b)

\* The listing: each thread at its place, from 1.
Place(t) == Cardinality({u \in Listed : ~Newer(t, u)})
threads_of == [n \in 1..Cardinality(Listed) |-> CHOOSE t \in Listed : Place(t) = n]

\* The tasks that wait on the user, each at its place.
waiting_on_user(t) ==
    {<<Label(t, r), r>> : r \in {s \in RunsOf(t) : question[s] # 0}}

-----------------------------------------------------------------------------
(* Runs are stored. *)

OnTheWay == {r \in Runs : run[r].at \in {"dated", "written"}}

\* A run's first event is made.
Dated(r, t, root) ==
    /\ run[r].at = "none"
    /\ Cardinality(OnTheWay) < Writers
    /\ run' = [run EXCEPT ![r] = [at |-> "dated", created |-> now, seq |-> 0,
                                  thread |-> t, root |-> root]]

\* POST /v1/threads: a session the server chooses.
create_thread(r, t) ==
    /\ t \notin Sessions
    /\ \A s \in Runs : run[s].thread # t
    /\ Dated(r, t, TRUE)
    /\ UNCHANGED <<now, order, AskVars, UserVars, WalkVars>>

\* POST /v1/runs in a session the client names, and a trigger's fire in the
\* trigger's.
start_run(r, t) ==
    /\ t \in Sessions
    /\ Dated(r, t, TRUE)
    /\ UNCHANGED <<now, order, AskVars, UserVars, WalkVars>>

\* A run of the thread delegates: its child is in the same session.
Delegate(r, t) ==
    /\ RunsOf(t) # {}
    /\ Dated(r, t, FALSE)
    /\ UNCHANGED <<now, order, AskVars, UserVars, WalkVars>>

\* put_run: the row takes its number ...
PutRow(r) ==
    /\ run[r].at = "dated"
    /\ order' = order + 1
    /\ run' = [run EXCEPT ![r].at = "written", ![r].seq = order + 1]
    /\ UNCHANGED <<now, AskVars, UserVars, WalkVars>>

\* ... and is seen once it commits.
PutCommit(r) ==
    /\ run[r].at = "written"
    /\ run' = [run EXCEPT ![r].at = "stored"]
    /\ UNCHANGED <<now, order, AskVars, UserVars, WalkVars>>

\* A task asks its user, or ends without an answer.
AskUser(r) ==
    /\ r \in Stored
    /\ question[r] = 0
    /\ questions < MaxQuestions
    /\ questions' = questions + 1
    /\ question' = [question EXCEPT ![r] = questions + 1]
    /\ UNCHANGED <<now, RunVars, UserVars, WalkVars>>

QuestionEnds(r) ==
    /\ question[r] # 0
    /\ question' = [question EXCEPT ![r] = 0]
    /\ UNCHANGED <<now, RunVars, questions, UserVars, WalkVars>>

Tick ==
    /\ now < MaxTime
    /\ now' = now + 1
    /\ UNCHANGED <<RunVars, AskVars, UserVars, WalkVars>>

-----------------------------------------------------------------------------
(* The user answers from a board. *)

\* The user reads a card that waits and writes "T<n>: text", or writes to the
\* thread as it is.  For the properties, the message keeps which runs of the
\* thread were being stored at that moment: `coming`.
Write(t) ==
    /\ message.pc = "none"
    /\ messages < MaxMessages
    /\ RunsOf(t) # {}
    /\ \E card \in waiting_on_user(t) \cup {<<0, 0>>} :
           message' = [NoMessage EXCEPT !.pc = "sent", !.thread = t, !.label = card[1],
                                        !.seen = card[2],
                                        !.coming = {s \in OnTheWay : run[s].thread = t}]
    /\ messages' = messages + 1
    /\ UNCHANGED <<now, RunVars, AskVars, answers, WalkVars>>

Refused == message' = NoMessage /\ UNCHANGED run

\* The tasks a message may be for: the one it names, or any without a label.
AddressedTo(waiting) == {task \in waiting : message.label \in {0, task[1]}}

\* The follow-up: while no task waits it is the thread's next run; a label
\* names a task that waits; without one there must be exactly one.
follow_up ==
    /\ message.pc = "sent"
    /\ Roots(message.thread) # {}
    /\ LET waiting == waiting_on_user(message.thread)
           fits    == AddressedTo(waiting)
       IN  \/ /\ waiting = {}
              /\ \/ \E r \in Runs : Dated(r, message.thread, TRUE) /\ message' = NoMessage
                 \/ Refused
           \/ /\ waiting # {}
              /\ Cardinality(fits) = 1
              /\ \E task \in fits :
                     message' = [message EXCEPT !.pc = "answering", !.run = task[2],
                                                !.question = question[task[2]]]
              /\ UNCHANGED run
           \/ /\ waiting # {}
              /\ Cardinality(fits) # 1
              /\ Refused
    /\ UNCHANGED <<now, order, AskVars, messages, answers, WalkVars>>

Answered == answers' = answers \cup {[run |-> message.run, seen |-> message.seen,
                                      label |-> message.label, coming |-> message.coming,
                                      picked |-> message.question,
                                      question |-> question[message.run]]}

\* The answer is appended if the run still waits on the question that was
\* picked, onto the log that was read; a log that keeps moving is given up.
answer_question ==
    /\ message.pc = "answering"
    /\ \/ /\ question[message.run] = message.question
          /\ question' = [question EXCEPT ![message.run] = 0]
          /\ Answered
       \/ UNCHANGED <<question, answers>>
    /\ message' = NoMessage
    /\ UNCHANGED <<now, RunVars, questions, messages, WalkVars>>

-----------------------------------------------------------------------------
(* A client walks the listing page by page. *)

WalkBegin ==
    /\ walk.pc \in {"none", "done"}
    /\ walks < MaxWalks
    /\ walks' = walks + 1
    /\ walk' = [pc |-> "paging", seen |-> <<>>, start |-> Listed]
    /\ UNCHANGED <<now, RunVars, AskVars, UserVars>>

\* GET /v1/threads?after=N&limit=L: N threads were seen; a short page is the
\* last.
list_threads ==
    /\ walk.pc = "paging"
    /\ LET after == Len(walk.seen)
           most  == Len(threads_of)
           page  == SubSeq(threads_of, after + 1,
                           IF after + PageSize < most THEN after + PageSize ELSE most)
       IN  walk' = [walk EXCEPT !.seen = @ \o page,
                                !.pc = IF Len(page) < PageSize THEN "done" ELSE @]
    /\ UNCHANGED <<now, RunVars, AskVars, UserVars, walks>>

-----------------------------------------------------------------------------

Init ==
    /\ now = 0
    /\ run = [r \in Runs |-> NotStored]
    /\ order = 0
    /\ question = [r \in Runs |-> 0]
    /\ questions = 0
    /\ message = NoMessage
    /\ messages = 0
    /\ answers = {}
    /\ walk = NoWalk
    /\ walks = 0

Next ==
    \/ \E r \in Runs, t \in ThreadIds : create_thread(r, t) \/ start_run(r, t) \/ Delegate(r, t)
    \/ \E r \in Runs : PutRow(r) \/ PutCommit(r) \/ AskUser(r) \/ QuestionEnds(r)
    \/ Tick
    \/ \E t \in ThreadIds : Write(t)
    \/ follow_up \/ answer_question
    \/ WalkBegin \/ list_threads

Spec == Init /\ [][Next]_vars

-----------------------------------------------------------------------------
(* Properties. *)

TypeOK ==
    /\ now \in 0..MaxTime
    /\ run \in [Runs -> [at : {"none", "dated", "written", "stored"}, created : 0..MaxTime,
                         seq : 0..order, thread : ThreadIds \cup {0}, root : BOOLEAN]]
    /\ order \in 0..Cardinality(Runs)
    /\ question \in [Runs -> 0..questions]
    /\ questions \in 0..MaxQuestions
    /\ message \in [pc : {"none", "sent", "answering"}, thread : ThreadIds \cup {0},
                    label : 0..Cardinality(Runs), seen : Runs \cup {0}, run : Runs \cup {0},
                    question : 0..MaxQuestions, coming : SUBSET Runs]
    /\ messages \in 0..MaxMessages
    /\ answers \subseteq [run : Runs, seen : Runs \cup {0}, label : 0..Cardinality(Runs),
                          coming : SUBSET Runs, picked : 1..MaxQuestions,
                          question : 1..MaxQuestions]
    /\ walk \in [pc : {"none", "paging", "done"}, seen : Seq(ThreadIds), start : SUBSET ThreadIds]
    /\ walks \in 0..MaxWalks

\* The one pass of the in-memory store and the grouping of Postgres say the same
\* of every thread, in whatever order its runs were dated and stored
\* (threads_of).
StoresAgree ==
    \A t \in ThreadIds : RunsOf(t) # {} => Summary(t) = SummaryRow(t)

\* A client that walks the pages while runs are stored sees every thread that
\* was there when it began: threads the server made only ever come in, and one
\* that gets more runs keeps its place (threads_of, list_threads).
PagesMissNothing ==
    walk.pc = "done" => \A t \in walk.start : \E n \in DOMAIN walk.seen : walk.seen[n] = t

\* As the README and ThreadStore say: "T<n>: text" answers the task whose card
\* had that label when the user read it, or is refused, although runs were stored
\* in between (follow_up, waiting_on_user).  With two writers it fails, and what
\* holds are the next two.
AnswerReachesAddressee == \A a \in answers : a.label # 0 => a.run = a.seen

\* The runs that were being stored when the user read the board, and have since
\* been seen before the card that was read.
Overtook(m) == {s \in m.coming \cap Stored : Before(s, m.seen)}

\* While a labelled message is under way, the label of the card its user read
\* moves by exactly the runs that were being stored when it was read: a run begun
\* later, and dated by the same clock, is always sorted after that card, whichever
\* store is faster (runs_of_thread, queued_events, put_run).
LabelsMoveOnlyByOvertaking ==
    message.pc = "sent" /\ message.label # 0 =>
        Label(message.thread, message.seen) = message.label + Cardinality(Overtook(message))

\* A labelled message answers the task its user read the label on, unless a run
\* that was being stored at that moment came before that card; then it may answer a
\* task that is sorted before it, and never a later one (follow_up,
\* waiting_on_user).
AnswerStraysOnlyBack ==
    \A a \in answers : a.label # 0 /\ a.run # a.seen => Before(a.run, a.seen) /\ Overtook(a) # {}

\* An answer goes to the question the follow-up picked, and not to one the task
\* asked after that question was closed (answer_question).
AnswerFitsQuestion == \A a \in answers : a.question = a.picked

=============================================================================
