------------------------------ MODULE Streams -------------------------------
(***************************************************************************)
(* stream.rs and its routes over the outbox: a client's connection is served *)
(* by a task that reads a page, sends it, and waits for a hint or a poll.   *)
(* A client that loses its connection reconnects with the number of the     *)
(* last event it received (Last-Event-ID); what was on the wire is lost,    *)
(* and the old task lives until it notices.                                 *)
(***************************************************************************)
EXTENDS Outbox

CONSTANTS
    Clients,
    Watchable,    \* what clients watch: a principal, with GET /v1/stream, or a run
    FromStart,    \* the outbox clients that ask for ?after=0
    Tasks,        \* the names of stream tasks
    Page,         \* PAGE: entries read at once, and room in a task's channel
    MaxStreams,   \* MAX_STREAMS a principal may have open
    Announced,    \* what may come of the announcement after a commit: this server
                  \* hinted, a NOTIFY sent; {} when writers always die before it
    MaxDrops      \* bound: how often a connection or a read breaks

ASSUME StreamsAssumption ==
    /\ Watchable \subseteq Principals \cup Runs
    /\ <<>> \notin Tasks
    /\ FromStart \subseteq Clients /\ Announced \subseteq BOOLEAN \X BOOLEAN
    /\ Page \in Nat \ {0} /\ MaxStreams \in Nat \ {0} /\ MaxDrops \in Nat

VARIABLES
    watches,   \* watches[c]: the stream client c asks for
    at,        \* the id of the last event a client received, Nowhere for none
    last,      \* the entry of that event, <<>> for none and after a reset
    conn,      \* the task at the other end of a client's connection, NoTask for none
    wire,      \* what was sent to a client and not received
    drops,     \* connections and reads that broke
    done,      \* a client was answered 204
    task,      \* the stream tasks
    announce,  \* commits of a principal that were not announced yet
    heard,     \* the listener's connection is up
    notes      \* NOTIFYs on their way to the listener

streamVars == <<watches, at, last, conn, wire, drops, done, task, announce, heard, notes>>
vars == <<storeVars, streamVars>>

Nowhere == -1
NoTask  == <<>>

IsRun(c) == watches[c] \in Runs
Owner(c) == IF IsRun(c) THEN OwnerOf[watches[c]] ELSE watches[c]

Messages == [id : Nat, entry : {<<>>} \cup (Runs \X (1..MaxLog))]

TypeOK ==
    /\ StoreTypeOK
    /\ watches \in [Clients -> Watchable]
    /\ at \in [Clients -> Nat \cup {Nowhere}]
    /\ last \in [Clients -> {<<>>} \cup (Runs \X (1..MaxLog))]
    /\ conn \in [Clients -> Tasks \cup {NoTask}]
    /\ \A c \in Clients : wire[c] \in Seq(Messages) /\ Len(wire[c]) <= Page
    /\ drops \in 0..MaxDrops
    /\ done \in [Clients -> BOOLEAN]
    /\ \A s \in Tasks : task[s] = NoTask \/ task[s] \in
         [client : Clients, cursor : Nat \cup {Nowhere}, pc : {"read", "send", "wait"},
          page : SUBSET Messages, full : BOOLEAN, hinted : BOOLEAN]
    /\ announce \in [Principals -> Nat]
    /\ heard \in BOOLEAN /\ notes \subseteq Principals

Init ==
    /\ StoreInit
    /\ watches \in [Clients -> Watchable]
    /\ at = [c \in Clients |-> IF IsRun(c) \/ c \in FromStart THEN 0 ELSE Nowhere]
    /\ last = [c \in Clients |-> <<>>]
    /\ conn = [c \in Clients |-> NoTask]
    /\ wire = [c \in Clients |-> <<>>]
    /\ drops = 0
    /\ done = [c \in Clients |-> FALSE]
    /\ task = [s \in Tasks |-> NoTask]
    /\ announce = [p \in Principals |-> 0]
    /\ heard = TRUE /\ notes = {}

(***************************************************************************)
(* Hints                                                                   *)
(***************************************************************************)
Wakened(ps) ==
    [s \in Tasks |-> IF task[s] # NoTask /\ Owner(task[s].client) \in ps
                     THEN [task[s] EXCEPT !.hinted = TRUE] ELSE task[s]]

\* After the commit: this server's own streams at once, the others by NOTIFY.
Notify(p) ==
    /\ announce[p] > 0
    /\ announce' = [announce EXCEPT ![p] = @ - 1]
    /\ \E told \in Announced :
         /\ task' = Wakened(IF told[1] THEN {p} ELSE {})
         /\ notes' = IF told[2] /\ heard THEN notes \cup {p} ELSE notes
    /\ UNCHANGED <<storeVars, watches, at, last, conn, wire, drops, done, heard>>

Listen(p) ==
    /\ p \in notes
    /\ notes' = notes \ {p}
    /\ task' = Wakened({p})
    /\ UNCHANGED <<storeVars, watches, at, last, conn, wire, drops, done, announce, heard>>

ListenerLost ==
    /\ heard /\ drops < MaxDrops
    /\ drops' = drops + 1
    /\ heard' = FALSE /\ notes' = {}
    /\ UNCHANGED <<storeVars, watches, at, last, conn, wire, done, task, announce>>

\* A new connection listens and every stream is woken.
ListenerBack ==
    /\ ~heard
    /\ heard' = TRUE
    /\ task' = Wakened(Principals)
    /\ UNCHANGED <<storeVars, watches, at, last, conn, wire, drops, done, announce, notes>>

(***************************************************************************)
(* Clients                                                                 *)
(***************************************************************************)
Open(p) == {s \in Tasks : task[s] # NoTask /\ Owner(task[s].client) = p}

\* A name no task and no connection uses; which of them makes no difference.
Free(s) == task[s] = NoTask /\ \A d \in Clients : conn[d] # s

\* get_stream and get_run_stream: a slot is free and a task starts.
Connect(c) ==
    /\ conn[c] = NoTask /\ ~done[c]
    /\ ~(IsRun(c) /\ at[c] > 0 /\ EndsAt(watches[c], at[c]))
    /\ Cardinality(Open(Owner(c))) < MaxStreams
    /\ \E s \in Tasks : Free(s)
    /\ LET s == CHOOSE s \in Tasks : Free(s)
       IN  /\ task' = [task EXCEPT ![s] = [client |-> c, cursor |-> at[c], pc |-> "read",
                                           page |-> {}, full |-> FALSE, hinted |-> FALSE]]
           /\ conn' = [conn EXCEPT ![c] = s]
    /\ UNCHANGED <<storeVars, watches, at, last, wire, drops, done, announce, heard, notes>>

\* get_run_stream: 204, the cursor is on the run's terminal event.
NoContent(c) ==
    /\ conn[c] = NoTask /\ ~done[c]
    /\ IsRun(c) /\ at[c] > 0 /\ EndsAt(watches[c], at[c])
    /\ done' = [done EXCEPT ![c] = TRUE]
    /\ UNCHANGED <<storeVars, watches, at, last, conn, wire, drops, task, announce, heard, notes>>

Receive(c) ==
    /\ wire[c] # <<>>
    /\ at' = [at EXCEPT ![c] = Head(wire[c]).id]
    /\ last' = [last EXCEPT ![c] = Head(wire[c]).entry]
    /\ wire' = [wire EXCEPT ![c] = Tail(@)]
    /\ UNCHANGED <<storeVars, watches, conn, drops, done, task, announce, heard, notes>>

Drop(c) ==
    /\ conn[c] # NoTask /\ drops < MaxDrops
    /\ drops' = drops + 1
    /\ conn' = [conn EXCEPT ![c] = NoTask]
    /\ wire' = [wire EXCEPT ![c] = <<>>]
    /\ UNCHANGED <<storeVars, watches, at, last, done, task, announce, heard, notes>>

\* The task ended and everything it sent was received.
StreamEnds(c) ==
    /\ conn[c] # NoTask /\ wire[c] = <<>> /\ task[conn[c]] = NoTask
    /\ conn' = [conn EXCEPT ![c] = NoTask]
    /\ UNCHANGED <<storeVars, watches, at, last, wire, drops, done, task, announce, heard, notes>>

(***************************************************************************)
(* Stream tasks                                                            *)
(***************************************************************************)
Gone(s) == conn[task[s].client] # s

To(s, pc) == [task EXCEPT ![s].pc = pc]

\* outbox_stream's first read without a cursor: it starts at the end.
ReadEnd(s) ==
    /\ task[s] # NoTask /\ task[s].pc = "read" /\ task[s].cursor = Nowhere
    /\ task' = [task EXCEPT ![s].cursor = counter[Owner(task[s].client)].last]
    /\ UNCHANGED <<storeVars, watches, at, last, conn, wire, drops, done, announce, heard, notes>>

\* The page outbox_stream sends from a cursor: a reset below what was pruned.
OutboxPage(p, cursor) ==
    IF cursor < counter[p].pruned
    THEN {[id |-> counter[p].pruned, entry |-> <<>>]}
    ELSE {[id |-> row.seq, entry |-> <<row.run, row.runSeq>>] : row \in RowsAfter(p, cursor, Page)}

\* The page run_stream sends: it reads Page + 1 events from one before the
\* cursor, to see whether the log ended there, skips that one and numbers
\* what follows from the cursor.
RunPage(r, cursor) ==
    LET from == IF cursor = 0 THEN 0 ELSE cursor - 1
        got  == Min({log[r].n - from, Page + 1})
        skip == IF cursor > 0 THEN 1 ELSE 0
    IN  {[id |-> cursor + i, entry |-> <<r, from + skip + i>>] : i \in 1..Min({Page, got - skip})}

Read(s) ==
    LET c == task[s].client
        page == IF IsRun(c) THEN RunPage(watches[c], task[s].cursor)
                            ELSE OutboxPage(watches[c], task[s].cursor)
    IN  /\ task[s] # NoTask /\ task[s].pc = "read" /\ task[s].cursor # Nowhere
        /\ task' = [task EXCEPT ![s] =
             IF IsRun(c) /\ @.cursor > 0 /\ EndsAt(watches[c], @.cursor) THEN NoTask
             ELSE [@ EXCEPT !.pc = "send", !.page = page, !.full = Cardinality(page) = Page]]
        /\ UNCHANGED <<storeVars, watches, at, last, conn, wire, drops, done, announce, heard, notes>>

\* A message after which the task returns: a reset, a run's terminal event.
IsLast(c, message) ==
    \/ message.entry = <<>>
    \/ IsRun(c) /\ EndsAt(watches[c], message.entry[2])

\* A page is sent in the order of its numbers.
Send(s) ==
    LET c == task[s].client
    IN  /\ task[s] # NoTask /\ task[s].pc = "send"
        /\ ~Gone(s) /\ Len(wire[c]) < Page
        /\ \E m \in task[s].page :
             /\ \A other \in task[s].page : m.id <= other.id
             /\ wire' = [wire EXCEPT ![c] = Append(@, m)]
             /\ task' = [task EXCEPT ![s] = IF IsLast(c, m) THEN NoTask
                                            ELSE [task[s] EXCEPT !.page = @ \ {m}, !.cursor = m.id]]
        /\ UNCHANGED <<storeVars, watches, at, last, conn, drops, done, announce, heard, notes>>

\* The page is sent: a full one means there may be more.
PageSent(s) ==
    /\ task[s] # NoTask /\ task[s].pc = "send" /\ task[s].page = {}
    /\ task' = To(s, IF task[s].full THEN "read" ELSE "wait")
    /\ UNCHANGED <<storeVars, watches, at, last, conn, wire, drops, done, announce, heard, notes>>

\* Mutant: a hint that came while the task read is not looked at.
HintForgotten(s) ==
    /\ task[s] # NoTask /\ task[s].pc = "wait" /\ task[s].hinted
    /\ task' = [task EXCEPT ![s].hinted = FALSE]
    /\ UNCHANGED <<storeVars, watches, at, last, conn, wire, drops, done, announce, heard, notes>>

\* wait: a hint, everyone's hint or a lag.
Hinted(s) ==
    /\ task[s] # NoTask /\ task[s].pc = "wait" /\ task[s].hinted
    /\ task' = [task EXCEPT ![s].pc = "read", ![s].hinted = FALSE]
    /\ UNCHANGED <<storeVars, watches, at, last, conn, wire, drops, done, announce, heard, notes>>

Poll(s) ==
    /\ task[s] # NoTask /\ task[s].pc = "wait"
    /\ task' = To(s, "read")
    /\ UNCHANGED <<storeVars, watches, at, last, conn, wire, drops, done, announce, heard, notes>>

\* Mutant: a closed channel is noticed only when a message is to be sent.
NoticeGoneOnSend(s) ==
    /\ task[s] # NoTask /\ Gone(s)
    /\ task[s].pc = "send" /\ task[s].page # {}
    /\ task' = [task EXCEPT ![s] = NoTask]
    /\ UNCHANGED <<storeVars, watches, at, last, conn, wire, drops, done, announce, heard, notes>>

\* The channel is closed: found while waiting, or when a send fails.
NoticeGone(s) ==
    /\ task[s] # NoTask /\ Gone(s)
    /\ task[s].pc = "wait" \/ (task[s].pc = "send" /\ task[s].page # {})
    /\ task' = [task EXCEPT ![s] = NoTask]
    /\ UNCHANGED <<storeVars, watches, at, last, conn, wire, drops, done, announce, heard, notes>>

\* A store error ends the stream; the client resumes from its last event.
ReadFails(s) ==
    /\ task[s] # NoTask /\ task[s].pc = "read" /\ drops < MaxDrops
    /\ drops' = drops + 1
    /\ task' = [task EXCEPT ![s] = NoTask]
    /\ UNCHANGED <<storeVars, watches, at, last, conn, wire, done, announce, heard, notes>>

\* A bound: nothing is appended that no client could be sent.
Watched(r) == \E c \in Clients : watches[c] \in {r, OwnerOf[r]}

Store(r) ==
    \/ Watched(r) /\ Insert(r) /\ UNCHANGED streamVars
    \/ (Number(r) \/ RollBack(r)) /\ UNCHANGED streamVars
    \/ /\ Commit(r)
       /\ announce' = [announce EXCEPT ![OwnerOf[r]] = IF Announced = {} THEN @ ELSE @ + 1]
       /\ UNCHANGED <<watches, at, last, conn, wire, drops, done, task, heard, notes>>

Prune(q) == (Cut(q) \/ Mark(q)) /\ UNCHANGED streamVars

\* A bound: time passes for a client that pruning could reach.
Time == (\E c \in Clients : ~IsRun(c)) /\ Tick /\ UNCHANGED streamVars

Serve(s) == ReadEnd(s) \/ Read(s) \/ Send(s) \/ PageSent(s) \/ Hinted(s) \/ Poll(s) \/ NoticeGone(s)

Watch(c) == Connect(c) \/ NoContent(c) \/ Receive(c) \/ StreamEnds(c)

Next ==
    \/ \E r \in Runs : Store(r)
    \/ \E q \in Pruners : Prune(q)
    \/ Time
    \/ \E p \in Principals : Notify(p) \/ Listen(p)
    \/ ListenerLost \/ ListenerBack
    \/ \E c \in Clients : Watch(c) \/ Drop(c)
    \/ \E s \in Tasks : Serve(s) \/ ReadFails(s)

Spec == Init /\ [][Next]_vars

\* The runtime runs every ready task, waiting tasks poll, a wait that starts
\* on a closed channel finds it at once (strong fairness), and clients read
\* and reconnect; nothing makes an append commit or a pruner run.
Fairness ==
    /\ \A s \in Tasks : WF_vars(Serve(s)) /\ SF_vars(NoticeGone(s))
    /\ \A c \in Clients : WF_vars(Watch(c))

FairSpec == Spec /\ Fairness

(***************************************************************************)
(* Properties                                                              *)
(***************************************************************************)
\* The lists clients watch, and how much of them was pruned.
Feeds ==
    [l \in Principals \cup Runs |->
        IF l \in Runs THEN [i \in 1..log[l].n |-> <<l, i>>] ELSE stored[l]]

Marks == [l \in Principals \cup Runs |-> IF l \in Runs THEN 0 ELSE counter[l].pruned]

\* What the code promises a client, however appends, pruning, hints and
\* connections interleave: each entry of its list once and in order, or a
\* reset because it fell behind what was pruned (stream.rs outbox_stream,
\* run_stream; postgres.rs EventRows::insert, prune_outbox).
F == INSTANCE Feed WITH Lists <- Principals \cup Runs, of <- watches, feed <- Feeds, pruned <- Marks

ClientsAreFed == F!Spec

\* No stream sleeps through news: while the listener is up and every commit
\* was announced, a task that waits with no hint pending has sent everything
\* stored (stream.rs: subscribed before the first read; postgres.rs listen
\* wakes every stream when it comes back).
NoStreamSleepsOnNews ==
    \A s \in Tasks : task[s] # NoTask /\ task[s].pc = "wait" /\ ~task[s].hinted =>
        LET c == task[s].client
            p == Owner(c)
        IN  \/ ~heard \/ announce[p] > 0 \/ p \in notes
            \/ task[s].cursor >= IF IsRun(c) THEN log[watches[c]].n ELSE counter[p].last

\* A client that keeps reconnecting gets everything in the end, even when
\* every NOTIFY is lost, and a run's client is told that the run is over
\* (stream.rs wait polls; the slot of a stream whose client left is freed).
EveryClientCatchesUp ==
    \A c \in Clients : <>[](
        IF IsRun(c) THEN at[c] = log[watches[c]].n /\ (log[watches[c]].ended => done[c])
        ELSE at[c] # Nowhere => at[c] = counter[watches[c]].last)

(***************************************************************************)
(* The instance TLC checks.                                                *)
(***************************************************************************)
OneOwner == [r \in Runs |-> CHOOSE p \in Principals : TRUE]

\* A commit is announced to Postgres, after a hint on this server or without.
Always == {<<TRUE, TRUE>>, <<FALSE, TRUE>>}
=============================================================================
