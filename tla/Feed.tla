-------------------------------- MODULE Feed --------------------------------
(***************************************************************************)
(* What the outbox and its streams promise a client, without transactions, *)
(* pages, hints, polls or connections: a principal's outbox and a run's log *)
(* are growing lists of entries; a client that has its first entry is given *)
(* each next one exactly once and in order, or is told to start over from   *)
(* the place up to which the list was pruned, and only when it has fallen   *)
(* behind it.                                                               *)
(***************************************************************************)
EXTENDS Integers, Sequences

CONSTANTS Lists, Clients

VARIABLES
    of,      \* per client: the list it watches
    feed,    \* per list: every entry ever stored, in order
    pruned,  \* per list: how many of them were pruned
    at,      \* per client: its place in the feed, Nowhere before its first entry
    last     \* per client: the last entry it was given, <<>> for none

feedVars == <<of, feed, pruned, at, last>>

Nowhere == -1

Init ==
    /\ of \in [Clients -> Lists]
    /\ feed = [l \in Lists |-> <<>>]
    /\ pruned = [l \in Lists |-> 0]
    /\ at \in [Clients -> {Nowhere, 0}]
    /\ last = [c \in Clients |-> <<>>]

\* Entries of one run, in a row.
InARow(batch) ==
    \A i \in 1..(Len(batch) - 1) : batch[i + 1] = <<batch[i][1], batch[i][2] + 1>>

\* One append: to its principal's list and to its run's.
Extend ==
    /\ DOMAIN feed' = Lists
    /\ \A l \in Lists :
         LET batch == SubSeq(feed'[l], Len(feed[l]) + 1, Len(feed'[l]))
         IN  feed'[l] = feed[l] \o batch /\ InARow(batch)
    /\ UNCHANGED <<of, pruned, at, last>>

Prune ==
    /\ pruned' \in [Lists -> Nat]
    /\ \A l \in Lists : pruned[l] <= pruned'[l] /\ pruned'[l] <= Len(feed[l])
    /\ UNCHANGED <<of, feed, at, last>>

Give(c) ==
    /\ at'[c] \in 1..Len(feed[of[c]])
    /\ at[c] = Nowhere \/ at'[c] = at[c] + 1
    /\ at' = [at EXCEPT ![c] = at'[c]]
    /\ last' = [last EXCEPT ![c] = feed[of[c]][at'[c]]]
    /\ UNCHANGED <<of, feed, pruned>>

StartOver(c) ==
    /\ at[c] # Nowhere => at[c] < at'[c]
    /\ at'[c] \in 1..pruned[of[c]]
    /\ at' = [at EXCEPT ![c] = at'[c]]
    /\ last' = [last EXCEPT ![c] = <<>>]
    /\ UNCHANGED <<of, feed, pruned>>

Next == Extend \/ Prune
        \/ (\E c \in Clients : Give(c) \/ StartOver(c))

Spec == Init /\ [][Next]_feedVars
=============================================================================
