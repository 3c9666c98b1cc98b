----------------------------- MODULE BendCompile -----------------------------
(***************************************************************************)
(* Compiling a Bend workflow (crates/workflow-bend): the sources are       *)
(* staged in a new directory, then Bend is run three times there, for its  *)
(* version, for the proof check and for the program's line.  Each run is a *)
(* process group with two pipes; two threads read them, up to a limit, and *)
(* the main thread polls for an overrun, the child's exit and the deadline.*)
(* What Bend prints is right or not; the line itself is BendLine.tla.      *)
(***************************************************************************)
EXTENDS Naturals, Sequences

CONSTANTS Limit,       \* bytes of a pipe that are kept
          MaxWrite,    \* bytes written to a pipe by one run
          Attempts,    \* names tried for the directory
          Files,       \* how many files are staged
          Forks        \* whether Bend's own processes end before it does: "waited", or
                       \* may be left behind with its pipes: "left"
CompileAssumption == /\ Limit \in Nat /\ MaxWrite \in Nat
                     /\ Attempts \in Nat \ {0} /\ Files \in Nat /\ Forks \in {"waited", "left"}

VARIABLES
    pc, phase,         \* of the compiling thread
    tries, staged,     \* names tried; files staged, in `dir`
    dir,               \* whether the staging directory exists
    child, status,     \* none, running, zombie or reaped; how it exited
    fork,              \* a process of the child's group is alive
    pipe, sent,        \* bytes unread and ever written, per pipe
    reader,            \* the reader threads
    flag,              \* a reader has met an overrun
    expired,           \* the deadline of this run has passed
    result

vars == <<pc, phase, tries, staged, dir, child, status, fork, pipe, sent, reader, flag,
          expired, result>>
main == <<pc, phase, tries, staged, dir, result>>
group == <<child, status, fork, sent>>

Pipes == {"stdout", "stderr"}
Phases == <<"version", "proof", "encode">>
Fresh == [got |-> 0, at |-> "reading"]

Init == /\ pc = "stage" /\ phase = 1
        /\ tries = 0 /\ staged = 0 /\ dir = FALSE
        /\ child = "none" /\ status = "none" /\ fork = FALSE
        /\ pipe = [p \in Pipes |-> 0] /\ sent = [p \in Pipes |-> 0]
        /\ reader = [p \in Pipes |-> Fresh]
        /\ flag = FALSE /\ expired = FALSE
        /\ result = "none"

(* compile returns, and dropping the staged sources removes the directory. *)
Return(answer) == pc' = "returned" /\ result' = answer /\ dir' = FALSE

-----------------------------------------------------------------------------
(* A random name: free, taken by someone else, or the last one tried. *)
create_private_dir ==
    /\ pc = "stage" /\ ~dir
    /\ \/ dir' = TRUE /\ UNCHANGED <<pc, tries, result>>
       \/ /\ tries + 1 < Attempts
          /\ tries' = tries + 1
          /\ UNCHANGED <<pc, dir, result>>
       \/ /\ tries + 1 = Attempts
          /\ Return("setup")
          /\ UNCHANGED tries
    /\ UNCHANGED <<phase, staged, child, status, fork, pipe, sent, reader, flag, expired>>

(* What reading a source and writing its copy may answer. *)
read_source == {"ok", "setup", "limit", "encoding"}
write_new == {"ok", "setup"}

(* One file is read, its main checked when it is run, and written anew. *)
stageFile ==
    /\ pc = "stage" /\ dir /\ staged < Files
    /\ \E answer \in read_source \cup write_new :
          IF answer = "ok" THEN staged' = staged + 1 /\ UNCHANGED <<pc, dir, result>>
          ELSE Return(answer) /\ UNCHANGED staged
    /\ UNCHANGED <<phase, tries, child, status, fork, pipe, sent, reader, flag, expired>>

(* A run starts: the child in a group of its own, and its readers. *)
spawn == /\ \/ pc = "stage" /\ dir /\ staged = Files
            \/ pc = "next"
         /\ pc' = "poll"
         /\ child' = "running" /\ status' = "none" /\ fork' = FALSE
         /\ pipe' = [p \in Pipes |-> 0] /\ sent' = [p \in Pipes |-> 0]
         /\ reader' = [p \in Pipes |-> Fresh]
         /\ flag' = FALSE /\ expired' = FALSE
         /\ UNCHANGED <<phase, tries, staged, dir, result>>

spawnFailed == /\ \/ pc = "stage" /\ dir /\ staged = Files
                  \/ pc = "next"
               /\ Return("setup")
               /\ UNCHANGED <<phase, tries, staged, child, status, fork, pipe, sent, reader, flag,
                              expired>>

(* The poll: an overrun first, then the child, then the deadline. *)
pollFlag == /\ pc = "poll"
            /\ pc' = IF flag THEN "killLimit" ELSE "wait"
            /\ UNCHANGED <<phase, tries, staged, dir, child, status, fork, pipe, sent, reader,
                           flag, expired, result>>

(* A wait that fails: compile returns as it is, and nobody looks at the    *)
(* group, the child or the readers again.                                  *)
waitFailed == Return("unwaited") /\ UNCHANGED child

\* Mutant: the deadline is not looked at.
try_waitPatient ==
            /\ pc = "wait"
            /\ \/ child = "zombie" /\ child' = "reaped" /\ pc' = "join" /\ UNCHANGED <<dir, result>>
               \/ child = "running" /\ pc' = "poll" /\ UNCHANGED <<child, dir, result>>
               \/ waitFailed
            /\ UNCHANGED <<phase, tries, staged, status, fork, pipe, sent, reader, flag, expired>>

try_wait == /\ pc = "wait"
            /\ \/ child = "zombie" /\ child' = "reaped" /\ pc' = "join" /\ UNCHANGED <<dir, result>>
               \/ /\ child = "running"
                  /\ pc' = IF expired THEN "killTimeout" ELSE "poll"
                  /\ UNCHANGED <<child, dir, result>>
               \/ waitFailed
            /\ UNCHANGED <<phase, tries, staged, status, fork, pipe, sent, reader, flag, expired>>

(* SIGKILL to the group, and the child is reaped. *)
kill_group ==
    /\ pc \in {"killLimit", "killTimeout"}
    /\ child' = "reaped" /\ fork' = FALSE
    /\ pc' = IF pc = "killLimit" THEN "joinLimit" ELSE "joinTimeout"
    /\ UNCHANGED <<phase, tries, staged, dir, status, pipe, sent, reader, flag, expired, result>>

Joined == \A p \in Pipes : reader[p].at # "reading"

joinKilled == /\ pc \in {"joinLimit", "joinTimeout"}
              /\ Joined
              /\ Return(IF pc = "joinLimit" THEN "limit" ELSE "timeout")
              /\ UNCHANGED <<phase, tries, staged, child, status, fork, pipe, sent, reader, flag,
                             expired>>

\* Mutant: the flag is not looked at again after the child's exit.
OverrunSeen == FALSE

Overrun == \E p \in Pipes : reader[p].at = "over"

(* What the phase asks of a run: success, the expected text and nothing on *)
(* stderr.                                                                 *)
Right == status = "expected" /\ reader["stderr"].got = 0
Wrong == [version |-> "version", proof |-> "proof", encode |-> "encoding"][Phases[phase]]

(* The child has exited: its readers are waited for, then what they kept   *)
(* is looked at.                                                           *)
join_reader ==
    /\ pc = "join"
    /\ Joined
    /\ CASE Overrun -> Return("limit") /\ UNCHANGED phase
         [] ~Overrun /\ ~Right -> Return(Wrong) /\ UNCHANGED phase
         [] ~Overrun /\ Right /\ phase < Len(Phases) ->
               pc' = "next" /\ phase' = phase + 1 /\ UNCHANGED <<dir, result>>
         [] ~Overrun /\ Right /\ phase = Len(Phases) -> Return("program") /\ UNCHANGED phase
    /\ UNCHANGED <<tries, staged, child, status, fork, pipe, sent, reader, flag, expired>>

-----------------------------------------------------------------------------
room(p) == Limit - reader[p].got

(* A reader takes what is there, up to its limit; it ends at the end of    *)
(* the pipe, once no process holds the other end, or at an overrun.        *)
read_capped(p) ==
    /\ reader[p].at = "reading" /\ pipe[p] > 0
    /\ IF pipe[p] > room(p)
       THEN /\ reader' = [reader EXCEPT ![p] = [got |-> @.got + room(p), at |-> "over"]]
            /\ flag' = TRUE
       ELSE /\ reader' = [reader EXCEPT ![p].got = @ + pipe[p]]
            /\ UNCHANGED flag
    /\ pipe' = [pipe EXCEPT ![p] = 0]
    /\ UNCHANGED <<main, group, expired>>

HeldOpen == child = "running" \/ fork

endOfPipe(p) == /\ reader[p].at = "reading" /\ pipe[p] = 0 /\ child # "none" /\ ~HeldOpen
                /\ reader' = [reader EXCEPT ![p].at = "eof"]
                /\ UNCHANGED <<main, group, pipe, flag, expired>>

-----------------------------------------------------------------------------
(* Bend, which is not part of this repository: it writes, starts a process *)
(* of its own, and exits with the expected text or another.                *)
Write(p) == /\ HeldOpen /\ sent[p] < MaxWrite /\ reader[p].at = "reading"
            /\ sent' = [sent EXCEPT ![p] = @ + 1]
            /\ pipe' = [pipe EXCEPT ![p] = @ + 1]
            /\ UNCHANGED <<main, child, status, fork, reader, flag, expired>>

Fork == /\ child = "running" /\ ~fork
        /\ fork' = TRUE
        /\ UNCHANGED <<main, child, status, pipe, sent, reader, flag, expired>>

Exit == /\ child = "running" /\ (fork => Forks = "left")
        /\ child' = "zombie"
        /\ status' \in {"expected", "other"}
        /\ UNCHANGED <<main, fork, pipe, sent, reader, flag, expired>>

ForkEnds == /\ fork
            /\ fork' = FALSE
            /\ UNCHANGED <<main, child, status, pipe, sent, reader, flag, expired>>

Deadline == /\ pc \in {"poll", "wait"} /\ ~expired
            /\ expired' = TRUE
            /\ UNCHANGED <<main, group, pipe, reader, flag>>

Main == \/ create_private_dir \/ stageFile \/ spawn \/ spawnFailed
        \/ pollFlag \/ try_wait \/ kill_group \/ joinKilled \/ join_reader
Read(p) == read_capped(p) \/ endOfPipe(p)
Next == \/ Main \/ Fork \/ Exit \/ ForkEnds \/ Deadline
        \/ \E p \in Pipes : Read(p) \/ Write(p)

Spec == Init /\ [][Next]_vars

(* The threads run and time passes.  Nothing is asked of Bend: it may run  *)
(* for ever, and so may what it leaves behind.                             *)
FairSpec == Spec /\ WF_vars(Main) /\ WF_vars(Deadline)
                 /\ \A p \in Pipes : WF_vars(Read(p))

-----------------------------------------------------------------------------
TypeOK ==
    /\ pc \in {"stage", "next", "poll", "wait", "killLimit", "killTimeout", "joinLimit",
               "joinTimeout", "join", "returned"}
    /\ phase \in DOMAIN Phases /\ tries \in 0..(Attempts - 1) /\ staged \in 0..Files
    /\ child \in {"none", "running", "zombie", "reaped"}
    /\ \A p \in Pipes : reader[p].got \in 0..Limit /\ pipe[p] \in 0..MaxWrite
    /\ (pc = "returned") <=> (result # "none")

(* A run that is let past, and so a program, rests on everything Bend      *)
(* wrote: no byte was cut off or missed, however the reads, the overrun    *)
(* flag and the exit came.                                                 *)
WholeOutput ==
    pc = "next" \/ result = "program" =>
        \A p \in Pipes : reader[p].got = sent[p] /\ pipe[p] = 0 /\ reader[p].at = "eof"

(* An output that fits is not refused as too long: OutputLimit is answered *)
(* only when more was written than is kept, or for a source file.          *)
LimitMeansOverrun ==
    result = "limit" /\ child # "none" => \E p \in Pipes : sent[p] > Limit

(* Where Bend waits for the processes it starts (Forks), and unless the    *)
(* wait for Bend itself failed: when compile returns, no process of its    *)
(* runs is left, the last child is reaped and the staging directory is     *)
(* gone; and as long as a process runs, its directory is there.            *)
NothingLeft ==
    result # "unwaited" =>
        /\ pc = "returned" => child \in {"none", "reaped"} /\ ~fork /\ ~dir
        /\ child = "running" \/ fork => dir

(* compile returns. *)
Returns == <>(pc = "returned")
=============================================================================
