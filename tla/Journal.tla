------------------------------- MODULE Journal -------------------------------
(***************************************************************************)
(* The journal file of a workflow run (crates/runtime-tokio/src/journal.rs)*)
(* as the sequence of its bytes.  A frame is FrameBytes bytes, each named  *)
(* by the record it encodes and its place: bytes of one frame read back as *)
(* its record, bytes of two frames mixed fail the checksum.  A file starts *)
(* with the Start frame.                                                   *)
(***************************************************************************)
EXTENDS Naturals, Sequences, SequencesExt

CONSTANT FrameBytes
FrameBytesAssumption == FrameBytes \in Nat \ {0, 1}

VARIABLE file

StartRecord == [kind |-> "start"]

(* What the journal keeps of a decision that was carried out. *)
ToolRecord(name, output) == [kind |-> "tool", name |-> name, output |-> output]
AgentSpawned(agent) == [kind |-> "spawned", agent |-> agent]

framed(record) == [i \in 1..FrameBytes |-> <<record, i>>]
start_frame == framed(StartRecord)

Invalid == [ok |-> FALSE, records |-> <<>>, whole |-> 0]

(* FrameBytes bytes that begin a frame: they pass the checksum and hold a  *)
(* record of a known kind.                                                 *)
Reads(bytes) == bytes = framed(bytes[1][1]) /\ bytes[1][1].kind \in {"tool", "spawned"}

(* The records and the length of the whole frames; what is past them is a  *)
(* torn tail.                                                              *)
decode(bytes) ==
    LET frames == Len(bytes) \div FrameBytes
        At(j) == SubSeq(bytes, (j - 1) * FrameBytes + 1, j * FrameBytes)
    IN  IF Len(bytes) < FrameBytes /\ IsPrefix(bytes, start_frame)
        THEN [ok |-> TRUE, records |-> <<>>, whole |-> 0]
        ELSE IF ~IsPrefix(start_frame, bytes) \/ \E j \in 2..frames : ~Reads(At(j)) THEN Invalid
        ELSE [ok |-> TRUE,
              records |-> [j \in 1..(frames - 1) |-> At(j + 1)[1][1]],
              whole |-> frames * FrameBytes]

(* The file of a run that committed `records` and lost nothing. *)
FileOf(records) ==
    [n \in 1..(Len(records) + 1) * FrameBytes |->
        LET j == (n - 1) \div FrameBytes
        IN  <<IF j = 0 THEN StartRecord ELSE records[j], ((n - 1) % FrameBytes) + 1>>]

history == decode(file).records

(* Opening reads the file and cuts what a killed commit left; a file that  *)
(* does not read as frames is left alone.  A file without its Start frame  *)
(* gets one, with `append`.                                                *)
Readable == decode(file).ok
NeedsStart == decode(file).whole = 0

\* Mutant: the torn tail stays.
CutNothing == UNCHANGED file

CutTail == file' = SubSeq(file, 1, decode(file).whole)

(* One append of a frame: all of it is written. *)
append(record) == file' = file \o framed(record)

(* The process is killed, or the write and then its roll-back fail, after  *)
(* `n` bytes: they stay.                                                   *)
appendTorn(record, n) == file' = file \o SubSeq(framed(record), 1, n)

(* The write fails part way and is rolled back. *)
appendFailed == UNCHANGED file
=============================================================================
