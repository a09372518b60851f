----------------------------- MODULE TopicFile -----------------------------
(***************************************************************************)
(* TopicIO: the file of one public topic, and what reading it returns.     *)
(* Each TopicIO keeps the records it has read once, and reads no more.     *)
(*                                                                         *)
(* The file is a sequence of frames, each one record behind the header of  *)
(* the archive that wrote it. A frame longer than the buffer of the stream *)
(* is written piece by piece; what is left in the buffer is flushed when   *)
(* the archive is destroyed, as writeToDisk returns, and nobody looks at   *)
(* the result of that flush. A write or a flush that is cut short leaves a *)
(* Torn frame. The file outlives the process; opened, the state of         *)
(* sharedFile, does not.                                                   *)
(***************************************************************************)
EXTENDS Naturals, Sequences

CONSTANTS
  Messages,    \* keys, headers and value of a record
  Torn,        \* a frame whose write was cut short
  MaxRecords   \* bound: no insert starts once the file has this many frames

VARIABLES
  exists,   \* the file is there
  file,     \* its frames
  opened    \* sharedFile.is_open()

fileVars == <<exists, file, opened>>

LogRecord == [offset : Nat, message : Messages]

ASSUME TopicFileAssumption == MaxRecords \in Nat /\ Torn \notin LogRecord

-----------------------------------------------------------------------------
(* Reading. fillVector reads frames from the start; it stops where the     *)
(* stream ends, which the last frame, if torn, also makes it do.           *)

TearFree(f) == \A i \in 1 .. Len(f) : f[i] # Torn

(* How many frames precede the first tear. *)
WholeLength(f) ==
  CHOOSE n \in 0 .. Len(f) :
    /\ TearFree(SubSeq(f, 1, n))
    /\ n < Len(f) => f[n + 1] = Torn

WholePrefix(f) == SubSeq(f, 1, WholeLength(f))

TearInside(f) == WholeLength(f) + 1 < Len(f)

(* A record put together from the bytes around a tear. *)
Blend == {<< >>} \cup {<<[offset |-> n, message |-> m]>> :
                         n \in 0 .. MaxRecords, m \in Messages}

(* Past a tear inside the file the bytes the torn frame lacks are taken    *)
(* from the next one, which is lost. The reader may stop there, return one *)
(* record that was never written, or skip bytes until some later frame     *)
(* reads again ("Skip invalid data").                                      *)
Readings(f) ==
  LET n == WholeLength(f)
      resumed == {WholePrefix(SubSeq(f, j, Len(f))) : j \in (n + 3) .. (Len(f) + 1)}
  IN  IF TearInside(f)
      THEN {WholePrefix(f) \o b \o r : b \in Blend, r \in resumed}
      ELSE {WholePrefix(f)}

(* What fillVector leaves in the cache of the TopicIO that reads.          *)
FillVector == IF exists THEN Readings(file) ELSE {<< >>}

(* Mutant: neither looked at nor cleared before it is filled. *)
ReadThrough_appends(cache, data) == cache \o data

(* Every read starts from the cache, which is filled only while empty, and *)
(* never dropped. readAllRecords returns all of it.                        *)
ReadThrough(cache, data) == IF cache = << >> THEN data ELSE cache

(* Mutant: the last k instead. *)
FromHead_at_the_end(data, k) ==
  SubSeq(data, IF k < Len(data) THEN Len(data) - k + 1 ELSE 1, Len(data))

(* readRecordsFromHead: the first k, in order.                             *)
FromHead(data, k) == SubSeq(data, 1, IF k < Len(data) THEN k ELSE Len(data))

(* readRecordsFromTail: the last k, read backwards: the newest comes first. *)
FromTail(data, k) ==
  [i \in 1 .. (IF k < Len(data) THEN k ELSE Len(data)) |-> data[Len(data) + 1 - i]]

-----------------------------------------------------------------------------
(* Writing.                                                                *)

(* Mutant: opened without ios::app, which empties the file. *)
OpenSharedFile_truncates ==
  /\ ~opened
  /\ opened' = TRUE
  /\ exists' = TRUE
  /\ file' = << >>

(* openSharedFile creates the file if need be, and appends to it. *)
OpenSharedFile ==
  /\ ~opened
  /\ opened' = TRUE
  /\ exists' = TRUE
  /\ UNCHANGED file

(* A write that succeeds, its flush included. *)
WriteFrame(frame) ==
  /\ opened
  /\ file' = Append(file, frame)
  /\ UNCHANGED <<exists, opened>>

(* ~TopicIO, and the end of the process. *)
CloseSharedFile ==
  /\ opened' = FALSE
  /\ UNCHANGED <<exists, file>>

=============================================================================
