---------------------------- MODULE TopicPublic ----------------------------
(***************************************************************************)
(* TopicPublicDefinition: a public topic, kept in a file and in two        *)
(* buffers, by a process that is stopped, or crashes, and is started       *)
(* again. An insert assigns the offset, opens the file if need be, writes, *)
(* and pushes on the recent buffer; a crash may come between any two.      *)
(*                                                                         *)
(* Faults is the set of failures a model allows, each of them any number   *)
(* of times, in any order:                                                 *)
(*   "crash"  the process dies between two steps                           *)
(*   "tear"   ... or in the middle of a write                              *)
(*   "look"   a file that is there does not open for fileExists or a read  *)
(*   "open"   the file does not open for writing, or cannot be created     *)
(*   "write"  a write throws                                               *)
(*   "flush"  the flush at the end of a write fails, and nobody notices    *)
(*                                                                         *)
(* A reader is a second TopicIO on the file, of any thread or process: it  *)
(* lives as long as it likes and shares nothing with the topic but the     *)
(* file. printDiskData makes one that reads once.                          *)
(***************************************************************************)
EXTENDS TopicFile

CONSTANTS
  NewSizes,     \* the bufferSize a topic is given when it has no file yet
  ReloadSizes,  \* ... and when it has one
  Restarts,     \* whether the process may end and be started again
  Readers,      \* whether there are readers
  Faults

ASSUME TopicPublicAssumption ==
  /\ NewSizes \subseteq Nat
  /\ ReloadSizes \subseteq Nat
  /\ Restarts \in BOOLEAN
  /\ Readers \in BOOLEAN
  /\ Faults \subseteq {"crash", "tear", "look", "open", "write", "flush"}

VARIABLES
  bufferSize,
  pc,          \* "none" while no process holds the topic
  recent,      \* recentBuffer
  oldest,      \* oldestBuffer
  pending,     \* the record insert is working on
  cache,       \* vectorAllData of the reader, if there is one
  acked,       \* history: the records whose insert returned
  born,        \* history: how many had returned when the topic was constructed
  failed       \* history: the failures, other than crashes, that have happened

buffers == <<bufferSize, recent, oldest, pending>>
history == <<acked, born, failed>>
topicVars == <<fileVars, pc, buffers, history>>
vars == <<topicVars, cache>>

Init ==
  /\ exists = FALSE
  /\ file = << >>
  /\ opened = FALSE
  /\ pc = "none"
  /\ recent = << >>
  /\ oldest = << >>
  /\ bufferSize = 0
  /\ pending = << >>
  /\ cache = << >>
  /\ acked = << >>
  /\ born = 0
  /\ failed = {}

Fail(kind) ==
  /\ kind \in Faults
  /\ failed' = failed \cup {kind}

-----------------------------------------------------------------------------
(* The constructor and its end.                                            *)

(* Mutant: only the oldest buffer is loaded. *)
LoadBuffers_no_recent(seen, tail, head) ==
  /\ recent' = << >>
  /\ oldest' = IF seen THEN FromHead(tail, bufferSize') ELSE << >>

(* Mutant: the recent buffer loaded from the head of the file. *)
LoadBuffers_from_head(seen, tail, head) ==
  /\ recent' = IF seen THEN FromHead(tail, bufferSize') ELSE << >>
  /\ oldest' = IF seen THEN FromHead(ReadThrough(tail, head), bufferSize') ELSE << >>

(* initialLoadBufferFromDisk. The first read fills the cache the second    *)
(* one uses. Past a tear, bytes read as a length may also ask for more     *)
(* memory than there is, an exception nobody catches: there is then no     *)
(* topic, and no step here.                                                *)
LoadBuffers(seen, tail, head) ==
  /\ recent' = IF seen THEN FromTail(tail, bufferSize') ELSE << >>
  /\ oldest' = IF seen THEN FromHead(ReadThrough(tail, head), bufferSize') ELSE << >>

(* A negative bufferSize throws where the buffers are reserved.            *)
NewLife ==
  /\ pc = "none"
  /\ pc' = "ready"
  /\ bufferSize' \in IF exists THEN ReloadSizes ELSE NewSizes
  /\ born' = Len(acked)
  /\ UNCHANGED <<fileVars, pending, acked>>

Construct ==
  /\ NewLife
  /\ \E data \in FillVector : LoadBuffers(exists, data, data)
  /\ UNCHANGED failed

(* Any of the opens fails: the file is taken for missing by the            *)
(* constructor, or for empty by one of the reads.                          *)
ConstructBlind ==
  /\ exists
  /\ Fail("look")
  /\ NewLife
  /\ \/ LoadBuffers(FALSE, << >>, << >>)
     \/ \E data \in FillVector : LoadBuffers(TRUE, << >>, data)

(* The process is gone, and with it everything but the file.               *)
EndLife ==
  /\ pc' = "none"
  /\ bufferSize' = 0
  /\ recent' = << >>
  /\ oldest' = << >>
  /\ pending' = << >>
  /\ UNCHANGED <<acked, born>>

Destroy ==
  /\ Restarts
  /\ pc = "ready"
  /\ EndLife
  /\ CloseSharedFile
  /\ UNCHANGED failed

Crash ==
  /\ "crash" \in Faults
  /\ pc # "none"
  /\ EndLife
  /\ CloseSharedFile
  /\ UNCHANGED failed

CrashInWrite ==
  /\ pc = "write" /\ opened
  /\ Fail("tear")
  /\ EndLife
  /\ file' = Append(file, Torn)
  /\ opened' = FALSE
  /\ UNCHANGED exists

-----------------------------------------------------------------------------
(* insert.                                                                 *)

InBounds == Len(file) < MaxRecords /\ Len(acked) < MaxRecords

AssignOffset(n, m) ==
  /\ pending' = [offset |-> n, message |-> m]
  /\ pc' = "write"
  /\ UNCHANGED <<fileVars, bufferSize, recent, oldest, acked, born>>

(* Mutant: one more than the front of the recent buffer. *)
InsertNext_from_front(m) ==
  /\ pc = "ready" /\ InBounds
  /\ recent # << >>
  /\ AssignOffset(recent[1].offset + 1, m)
  /\ UNCHANGED failed

(* getAutoIncrementedOffset: one more than the back of the recent buffer.  *)
InsertNext(m) ==
  /\ pc = "ready" /\ InBounds
  /\ recent # << >>
  /\ AssignOffset(recent[Len(recent)].offset + 1, m)
  /\ UNCHANGED failed

(* Mutant: the file looked for before the buffer. *)
InsertFirst_file_before_buffer(m) ==
  /\ pc = "ready" /\ InBounds
  /\ \/ ~exists /\ UNCHANGED failed
     \/ exists /\ Fail("look")
  /\ AssignOffset(0, m)

(* ... 0 for a topic with no file, or with one that does not open ...      *)
InsertFirst(m) ==
  /\ pc = "ready" /\ InBounds
  /\ recent = << >>
  /\ \/ ~exists /\ UNCHANGED failed
     \/ exists /\ Fail("look")
  /\ AssignOffset(0, m)

(* ... and "Topic should be loaded to recent first" otherwise.             *)
InsertRefused ==
  /\ pc = "ready"
  /\ recent = << >>
  /\ exists
  /\ pc' = "thrown"
  /\ UNCHANGED <<fileVars, buffers, history>>

(* writeToDisk opens the file on first use.                                *)
OpenForWrite ==
  /\ pc = "write"
  /\ OpenSharedFile
  /\ UNCHANGED <<pc, buffers, history>>

(* An open that fails is logged; writeToDisk returns as if it had written. *)
OpenFails ==
  /\ pc = "write" /\ ~opened
  /\ Fail("open")
  /\ pc' = "push"
  /\ UNCHANGED <<fileVars, buffers, acked, born>>

Write ==
  /\ pc = "write"
  /\ WriteFrame(pending)
  /\ pc' = "push"
  /\ UNCHANGED <<buffers, history>>

(* Mutant: one record fewer than the buffer holds. *)
PushOn_off_by_one(buffer, r) ==
  LET longer == Append(buffer, r)
  IN  IF Len(longer) >= bufferSize THEN Tail(longer) ELSE longer

(* push_back, then the front is erased if the buffer has grown too long.   *)
PushOn(buffer, r) ==
  LET longer == Append(buffer, r)
  IN  IF Len(longer) > bufferSize THEN Tail(longer) ELSE longer

(* Mutant: the record pushed on the buffer before it is written. *)
WriteThrows_after_push ==
  /\ pc = "write" /\ opened
  /\ Fail("write")
  /\ file' \in {file, Append(file, Torn)}
  /\ recent' = PushOn(recent, pending)
  /\ pending' = << >>
  /\ pc' = "thrown"
  /\ UNCHANGED <<exists, opened, bufferSize, oldest, acked, born>>

(* The exception leaves insert, with nothing or a part of the frame        *)
(* written; the stream stays open.                                         *)
WriteThrows ==
  /\ pc = "write" /\ opened
  /\ Fail("write")
  /\ file' \in {file, Append(file, Torn)}
  /\ pending' = << >>
  /\ pc' = "thrown"
  /\ UNCHANGED <<exists, opened, bufferSize, recent, oldest, acked, born>>

(* A record that fits the buffer of the stream is first written when the   *)
(* archive, on its way out, flushes it: a flush that fails leaves nothing  *)
(* or a part of the frame, and writeToDisk returns as if it had written.   *)
(* What the stream does after that is left open: it may write again, throw *)
(* or take the process with it, but never brings back what it lost.        *)
FlushFails ==
  /\ pc = "write" /\ opened
  /\ Fail("flush")
  /\ file' \in {file, Append(file, Torn)}
  /\ pc' = "push"
  /\ UNCHANGED <<exists, opened, buffers, acked, born>>

(* Mutant: the record pushed after it was moved from. *)
Push_moved_record ==
  /\ pc = "push"
  /\ pending' = << >>
  /\ recent' = PushOn(recent, pending')
  /\ acked' = Append(acked, pending')
  /\ pc' = "ready"
  /\ UNCHANGED <<fileVars, bufferSize, oldest, born, failed>>

(* The push, and the return: only now does the caller know.                *)
Push ==
  /\ pc = "push"
  /\ recent' = PushOn(recent, pending)
  /\ pending' = << >>
  /\ acked' = Append(acked, pending)
  /\ pc' = "ready"
  /\ UNCHANGED <<fileVars, bufferSize, oldest, born, failed>>

(* The caller survives the exception and may insert again.                 *)
Catch ==
  /\ pc = "thrown"
  /\ pc' = "ready"
  /\ UNCHANGED <<fileVars, buffers, history>>

Topic ==
  \/ Construct \/ ConstructBlind
  \/ Destroy \/ Crash \/ CrashInWrite
  \/ \E m \in Messages : InsertNext(m) \/ InsertFirst(m)
  \/ InsertRefused
  \/ OpenForWrite \/ OpenFails
  \/ Write \/ WriteThrows \/ FlushFails
  \/ Push \/ Catch

-----------------------------------------------------------------------------
(* The reader. What it may find of a frame that is being written looks to  *)
(* it like the end of the file.                                            *)

Read ==
  /\ Readers
  /\ \E data \in FillVector : cache' = ReadThrough(cache, data)
  /\ UNCHANGED topicVars

ReaderEnds ==
  /\ cache # << >>
  /\ cache' = << >>
  /\ UNCHANGED topicVars

Next ==
  \/ Topic /\ UNCHANGED cache
  \/ Read
  \/ ReaderEnds

Spec == Init /\ [][Next]_vars

-----------------------------------------------------------------------------

TypeOK ==
  /\ exists \in BOOLEAN
  /\ opened \in BOOLEAN
  /\ file \in Seq(LogRecord \cup {Torn})
  /\ pc \in {"none", "ready", "write", "push", "thrown"}
  /\ bufferSize \in NewSizes \cup ReloadSizes \cup {0}
  /\ cache \in Seq(LogRecord)
  /\ recent \in Seq(LogRecord)
  /\ oldest \in Seq(LogRecord)
  /\ pending \in LogRecord \cup {<< >>}
  /\ acked \in Seq(LogRecord)
  /\ born \in 0 .. Len(acked)
  /\ failed \subseteq Faults

(* The recent buffer is the end of the file, in file order, whenever no    *)
(* insert is under way: what readers are served and what the next offset   *)
(* is counted from agree with the disk.                                    *)
RecentIsEndOfFile ==
  pc = "ready" =>
    LET n == IF bufferSize < Len(file) THEN bufferSize ELSE Len(file)
    IN  recent = SubSeq(file, Len(file) - n + 1, Len(file))

StartsFile(records) ==
  /\ Len(records) <= Len(file)
  /\ \A i \in 1 .. Len(records) : records[i] = file[i]

(* The oldest buffer, while it lives, starts the file: records are only    *)
(* added behind it.                                                        *)
OldestStartsFile == StartsFile(oldest)

(* A topic constructed anew shows the earliest data: its oldest buffer     *)
(* starts the file and has, up to its size, as many records as had been    *)
(* acknowledged by then, through crashes at any moment and whatever is     *)
(* inserted since. insert never adds to it: see the next property.         *)
OldestHoldsStart ==
  /\ OldestStartsFile
  /\ pc # "none" => Len(oldest) >= (IF bufferSize < born THEN bufferSize ELSE born)

(* "We need to have buffer on both ends. The most recent inserted and the  *)
(* earliest instered data": whenever no insert is under way, the oldest    *)
(* buffer is the start of the file.                                        *)
OldestIsStartOfFile ==
  pc = "ready" =>
    oldest = SubSeq(file, 1, IF bufferSize < Len(file) THEN bufferSize ELSE Len(file))

(* A reader that has read is never told of later records; but what it was  *)
(* told stays the start of the file, through all that is inserted since    *)
(* and all the ends of the process that inserts.                           *)
ReaderSeesStart == StartsFile(cache)

(* insert refuses only a topic whose file was created and never written,   *)
(* or one that is given no room for its newest record: any other topic can *)
(* be inserted into, after every restart.                                  *)
RefusedOnlyWhenEmpty == pc = "thrown" => file = << >> \/ bufferSize = 0

(* "All the data should be persistent": a record whose insert returned is  *)
(* in the file, once and for all.                                          *)
AckedOnDisk ==
  \A i \in 1 .. Len(acked) : \E j \in 1 .. Len(file) : file[j] = acked[i]

(* ... provided no failure was dropped on the way: neither a file that     *)
(* does not open for writing nor a flush that fails is told to insert.     *)
(* Crashes, torn writes, writes that throw and files taken for missing     *)
(* lose nothing that was acknowledged.                                     *)
AckedOnDiskIfWritten == {"open", "flush"} \cap failed # {} \/ AckedOnDisk

(* Up to the first tear the file is a log with offsets 0, 1, 2, ...: what  *)
(* a crash, a torn write or one that throws leaves behind does not spoil   *)
(* what was written before it, nor the counting. A record that was lost    *)
(* unnoticed leaves a gap, and a file taken for missing is counted anew.   *)
WholePrefixDense ==
  {"look", "open", "flush"} \cap failed # {} \/
    \A i \in 1 .. WholeLength(file) : file[i].offset = i - 1

(* ... but no more than a gap: while the file is found when it is there,   *)
(* the offsets up to the first tear grow, however often opens, writes and  *)
(* flushes fail and the process dies, so none is given twice.              *)
PrefixIncreases ==
  "look" \in failed \/
    \A i, j \in 1 .. WholeLength(file) : i < j => file[i].offset < file[j].offset

(* Within one life of the process the offsets of the acknowledged inserts  *)
(* follow each other, whatever fails and however often: also while the     *)
(* file can be neither found nor opened from the first insert on.          *)
ConsecutiveInLife ==
  \A i \in (born + 1) .. (Len(acked) - 1) :
    acked[i + 1].offset = acked[i].offset + 1

(* "Offset should be incremented on the insert time automatically": no two *)
(* records of the file have the same offset.                               *)
FileOffsetsUnique ==
  \A i, j \in 1 .. Len(file) :
    (file[i] # Torn /\ file[j] # Torn /\ file[i].offset = file[j].offset) => i = j

(* The file as an append-only log with automatic offsets.                  *)
FileLog == INSTANCE AppendLog WITH log <- file
FileImplementsLog == FileLog!Spec

=============================================================================
