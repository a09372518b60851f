------------------------- MODULE TopicPublicProofs -------------------------
(***************************************************************************)
(* Proofs about TopicPublic, for any messages, buffer sizes and faults,    *)
(* and a file of any length.                                               *)
(***************************************************************************)
EXTENDS TopicPublic, TopicFileProofs

Last(s) == s[Len(s)]

Front(s) == SubSeq(s, 1, Len(s) - 1)

(* The newest k records of a file. *)
EndOf(f, k) == SubSeq(f, Len(f) - (IF k < Len(f) THEN k ELSE Len(f)) + 1, Len(f))

-----------------------------------------------------------------------------
(* The inductive invariants.                                               *)

(* An insert past the offset has a record to write. Crashes are not        *)
(* recorded among the failures.                                            *)
Typed ==
  /\ TypeOK
  /\ pc \in {"write", "push"} => pending \in LogRecord
  /\ "crash" \notin failed

(* Only a write cut short leaves a tear.                                   *)
FileInv ==
  /\ opened => exists
  /\ exists \/ file = << >>
  /\ TearFree(file) \/ {"tear", "write", "flush"} \cap failed # {}

(* The record about to be acknowledged is in the file already.             *)
AckedInv ==
  {"open", "flush"} \cap failed # {} \/
    /\ AckedOnDisk
    /\ pc = "push" => \E j \in 1 .. Len(file) : file[j] = pending

(* Every topic has room for its newest record.                             *)
SizesGiven == 0 \notin NewSizes \cup ReloadSizes

(* The next offset is counted from what was acknowledged last: the recent  *)
(* buffer ends in it, or holds nothing at all and refuses to insert.       *)
LifeInv ==
  /\ ConsecutiveInLife
  /\ opened => exists
  /\ pc = "push" => exists \/ "open" \in Faults
  /\ pc # "none" /\ SizesGiven => bufferSize # 0
  /\ pc # "none" /\ born < Len(acked) =>
       /\ \/ recent # << >> /\ Last(recent) = Last(acked)
          \/ recent = << >> /\ bufferSize = 0 /\ exists
       /\ pc \in {"write", "push"} => pending.offset = Last(acked).offset + 1

(* The newest offset is that of the last record of the file. *)
Newest ==
  /\ pc \in {"ready", "write", "thrown"} /\ recent # << >> =>
       Last(recent).offset = Len(file) - 1
  /\ pc = "write" => pending.offset = Len(file)
  /\ pc = "push" => pending.offset = Len(file) - 1

(* Once the file is torn, a restart may count from anything; what is       *)
(* before the tear does not change any more.                               *)
DenseInv ==
  \/ {"look", "open", "flush"} \cap failed # {}
  \/ /\ WholePrefixDense
     /\ TearFree(file) => Newest

(* The next offset is above all of the file, though not always by one: a   *)
(* record that was lost unnoticed is in the buffer only.                   *)
Above ==
  /\ pc \in {"ready", "write", "thrown"} /\ recent # << >> =>
       \A i \in 1 .. Len(file) : file[i].offset <= Last(recent).offset
  /\ pc = "write" => \A i \in 1 .. Len(file) : file[i].offset < pending.offset
  /\ pc = "push" => \A i \in 1 .. Len(file) : file[i].offset <= pending.offset

GrowInv ==
  \/ "look" \in failed
  \/ /\ PrefixIncreases
     /\ TearFree(file) => Above

(* What is acknowledged is no more than what the file has: the oldest      *)
(* buffer of the next life has room for no more than it finds there.       *)
HoldsInv ==
  failed = {} =>
    /\ pc # "none" => Len(oldest) >= (IF bufferSize < born THEN bufferSize ELSE born)
    /\ Len(acked) <= Len(file)
    /\ pc = "push" => Len(acked) < Len(file)

(* Why the recent buffer may have nothing to count from.                   *)
Empty == file = << >> \/ bufferSize = 0

RefusedInv ==
  failed = {} =>
    /\ pc = "thrown" => recent = << >>
    /\ pc \in {"ready", "write", "thrown"} /\ recent = << >> => Empty

(* What was read from a file without tears is the start of the file, and   *)
(* remains it while records are appended.                                  *)
ReadInv == TearFree(file) => OldestStartsFile /\ ReaderSeesStart

(* While a record is written but not pushed, the buffer is one behind.     *)
RecentInv ==
  failed = {} =>
    /\ pc \in {"ready", "write", "thrown"} => recent = EndOf(file, bufferSize)
    /\ pc = "push" =>
         /\ file = Append(Front(file), pending)
         /\ recent = EndOf(Front(file), bufferSize)

-----------------------------------------------------------------------------
(* The buffers.                                                            *)

LEMMA FromTailType ==
  ASSUME NEW data \in Seq(LogRecord), NEW k \in Nat
  PROVE  /\ FromTail(data, k) \in Seq(LogRecord)
         /\ Len(FromTail(data, k)) = IF k < Len(data) THEN k ELSE Len(data)
         /\ \A i \in 1 .. Len(FromTail(data, k)) :
              FromTail(data, k)[i] = data[Len(data) + 1 - i]
<1> DEFINE n == IF k < Len(data) THEN k ELSE Len(data)
<1>1. n \in Nat /\ \A i \in 1 .. n : Len(data) + 1 - i \in 1 .. Len(data)
  OBVIOUS
<1>2. FromTail(data, k) = [i \in 1 .. n |-> data[Len(data) + 1 - i]]
  BY DEF FromTail
<1>3. \A i \in 1 .. n : data[Len(data) + 1 - i] \in LogRecord
  BY <1>1, ElementOfSeq
<1> HIDE DEF n
<1>4. FromTail(data, k) \in [1 .. n -> LogRecord]
  BY <1>2, <1>3
<1>5. FromTail(data, k) \in Seq(LogRecord)
  BY <1>1, <1>4, SeqDef
<1>6. Len(FromTail(data, k)) = n
  BY <1>1, <1>2, <1>5, LenProperties
<1> QED
  BY <1>2, <1>5, <1>6 DEF n

LEMMA FromTailEmpty ==
  \A data \in Seq(LogRecord), k \in Nat :
    FromTail(data, k) = << >> <=> data = << >> \/ k = 0
<1> SUFFICES ASSUME NEW data \in Seq(LogRecord), NEW k \in Nat
             PROVE  FromTail(data, k) = << >> <=> data = << >> \/ k = 0
  OBVIOUS
<1>1. Len(FromTail(data, k)) = 0 <=> Len(data) = 0 \/ k = 0
  BY FromTailType
<1>2. FromTail(data, k) \in Seq(LogRecord)
  BY FromTailType
<1> QED
  BY <1>1, <1>2, EmptySeq

LEMMA FromHeadType ==
  ASSUME NEW data \in Seq(LogRecord), NEW k \in Nat
  PROVE  /\ FromHead(data, k) \in Seq(LogRecord)
         /\ Len(FromHead(data, k)) = IF k < Len(data) THEN k ELSE Len(data)
         /\ \A i \in 1 .. Len(FromHead(data, k)) : FromHead(data, k)[i] = data[i]
<1> DEFINE n == IF k < Len(data) THEN k ELSE Len(data)
<1>1. n \in Nat /\ n <= Len(data)
  OBVIOUS
<1>2. FromHead(data, k) = SubSeq(data, 1, n)
  BY DEF FromHead
<1>3. \A i \in 1 .. n : data[i] \in LogRecord
  BY <1>1, ElementOfSeq
<1> HIDE DEF n
<1> QED
  BY <1>1, <1>2, <1>3, SubSeqProperties DEF n

LEMMA PushOnType ==
  ASSUME NEW b \in Seq(LogRecord), NEW r \in LogRecord, bufferSize \in Nat
  PROVE  /\ PushOn(b, r) \in Seq(LogRecord)
         /\ PushOn(b, r) # << >> => Last(PushOn(b, r)) = r
         /\ PushOn(b, r) = << >> <=> b = << >> /\ bufferSize = 0
<1> DEFINE longer == Append(b, r)
<1>1. /\ longer \in Seq(LogRecord)
      /\ Len(longer) = Len(b) + 1
      /\ longer[Len(b) + 1] = r
      /\ longer # << >>
  BY AppendProperties
<1>2. PushOn(b, r) = IF Len(longer) > bufferSize THEN Tail(longer) ELSE longer
  BY DEF PushOn
<1> HIDE DEF longer
<1>3. /\ Tail(longer) \in Seq(LogRecord)
      /\ Len(Tail(longer)) = Len(b)
      /\ \A i \in 1 .. Len(b) : Tail(longer)[i] = longer[i + 1]
  BY <1>1, HeadTailProperties
<1>4. Len(b) \in Nat /\ (Len(b) = 0 <=> b = << >>)
  BY EmptySeq
<1>5. Tail(longer) # << >> => Last(Tail(longer)) = r
  BY <1>1, <1>3, <1>4 DEF Last
<1>6. Tail(longer) = << >> <=> b = << >>
  BY <1>3, <1>4
<1>7. CASE Len(longer) > bufferSize
  <2>1. b = << >> => bufferSize = 0
    BY <1>1, <1>4, <1>7
  <2>2. PushOn(b, r) = Tail(longer)
    BY <1>2, <1>7
  <2>3. b = << >> <=> b = << >> /\ bufferSize = 0
    BY <2>1
  <2> QED
    BY <1>3, <1>5, <1>6, <2>2, <2>3
<1>8. CASE ~(Len(longer) > bufferSize)
  <2>1. ~(bufferSize = 0)
    BY <1>1, <1>4, <1>8
  <2>2. PushOn(b, r) = longer
    BY <1>2, <1>8
  <2> QED
    BY <1>1, <2>1, <2>2 DEF Last
<1> QED
  BY <1>7, <1>8

-----------------------------------------------------------------------------
(* What the constructor loads.                                             *)

LEMMA SizesNat == NewSizes \cup ReloadSizes \cup {0} \subseteq Nat
  BY TopicPublicAssumption

LEMMA FillType ==
  ASSUME file \in Seq(Frame), NEW data \in FillVector
  PROVE  /\ data \in Seq(LogRecord)
         /\ exists /\ TearFree(file) => data = file
<1>1. CASE exists
  BY <1>1, ReadingType, ReadingWhole DEF FillVector
<1>2. CASE ~exists
  BY <1>2 DEF FillVector
<1> QED
  BY <1>1, <1>2

LEMMA Constructed ==
  ASSUME file \in Seq(Frame), Construct
  PROVE  /\ bufferSize' \in Nat
         /\ \E data \in Seq(LogRecord) :
              /\ TearFree(file) /\ exists => data = file
              /\ recent' = IF exists THEN FromTail(data, bufferSize') ELSE << >>
              /\ oldest' = IF exists THEN FromHead(data, bufferSize') ELSE << >>
<1>1. bufferSize' \in Nat
  BY SizesNat DEF Construct, NewLife
<1>2. PICK data \in FillVector : LoadBuffers(exists, data, data)
  BY DEF Construct
<1>3. ReadThrough(data, data) = data
  BY DEF ReadThrough
<1> QED
  BY <1>1, <1>2, <1>3, FillType DEF LoadBuffers

LEMMA ConstructedBlind ==
  ASSUME file \in Seq(Frame), ConstructBlind
  PROVE  /\ bufferSize' \in Nat
         /\ recent' = << >>
         /\ oldest' # << >> =>
              \E data \in Seq(LogRecord) :
                /\ TearFree(file) => data = file
                /\ oldest' = FromHead(data, bufferSize')
<1>1. bufferSize' \in Nat
  BY SizesNat DEF ConstructBlind, NewLife
<1>2. FromTail(<< >>, bufferSize') = << >>
  BY <1>1, FromTailEmpty, EmptySeq
<1>3. CASE LoadBuffers(FALSE, << >>, << >>)
  <2>1. recent' = << >> /\ oldest' = << >>
    BY <1>3 DEF LoadBuffers
  <2> QED
    BY <1>1, <2>1
<1>4. CASE \E data \in FillVector : LoadBuffers(TRUE, << >>, data)
  <2>1. PICK data \in FillVector : LoadBuffers(TRUE, << >>, data)
    BY <1>4
  <2>2. ReadThrough(<< >>, data) = data
    BY DEF ReadThrough
  <2>3. recent' = << >> /\ oldest' = FromHead(data, bufferSize')
    BY <1>2, <2>1, <2>2 DEF LoadBuffers
  <2>4. exists
    BY DEF ConstructBlind
  <2> QED
    BY <1>1, <2>3, <2>4, FillType
<1> QED
  BY <1>3, <1>4 DEF ConstructBlind

-----------------------------------------------------------------------------
(* Type correctness. A record is being worked on while a write or a push   *)
(* is to come.                                                             *)

LEMMA TypedInit == Init => Typed
<1> SUFFICES ASSUME Init PROVE Typed
  OBVIOUS
<1>1. /\ << >> \in Seq(LogRecord)
      /\ << >> \in Seq(LogRecord \cup {Torn})
  BY EmptySeq
<1>2. born \in 0 .. Len(acked)
  BY EmptySeq DEF Init
<1>3. failed \subseteq Faults /\ "crash" \notin failed
  BY DEF Init
<1> QED
  BY <1>1, <1>2, <1>3, Zenon DEF Init, Typed, TypeOK

LEMMA TypedConstruct ==
  ASSUME Typed, Construct \/ ConstructBlind, UNCHANGED cache
  PROVE  Typed'
<1>1. file \in Seq(Frame) /\ << >> \in Seq(LogRecord)
  BY EmptySeq DEF Typed, TypeOK, Frame
<1>2. recent' \in Seq(LogRecord) /\ oldest' \in Seq(LogRecord)
  <2>1. CASE Construct
    BY <1>1, <2>1, Constructed, FromTailType, FromHeadType
  <2>2. CASE ConstructBlind
    BY <1>1, <2>2, ConstructedBlind, FromHeadType
  <2> QED
    BY <2>1, <2>2
<1>3. /\ pc' = "ready"
      /\ bufferSize' \in NewSizes \cup ReloadSizes \cup {0}
      /\ born' = Len(acked)
      /\ UNCHANGED <<fileVars, pending, acked, cache>>
  BY DEF Construct, ConstructBlind, NewLife
<1>4. failed' \subseteq Faults /\ "crash" \notin failed'
  BY DEF Construct, ConstructBlind, Fail, Typed, TypeOK
<1>5. born' \in 0 .. Len(acked')
  BY <1>3 DEF Typed, TypeOK
<1> QED
  BY <1>2, <1>3, <1>4, <1>5 DEF Typed, TypeOK, fileVars

LEMMA TornAppended ==
  file \in Seq(LogRecord \cup {Torn}) => Append(file, Torn) \in Seq(LogRecord \cup {Torn})
<1> DEFINE F == LogRecord \cup {Torn}
<1>1. Torn \in F
  OBVIOUS
<1> HIDE DEF F
<1>2. file \in Seq(F) => Append(file, Torn) \in Seq(F)
  BY <1>1, AppendProperties
<1> QED
  BY <1>2 DEF F

LEMMA TypedEnd ==
  ASSUME Typed, Destroy \/ Crash \/ CrashInWrite, UNCHANGED cache
  PROVE  Typed'
<1>1. file' \in Seq(LogRecord \cup {Torn})
  BY TornAppended DEF Destroy, Crash, CrashInWrite, CloseSharedFile, Typed, TypeOK
<1>2. failed' \subseteq Faults /\ "crash" \notin failed'
  BY DEF Destroy, Crash, CrashInWrite, Fail, Typed, TypeOK
<1>3. exists' \in BOOLEAN /\ opened' \in BOOLEAN
  BY DEF Destroy, Crash, CrashInWrite, CloseSharedFile, Typed, TypeOK
<1>4. EndLife /\ << >> \in Seq(LogRecord)
  BY EmptySeq DEF Destroy, Crash, CrashInWrite
<1> QED
  BY <1>1, <1>2, <1>3, <1>4 DEF EndLife, Typed, TypeOK

LEMMA TypedInsert ==
  ASSUME Typed, NEW m \in Messages, InsertNext(m) \/ InsertFirst(m), UNCHANGED cache
  PROVE  Typed'
<1>1. \E n \in Nat : AssignOffset(n, m)
  <2>1. CASE InsertNext(m)
    <3>1. Len(recent) \in 1 .. Len(recent)
      BY <2>1, EmptySeq DEF InsertNext, Typed, TypeOK
    <3>2. recent[Len(recent)] \in LogRecord
      BY <3>1, ElementOfSeq DEF Typed, TypeOK
    <3>3. recent[Len(recent)].offset + 1 \in Nat
      BY <3>2 DEF LogRecord
    <3> QED
      BY <2>1, <3>3 DEF InsertNext
  <2>2. CASE InsertFirst(m)
    BY <2>2 DEF InsertFirst
  <2> QED
    BY <2>1, <2>2
<1>2. pending' \in LogRecord
  BY <1>1 DEF AssignOffset, LogRecord
<1>3. failed' \subseteq Faults /\ "crash" \notin failed'
  BY DEF InsertNext, InsertFirst, Fail, Typed, TypeOK
<1> QED
  BY <1>1, <1>2, <1>3 DEF AssignOffset, fileVars, Typed, TypeOK

LEMMA TypedWrite ==
  ASSUME Typed,
         InsertRefused \/ OpenForWrite \/ OpenFails \/ Write \/ WriteThrows
           \/ FlushFails \/ Catch,
         UNCHANGED cache
  PROVE  Typed'
<1>1. CASE InsertRefused \/ Catch
  BY <1>1 DEF InsertRefused, Catch, Typed, TypeOK, fileVars, buffers, history
<1>2. CASE OpenForWrite
  BY <1>2 DEF OpenForWrite, OpenSharedFile, Typed, TypeOK, buffers, history
<1>3. CASE OpenFails
  BY <1>3 DEF OpenFails, Fail, Typed, TypeOK, fileVars, buffers
<1>4. CASE Write
  BY <1>4 DEF Write, WriteFrame, Typed, TypeOK, buffers, history
<1>5. CASE WriteThrows \/ FlushFails
  <2>1. file' \in Seq(LogRecord \cup {Torn})
    BY <1>5, TornAppended DEF WriteThrows, FlushFails, Typed, TypeOK
  <2>2. failed' \subseteq Faults /\ "crash" \notin failed'
    BY <1>5 DEF WriteThrows, FlushFails, Fail, Typed, TypeOK
  <2> QED
    BY <1>5, <2>1, <2>2 DEF WriteThrows, FlushFails, Typed, TypeOK, buffers
<1> QED
  BY <1>1, <1>2, <1>3, <1>4, <1>5

LEMMA TypedPush ==
  ASSUME Typed, Push, UNCHANGED cache
  PROVE  Typed'
<1>1. pending \in LogRecord /\ bufferSize \in Nat
  BY SizesNat DEF Push, Typed, TypeOK
<1>2. recent' \in Seq(LogRecord)
  BY <1>1, PushOnType DEF Push, Typed, TypeOK
<1>3. acked' \in Seq(LogRecord) /\ born' \in 0 .. Len(acked')
  BY <1>1, AppendProperties DEF Push, Typed, TypeOK
<1> QED
  BY <1>2, <1>3 DEF Push, Typed, TypeOK, fileVars

LEMMA TypedNext == Typed /\ [Next]_vars => Typed'
<1> SUFFICES ASSUME Typed, [Next]_vars PROVE Typed'
  OBVIOUS
<1>1. CASE Topic /\ UNCHANGED cache
  BY <1>1, TypedConstruct, TypedEnd, TypedInsert, TypedWrite, TypedPush DEF Topic
<1>2. CASE Read
  <2>1. PICK data \in FillVector : cache' = ReadThrough(cache, data)
    BY <1>2 DEF Read
  <2>2. cache' \in Seq(LogRecord)
    BY <2>1, FillType DEF ReadThrough, Typed, TypeOK, Frame
  <2> QED
    BY <1>2, <2>2 DEF Read, topicVars, fileVars, buffers, history, Typed, TypeOK
<1>3. CASE ReaderEnds
  BY <1>3, EmptySeq DEF ReaderEnds, topicVars, fileVars, buffers, history, Typed, TypeOK
<1>4. CASE UNCHANGED vars
  BY <1>4 DEF vars, topicVars, fileVars, buffers, history, Typed, TypeOK
<1> QED
  BY <1>1, <1>2, <1>3, <1>4 DEF Next

LEMMA TypedAlways == Spec => []Typed
  BY TypedInit, TypedNext, PTL DEF Spec

(* Every variable keeps its type, however the file is torn: what the       *)
(* constructor and a reader take from it are records.                      *)
THEOREM TypeCorrect == Spec => []TypeOK
<1>1. Typed => TypeOK
  BY DEF Typed
<1> QED
  BY <1>1, TypedAlways, PTL

-----------------------------------------------------------------------------
(* The file. It only grows, by whole records until a write is cut short.   *)

StartOf(records, f) ==
  /\ Len(records) <= Len(f)
  /\ \A i \in 1 .. Len(records) : records[i] = f[i]

LEMMA FileGrows ==
  ASSUME Typed, [Next]_vars
  PROVE  \/ file' = file
         \/ file' = Append(file, pending) /\ pending \in LogRecord /\ Write
         \/ file' = Append(file, Torn) /\ opened /\ {"tear", "write", "flush"} \cap failed' # {}
<1>1. CASE Construct \/ ConstructBlind
  BY <1>1 DEF Construct, ConstructBlind, NewLife, fileVars
<1>2. CASE Destroy \/ Crash
  BY <1>2 DEF Destroy, Crash, CloseSharedFile
<1>3. CASE CrashInWrite
  BY <1>3 DEF CrashInWrite, Fail
<1>4. ASSUME NEW m \in Messages, InsertNext(m) \/ InsertFirst(m) PROVE file' = file
  BY <1>4 DEF InsertNext, InsertFirst, AssignOffset, fileVars
<1>5. CASE InsertRefused \/ OpenForWrite \/ OpenFails \/ Push \/ Catch
  BY <1>5 DEF InsertRefused, OpenForWrite, OpenSharedFile, OpenFails, Push, Catch, fileVars
<1>6. CASE Write
  BY <1>6 DEF Write, WriteFrame, Typed
<1>7. CASE WriteThrows \/ FlushFails
  BY <1>7 DEF WriteThrows, FlushFails, Fail
<1>8. CASE Read \/ ReaderEnds \/ UNCHANGED vars
  BY <1>8 DEF Read, ReaderEnds, vars, topicVars, fileVars
<1> QED
  BY <1>1, <1>2, <1>3, <1>4, <1>5, <1>6, <1>7, <1>8 DEF Next, Topic

(* Nothing is forgotten about the failures. *)
LEMMA FailuresStay ==
  ASSUME [Next]_vars
  PROVE  failed \subseteq failed'
<1>1. CASE Construct \/ ConstructBlind
  BY <1>1 DEF Construct, ConstructBlind, Fail
<1>2. CASE Destroy \/ Crash \/ CrashInWrite
  BY <1>2 DEF Destroy, Crash, CrashInWrite, Fail
<1>3. ASSUME NEW m \in Messages, InsertNext(m) \/ InsertFirst(m)
      PROVE  failed \subseteq failed'
  BY <1>3 DEF InsertNext, InsertFirst, Fail
<1>4. CASE InsertRefused \/ OpenForWrite \/ OpenFails \/ Write \/ WriteThrows
           \/ FlushFails \/ Push \/ Catch
  BY <1>4 DEF InsertRefused, OpenForWrite, OpenFails, Write, WriteThrows, FlushFails,
     Push, Catch, Fail, history
<1>5. CASE Read \/ ReaderEnds \/ UNCHANGED vars
  BY <1>5 DEF Read, ReaderEnds, vars, topicVars, history
<1> QED
  BY <1>1, <1>2, <1>3, <1>4, <1>5 DEF Next, Topic

LEMMA FileTypes == Typed => file \in Seq(Frame) /\ LogRecord \subseteq Frame /\ Torn \in Frame
  BY DEF Typed, TypeOK, Frame

(* What starts the file goes on starting it, and a tear is never mended.   *)
LEMMA FileStarts ==
  ASSUME Typed, [Next]_vars
  PROVE  StartOf(file, file') /\ (TearFree(file') => TearFree(file))
<1>1. file' = file \/ \E frame \in Frame : file' = Append(file, frame)
  BY FileGrows, FileTypes
<1>2. file \in Seq(Frame) /\ Len(file) \in Nat
  BY FileTypes, LenProperties
<1>3. CASE file' = file
  BY <1>2, <1>3 DEF StartOf
<1>4. ASSUME NEW frame \in Frame, file' = Append(file, frame)
      PROVE  StartOf(file, file') /\ (TearFree(file') => TearFree(file))
  <2>1. /\ Len(file') = Len(file) + 1
        /\ \A i \in 1 .. Len(file) : file'[i] = file[i]
    BY <1>2, <1>4, AppendProperties
  <2>2. StartOf(file, file')
    BY <1>2, <2>1 DEF StartOf
  <2>3. TearFree(file') => TearFree(file)
    BY <1>2, <2>1 DEF TearFree
  <2> QED
    BY <2>2, <2>3
<1> QED
  BY <1>1, <1>3, <1>4

LEMMA StartOfStart ==
  ASSUME NEW r, NEW f, NEW g, Len(r) \in Nat, Len(f) \in Nat, Len(g) \in Nat,
         StartOf(r, f), StartOf(f, g)
  PROVE  StartOf(r, g)
  BY DEF StartOf

(* Until a write is cut short, the file is records only.                   *)
LEMMA FileInvNext == Typed /\ FileInv /\ [Next]_vars => FileInv'
<1> SUFFICES ASSUME Typed, FileInv, [Next]_vars PROVE FileInv'
  OBVIOUS
<1>1. (opened' => exists') /\ (exists => exists')
  <2>1. CASE Construct \/ ConstructBlind
    <3>1. UNCHANGED <<exists, opened>>
      BY <2>1 DEF Construct, ConstructBlind, NewLife, fileVars
    <3> QED
      BY <3>1 DEF FileInv
  <2>2. CASE Destroy \/ Crash \/ CrashInWrite
    BY <2>2 DEF Destroy, Crash, CrashInWrite, CloseSharedFile
  <2>3. ASSUME NEW m \in Messages, InsertNext(m) \/ InsertFirst(m)
        PROVE  UNCHANGED <<opened, exists>>
    BY <2>3 DEF InsertNext, InsertFirst, AssignOffset, fileVars
  <2>4. CASE InsertRefused \/ OpenFails \/ Push \/ Catch
    BY <2>4 DEF InsertRefused, OpenFails, Push, Catch, fileVars, FileInv
  <2>5. CASE OpenForWrite \/ Write \/ WriteThrows \/ FlushFails
    BY <2>5 DEF OpenForWrite, OpenSharedFile, Write, WriteFrame, WriteThrows, FlushFails,
       FileInv
  <2>6. CASE Read \/ ReaderEnds \/ UNCHANGED vars
    BY <2>6 DEF Read, ReaderEnds, vars, topicVars, fileVars, FileInv
  <2> QED
    BY <2>1, <2>2, <2>3, <2>4, <2>5, <2>6 DEF Next, Topic, FileInv
<1>2. exists' \/ file' = << >>
  <2>1. file' = file \/ opened
    BY FileGrows DEF Write, WriteFrame
  <2> QED
    BY <1>1, <2>1 DEF FileInv
<1>3. TearFree(file') \/ {"tear", "write", "flush"} \cap failed' # {}
  <2>1. CASE file' = Append(file, pending) /\ pending \in LogRecord /\ TearFree(file)
    <3>1. file \in Seq(Frame) /\ pending \in Frame /\ pending # Torn
      BY <2>1, FileTypes, TopicFileAssumption
    <3>2. /\ Len(file') = Len(file) + 1
          /\ \A i \in 1 .. Len(file) : file'[i] = file[i]
          /\ file'[Len(file) + 1] = pending
      BY <2>1, <3>1, AppendProperties
    <3> QED
      BY <2>1, <3>1, <3>2 DEF TearFree
  <2> QED
    BY <2>1, FileGrows, FailuresStay DEF FileInv
<1> QED
  BY <1>1, <1>2, <1>3 DEF FileInv

LEMMA FileInvInit == Init => FileInv
  BY EmptySeq DEF Init, FileInv, TearFree

LEMMA FileInvAlways == Spec => [](Typed /\ FileInv)
<1>1. Init => Typed /\ FileInv
  BY TypedInit, FileInvInit
<1>2. (Typed /\ FileInv) /\ [Next]_vars => (Typed /\ FileInv)'
  BY TypedNext, FileInvNext
<1> QED
  BY <1>1, <1>2, PTL DEF Spec

-----------------------------------------------------------------------------
(* What the readers are told.                                              *)

LEMMA EmptyStarts ==
  ASSUME NEW f \in Seq(Frame)
  PROVE  StartOf(<< >>, f)
  BY EmptySeq, LenProperties DEF StartOf

LEMMA HeadStarts ==
  ASSUME NEW f \in Seq(LogRecord), NEW k \in Nat
  PROVE  StartOf(FromHead(f, k), f)
  BY FromHeadType DEF StartOf

LEMMA OldestStep ==
  ASSUME Typed, [Next]_vars, TearFree(file), StartOf(oldest, file)
  PROVE  StartOf(oldest', file)
<1>1. file \in Seq(Frame)
  BY FileTypes
<1>2. CASE Construct
  <2>1. PICK data \in Seq(LogRecord) :
          /\ exists => data = file
          /\ oldest' = IF exists THEN FromHead(data, bufferSize') ELSE << >>
    BY <1>1, <1>2, Constructed
  <2>2. bufferSize' \in Nat
    BY <1>1, <1>2, Constructed
  <2>3. CASE exists
    BY <2>1, <2>2, <2>3, HeadStarts
  <2>4. CASE ~exists
    BY <1>1, <2>1, <2>4, EmptyStarts
  <2> QED
    BY <2>3, <2>4
<1>3. CASE ConstructBlind
  <2>1. bufferSize' \in Nat
    BY <1>1, <1>3, ConstructedBlind
  <2>2. CASE oldest' = << >>
    BY <1>1, <2>2, EmptyStarts
  <2>3. CASE oldest' # << >>
    <3>1. PICK data \in Seq(LogRecord) : data = file /\ oldest' = FromHead(data, bufferSize')
      BY <1>1, <1>3, <2>3, ConstructedBlind
    <3> QED
      BY <2>1, <3>1, HeadStarts
  <2> QED
    BY <2>2, <2>3
<1>4. CASE Destroy \/ Crash \/ CrashInWrite
  <2>1. oldest' = << >>
    BY <1>4 DEF Destroy, Crash, CrashInWrite, EndLife
  <2> QED
    BY <1>1, <2>1, EmptyStarts
<1>5. ASSUME NEW m \in Messages, InsertNext(m) \/ InsertFirst(m) PROVE oldest' = oldest
  BY <1>5 DEF InsertNext, InsertFirst, AssignOffset
<1>6. ASSUME InsertRefused \/ OpenForWrite \/ OpenFails \/ Write \/ WriteThrows
           \/ FlushFails \/ Push \/ Catch \/ Read \/ ReaderEnds \/ UNCHANGED vars
      PROVE oldest' = oldest
  BY <1>6 DEF InsertRefused, OpenForWrite, OpenFails, Write, WriteThrows, FlushFails,
     Push, Catch, Read, ReaderEnds, buffers, vars, topicVars
<1> QED
  BY <1>2, <1>3, <1>4, <1>5, <1>6 DEF Next, Topic

LEMMA CacheStep ==
  ASSUME Typed, [Next]_vars, TearFree(file), StartOf(cache, file)
  PROVE  StartOf(cache', file)
<1>1. file \in Seq(Frame)
  BY FileTypes
<1>2. CASE Read
  <2>1. PICK data \in FillVector : cache' = ReadThrough(cache, data)
    BY <1>2 DEF Read
  <2>2. CASE exists
    <3>1. data = file
      BY <1>1, <2>2, FillType
    <3>2. StartOf(file, file)
      BY <1>1, LenProperties DEF StartOf
    <3> QED
      BY <2>1, <3>1, <3>2 DEF ReadThrough
  <2>3. CASE ~exists
    <3>1. data = << >>
      BY <2>3 DEF FillVector
    <3> QED
      BY <2>1, <3>1 DEF ReadThrough
  <2> QED
    BY <2>2, <2>3
<1>3. CASE ReaderEnds
  BY <1>1, <1>3, EmptyStarts DEF ReaderEnds
<1>4. CASE UNCHANGED cache
  BY <1>4
<1> QED
  BY <1>2, <1>3, <1>4 DEF Next, vars

LEMMA ReadInvNext == Typed /\ ReadInv /\ [Next]_vars => ReadInv'
<1> SUFFICES ASSUME Typed, ReadInv, [Next]_vars, TearFree(file') PROVE ReadInv'
  BY DEF ReadInv
<1>1. TearFree(file) /\ StartOf(file, file')
  BY FileStarts
<1>2. StartOf(oldest, file) /\ StartOf(cache, file)
  BY <1>1 DEF ReadInv, OldestStartsFile, ReaderSeesStart, StartsFile, StartOf
<1>3. StartOf(oldest', file) /\ StartOf(cache', file)
  BY <1>1, <1>2, OldestStep, CacheStep
<1>4. Typed'
  BY TypedNext
<1>5. /\ Len(oldest') \in Nat /\ Len(cache') \in Nat
      /\ Len(file) \in Nat /\ Len(file') \in Nat
  BY <1>4 DEF Typed, TypeOK
<1>6. StartOf(oldest', file') /\ StartOf(cache', file')
  BY <1>1, <1>3, <1>5, StartOfStart
<1> QED
  BY <1>6 DEF ReadInv, OldestStartsFile, ReaderSeesStart, StartsFile, StartOf

LEMMA ReadInvAlways == Spec => []ReadInv
<1>1. Init => ReadInv
  BY EmptySeq DEF Init, ReadInv, OldestStartsFile, ReaderSeesStart, StartsFile
<1> QED
  BY <1>1, ReadInvNext, TypedAlways, PTL DEF Spec

(* While no write has been cut short, the oldest buffer is the start of    *)
(* the file and stays it: also when files do not open, when the process    *)
(* crashes between the write and the push, and for any buffer size.        *)
THEOREM OldestStartsUntilTorn ==
  Spec => []({"tear", "write", "flush"} \cap failed # {} \/ OldestStartsFile)
<1>1. FileInv /\ ReadInv => {"tear", "write", "flush"} \cap failed # {} \/ OldestStartsFile
  BY DEF FileInv, ReadInv
<1> QED
  BY <1>1, FileInvAlways, ReadInvAlways, PTL

(* ... and what a reader was told stays the start of the file, through     *)
(* everything that is inserted since.                                      *)
THEOREM ReaderSeesStartUntilTorn ==
  Spec => []({"tear", "write", "flush"} \cap failed # {} \/ ReaderSeesStart)
<1>1. FileInv /\ ReadInv => {"tear", "write", "flush"} \cap failed # {} \/ ReaderSeesStart
  BY DEF FileInv, ReadInv
<1> QED
  BY <1>1, FileInvAlways, ReadInvAlways, PTL

-----------------------------------------------------------------------------
(* What is acknowledged is on disk.                                        *)

(* A push is only to come after a write, or after a failure that was       *)
(* dropped.                                                                *)
LEMMA PushStep ==
  ASSUME [Next]_vars, pc' = "push"
  PROVE  \/ pc = "push" /\ UNCHANGED topicVars
         \/ Write
         \/ OpenFails \/ FlushFails
<1>1. ~Construct /\ ~ConstructBlind
  BY DEF Construct, ConstructBlind, NewLife
<1>2. ~Destroy /\ ~Crash /\ ~CrashInWrite
  BY DEF Destroy, Crash, CrashInWrite, EndLife
<1>3. ASSUME NEW m \in Messages PROVE ~InsertNext(m) /\ ~InsertFirst(m)
  BY DEF InsertNext, InsertFirst, AssignOffset
<1>4. ~InsertRefused /\ ~WriteThrows /\ ~Push /\ ~Catch
  BY DEF InsertRefused, WriteThrows, Push, Catch
<1>5. ~OpenForWrite
  BY DEF OpenForWrite
<1>6. Read \/ ReaderEnds \/ UNCHANGED vars => pc = "push" /\ UNCHANGED topicVars
  BY DEF Read, ReaderEnds, vars, topicVars
<1> QED
  BY <1>1, <1>2, <1>3, <1>4, <1>5, <1>6 DEF Next, Topic

LEMMA AckedStep ==
  ASSUME [Next]_vars
  PROVE  Push \/ acked' = acked
<1>1. CASE Construct \/ ConstructBlind \/ Destroy \/ Crash \/ CrashInWrite
  BY <1>1 DEF Construct, ConstructBlind, NewLife, Destroy, Crash, CrashInWrite, EndLife
<1>2. ASSUME NEW m \in Messages, InsertNext(m) \/ InsertFirst(m) PROVE acked' = acked
  BY <1>2 DEF InsertNext, InsertFirst, AssignOffset
<1>3. CASE InsertRefused \/ OpenForWrite \/ OpenFails \/ Write \/ WriteThrows
           \/ FlushFails \/ Catch \/ Read \/ ReaderEnds \/ UNCHANGED vars
  BY <1>3 DEF InsertRefused, OpenForWrite, OpenFails, Write, WriteThrows, FlushFails,
     Catch, Read, ReaderEnds, vars, topicVars, history
<1> QED
  BY <1>1, <1>2, <1>3 DEF Next, Topic

LEMMA AckedInvNext == Typed /\ AckedInv /\ [Next]_vars => AckedInv'
<1> SUFFICES ASSUME Typed, AckedInv, [Next]_vars, {"open", "flush"} \cap failed' = {}
             PROVE  AckedInv'
  BY DEF AckedInv
<1>1. AckedOnDisk /\ (pc = "push" => \E j \in 1 .. Len(file) : file[j] = pending)
  BY FailuresStay DEF AckedInv
<1>2. /\ Len(file) \in Nat /\ Len(file') \in Nat /\ acked \in Seq(LogRecord)
      /\ file \in Seq(Frame)
  BY TypedNext, FileTypes DEF Typed, TypeOK
<1>3. \A r : (\E j \in 1 .. Len(file) : file[j] = r) =>
               \E j \in 1 .. Len(file') : file'[j] = r
  BY <1>2, FileStarts DEF StartOf
<1>4. AckedOnDisk'
  <2>1. CASE acked' = acked
    BY <1>1, <1>3, <2>1 DEF AckedOnDisk
  <2>2. CASE Push
    <3>1. acked' = Append(acked, pending) /\ pending \in LogRecord
      BY <2>2 DEF Push, Typed
    <3>2. /\ Len(acked') = Len(acked) + 1
          /\ acked'[Len(acked) + 1] = pending
          /\ \A i \in 1 .. Len(acked) : acked'[i] = acked[i]
      BY <1>2, <3>1, AppendProperties
    <3>3. \E j \in 1 .. Len(file) : file[j] = pending
      BY <1>1, <2>2 DEF Push
    <3> SUFFICES ASSUME NEW i \in 1 .. Len(acked')
                 PROVE  \E j \in 1 .. Len(file') : file'[j] = acked'[i]
      BY DEF AckedOnDisk
    <3>4. CASE i \in 1 .. Len(acked)
      BY <1>1, <1>3, <3>2, <3>4 DEF AckedOnDisk
    <3>5. CASE i = Len(acked) + 1
      BY <1>3, <3>2, <3>3, <3>5
    <3> QED
      BY <1>2, <3>2, <3>4, <3>5
  <2> QED
    BY <2>1, <2>2, AckedStep
<1>5. ASSUME pc' = "push" PROVE \E j \in 1 .. Len(file') : file'[j] = pending'
  <2>1. CASE Write
    <3>1. /\ file' = Append(file, pending) /\ pending \in Frame /\ pending' = pending
      BY <2>1, FileTypes DEF Write, WriteFrame, Typed, buffers
    <3>2. Len(file') = Len(file) + 1 /\ file'[Len(file) + 1] = pending
      BY <1>2, <3>1, AppendProperties
    <3> QED
      BY <1>2, <3>1, <3>2
  <2>2. CASE OpenFails \/ FlushFails
    BY <2>2 DEF OpenFails, FlushFails, Fail
  <2>3. CASE pc = "push" /\ UNCHANGED topicVars
    BY <1>1, <1>3, <2>3 DEF topicVars, buffers
  <2> QED
    BY <1>5, <2>1, <2>2, <2>3, PushStep
<1> QED
  BY <1>4, <1>5 DEF AckedInv

(* A record whose insert returned is in the file for good, provided no     *)
(* open for writing and no flush has failed: through any crashes, torn     *)
(* writes, writes that throw and files taken for missing.                  *)
THEOREM AckedStaysOnDisk == Spec => []AckedOnDiskIfWritten
<1>1. Init => AckedInv
  BY EmptySeq DEF Init, AckedInv, AckedOnDisk
<1>2. AckedInv => AckedOnDiskIfWritten
  BY DEF AckedInv, AckedOnDiskIfWritten
<1> QED
  BY <1>1, <1>2, AckedInvNext, TypedAlways, PTL DEF Spec

-----------------------------------------------------------------------------
(* The offsets of one life of the process.                                 *)

(* No insert is counted from nothing while records have been acknowledged: *)
(* the buffer has the last of them, unless it has no room; then the file   *)
(* is there, and the insert is refused.                                    *)
LEMMA LifeInvNext ==
  ASSUME SizesGiven \/ {"look", "open"} \cap Faults = {}, Typed, LifeInv, [Next]_vars
  PROVE  LifeInv'
<1>1. /\ Len(acked) \in Nat /\ born \in 0 .. Len(acked) /\ acked \in Seq(LogRecord)
      /\ recent \in Seq(LogRecord) /\ bufferSize \in Nat
  BY SizesNat DEF Typed, TypeOK
<1>2. CASE Construct \/ ConstructBlind
  <2>1. /\ UNCHANGED <<exists, opened, acked>> /\ pc' = "ready" /\ born' = Len(acked)
    BY <1>2 DEF Construct, ConstructBlind, NewLife, fileVars
  <2>2. SizesGiven => bufferSize' # 0
    BY <1>2 DEF Construct, ConstructBlind, NewLife, SizesGiven
  <2>3. ConsecutiveInLife'
    BY <1>1, <2>1 DEF ConsecutiveInLife
  <2> QED
    BY <1>1, <2>1, <2>2, <2>3 DEF LifeInv
<1>3. CASE Destroy \/ Crash \/ CrashInWrite
  <2>1. /\ pc' = "none" /\ opened' = FALSE /\ UNCHANGED <<acked, born>>
    BY <1>3 DEF Destroy, Crash, CrashInWrite, EndLife, CloseSharedFile
  <2> QED
    BY <2>1 DEF LifeInv, ConsecutiveInLife
<1>4. ASSUME NEW m \in Messages, InsertNext(m) \/ InsertFirst(m)
      PROVE  LifeInv'
  <2>1. /\ UNCHANGED <<exists, opened, bufferSize, recent, acked, born>>
        /\ pc = "ready" /\ pc' = "write"
    BY <1>4 DEF InsertNext, InsertFirst, AssignOffset, fileVars
  <2>2. ASSUME born < Len(acked)
        PROVE  pending'.offset = Last(acked).offset + 1
    <3>1. CASE InsertNext(m)
      <4>1. recent # << >> /\ Last(recent) = Last(acked)
        BY <2>1, <2>2, <3>1 DEF LifeInv, InsertNext
      <4>2. pending'.offset = Last(recent).offset + 1
        BY <3>1 DEF InsertNext, AssignOffset, Last
      <4> QED
        BY <4>1, <4>2
    <3>2. CASE InsertFirst(m)
      <4>1. recent = << >> /\ (exists => "look" \in Faults)
        BY <3>2 DEF InsertFirst, Fail
      <4>2. bufferSize = 0 /\ exists
        BY <2>1, <2>2, <4>1 DEF LifeInv
      <4> QED
        BY <2>1, <4>1, <4>2 DEF LifeInv
    <3> QED
      BY <1>4, <3>1, <3>2
  <2>3. ConsecutiveInLife'
    BY <2>1 DEF LifeInv, ConsecutiveInLife
  <2> QED
    BY <2>1, <2>2, <2>3 DEF LifeInv
<1>5. CASE InsertRefused \/ OpenForWrite \/ Catch \/ WriteThrows
  <2>1. /\ UNCHANGED <<bufferSize, recent, acked, born>>
        /\ (opened' => exists') /\ (exists => exists')
        /\ pc # "none" /\ pc' \in {"ready", "write", "thrown"}
        /\ pc' = "write" => pc = "write" /\ pending' = pending
    BY <1>5 DEF InsertRefused, OpenForWrite, OpenSharedFile, Catch, WriteThrows, LifeInv,
       buffers, history, fileVars
  <2>2. ConsecutiveInLife'
    BY <2>1 DEF LifeInv, ConsecutiveInLife
  <2> QED
    BY <2>1, <2>2 DEF LifeInv
<1>6. CASE OpenFails \/ Write \/ FlushFails
  <2>1. /\ UNCHANGED <<exists, opened, bufferSize, recent, acked, born, pending>>
        /\ pc = "write" /\ pc' = "push"
    BY <1>6 DEF OpenFails, Write, WriteFrame, FlushFails, fileVars, buffers, history
  <2>2. exists \/ "open" \in Faults
    BY <1>6 DEF OpenFails, Fail, Write, WriteFrame, FlushFails, LifeInv
  <2>3. ConsecutiveInLife'
    BY <2>1 DEF LifeInv, ConsecutiveInLife
  <2> QED
    BY <2>1, <2>2, <2>3 DEF LifeInv
<1>7. CASE Push
  <2>1. /\ UNCHANGED <<exists, opened, bufferSize, born>>
        /\ pc = "push" /\ pc' = "ready" /\ pending \in LogRecord
        /\ recent' = PushOn(recent, pending) /\ acked' = Append(acked, pending)
    BY <1>7 DEF Push, Typed, fileVars
  <2>2. /\ Len(acked') = Len(acked) + 1
        /\ acked'[Len(acked) + 1] = pending
        /\ \A i \in 1 .. Len(acked) : acked'[i] = acked[i]
    BY <1>1, <2>1, AppendProperties
  <2>3. Last(acked') = pending
    BY <2>2 DEF Last
  <2>4. \/ recent' # << >> /\ Last(recent') = Last(acked')
        \/ recent' = << >> /\ bufferSize' = 0 /\ exists'
    <3>1. recent' = << >> => bufferSize = 0
      BY <1>1, <2>1, PushOnType
    <3>2. recent' # << >> => Last(recent') = pending
      BY <1>1, <2>1, PushOnType
    <3>3. bufferSize = 0 => exists
      BY <2>1 DEF LifeInv
    <3> QED
      BY <2>1, <2>3, <3>1, <3>2, <3>3
  <2>5. ConsecutiveInLife'
    <3> SUFFICES ASSUME NEW i \in (born + 1) .. Len(acked)
                 PROVE  acked'[i + 1].offset = acked'[i].offset + 1
      BY <1>1, <2>1, <2>2 DEF ConsecutiveInLife
    <3>1. CASE i = Len(acked)
      <4>1. pending.offset = Last(acked).offset + 1
        BY <1>1, <2>1, <3>1 DEF LifeInv
      <4>2. acked'[i] = Last(acked) /\ acked'[i + 1] = pending
        BY <1>1, <2>2, <3>1 DEF Last
      <4> QED
        BY <4>1, <4>2
    <3>2. CASE i # Len(acked)
      <4>1. i \in (born + 1) .. (Len(acked) - 1) /\ i + 1 \in 1 .. Len(acked)
            /\ i \in 1 .. Len(acked)
        BY <1>1, <3>2
      <4> QED
        BY <2>2, <4>1 DEF LifeInv, ConsecutiveInLife
    <3> QED
      BY <3>1, <3>2
  <2> QED
    BY <2>1, <2>4, <2>5 DEF LifeInv
<1>8. CASE Read \/ ReaderEnds \/ UNCHANGED vars
  BY <1>8 DEF Read, ReaderEnds, vars, topicVars, fileVars, buffers, history, LifeInv,
     ConsecutiveInLife
<1> QED
  BY <1>2, <1>3, <1>4, <1>5, <1>6, <1>7, <1>8 DEF Next, Topic

(* Within one life of the process the offsets of the acknowledged inserts  *)
(* follow each other, whatever fails and however often, a file that never  *)
(* opens included, for every topic that is given room for its newest       *)
(* record; and for one that is not, when files that are there always open. *)
THEOREM ConsecutiveWithinLife ==
  ASSUME SizesGiven \/ {"look", "open"} \cap Faults = {}
  PROVE  Spec => []ConsecutiveInLife
<1>1. Init => LifeInv
  BY EmptySeq DEF Init, LifeInv, ConsecutiveInLife
<1>2. Typed /\ LifeInv /\ [Next]_vars => LifeInv'
  BY LifeInvNext
<1>3. LifeInv => ConsecutiveInLife
  BY DEF LifeInv
<1> QED
  BY <1>1, <1>2, <1>3, TypedAlways, PTL DEF Spec

-----------------------------------------------------------------------------
(* The offsets of the file.                                                *)

(* The records before the first tear are counted from 0.                   *)
DenseUpTo(f, n) == \A i \in 1 .. n : f[i].offset = i - 1

LEMMA DenseStep ==
  ASSUME Typed, [Next]_vars, DenseUpTo(file, WholeLength(file)),
         TearFree(file) /\ Write => pending.offset = Len(file)
  PROVE  DenseUpTo(file', WholeLength(file'))
<1>1. /\ file \in Seq(Frame) /\ Len(file) \in Nat
      /\ WholeLength(file) \in 0 .. Len(file)
  BY FileTypes, WholeLengthExists
<1>2. CASE file' = file
  BY <1>2
<1>3. ASSUME NEW frame \in Frame, file' = Append(file, frame),
             TearFree(file) /\ frame # Torn => frame.offset = Len(file)
      PROVE  DenseUpTo(file', WholeLength(file'))
  <2>1. /\ \A i \in 1 .. Len(file) : file'[i] = file[i]
        /\ file'[Len(file) + 1] = frame
    BY <1>1, <1>3, AppendProperties
  <2>2. CASE TearFree(file) /\ frame # Torn
    <3>1. WholeLength(file') = Len(file) + 1 /\ WholeLength(file) = Len(file)
      BY <1>1, <1>3, <2>2, WholeLengthAppend, WholeLengthTearFree
    <3> QED
      BY <1>1, <1>3, <2>1, <2>2, <3>1 DEF DenseUpTo
  <2>3. CASE ~(TearFree(file) /\ frame # Torn)
    <3>1. WholeLength(file') = WholeLength(file)
      BY <1>1, <1>3, <2>3, WholeLengthAppend
    <3> QED
      BY <1>1, <2>1, <3>1 DEF DenseUpTo
  <2> QED
    BY <2>2, <2>3
<1> QED
  BY <1>2, <1>3, FileGrows, FileTypes

(* A record loaded as the newest is the last of the file, when at most one *)
(* is loaded: more of them are loaded newest first.                        *)
LEMMA LoadsLast ==
  ASSUME Typed, FileInv, TearFree(file), Construct \/ ConstructBlind,
         bufferSize' \in {0, 1}, recent' # << >>
  PROVE  Len(file) # 0 /\ Last(recent') = Last(file)
<1>1. file \in Seq(Frame)
  BY FileTypes
<1>2. Construct
  BY <1>1, ConstructedBlind
<1>3. exists /\ file \in Seq(LogRecord) /\ recent' = FromTail(file, bufferSize')
  BY <1>1, <1>2, Constructed
<1>4. /\ recent' \in Seq(LogRecord)
      /\ Len(recent') = IF bufferSize' < Len(file) THEN bufferSize' ELSE Len(file)
      /\ \A i \in 1 .. Len(recent') : recent'[i] = file[Len(file) + 1 - i]
  BY <1>3, FromTailType
<1>5. Len(recent') \in Nat \ {0} /\ Len(file) \in Nat
  BY <1>1, <1>4, EmptySeq
<1>6. Len(recent') = 1 /\ Len(file) # 0
  <2>1. CASE bufferSize' = 0
    BY <1>4, <1>5, <2>1
  <2>2. CASE bufferSize' = 1
    <3>1. Len(recent') = IF 1 < Len(file) THEN 1 ELSE Len(file)
      BY <1>4, <2>2
    <3> QED
      BY <1>5, <3>1
  <2> QED
    BY <2>1, <2>2
<1> QED
  BY <1>4, <1>5, <1>6 DEF Last

LEMMA NewestStep ==
  ASSUME ReloadSizes \subseteq {0, 1}, Typed, FileInv, DenseInv, [Next]_vars,
         {"look", "open", "flush"} \cap failed' = {}, TearFree(file')
  PROVE  Newest'
<1>1. /\ TearFree(file) /\ {"look", "open", "flush"} \cap failed = {}
      /\ file \in Seq(Frame) /\ Len(file) \in Nat
  BY FileStarts, FailuresStay, FileTypes, LenProperties
<1>2. /\ DenseUpTo(file, WholeLength(file)) /\ WholeLength(file) = Len(file)
      /\ Newest
  BY <1>1, WholeLengthTearFree DEF DenseInv, WholePrefixDense, DenseUpTo
<1>3. CASE Construct \/ ConstructBlind
  <2>1. /\ file' = file /\ pc' = "ready"
        /\ bufferSize' \in IF exists THEN ReloadSizes ELSE NewSizes
    BY <1>3 DEF Construct, ConstructBlind, NewLife, fileVars
  <2>2. exists \/ recent' = << >>
    BY <1>1, <1>3, Constructed, ConstructedBlind
  <2>3. recent' # << >> => Len(file) # 0 /\ Last(recent') = Last(file)
    BY <1>1, <1>3, <2>1, <2>2, LoadsLast
  <2>4. Len(file) # 0 => Last(file).offset = Len(file) - 1
    BY <1>1, <1>2 DEF DenseUpTo, Last
  <2> QED
    BY <2>1, <2>3, <2>4 DEF Newest
<1>4. CASE Destroy \/ Crash \/ CrashInWrite
  BY <1>4 DEF Destroy, Crash, CrashInWrite, EndLife, Newest
<1>5. ASSUME NEW m \in Messages, InsertNext(m) \/ InsertFirst(m)
      PROVE  Newest'
  <2>1. /\ file' = file /\ recent' = recent /\ pc = "ready" /\ pc' = "write"
    BY <1>5 DEF InsertNext, InsertFirst, AssignOffset, fileVars
  <2>2. CASE InsertNext(m)
    <3>1. recent # << >> /\ pending'.offset = Last(recent).offset + 1
      BY <2>2 DEF InsertNext, AssignOffset, Last
    <3> QED
      BY <1>1, <1>2, <2>1, <3>1 DEF Newest
  <2>3. CASE InsertFirst(m)
    <3>1. ~exists /\ recent = << >> /\ pending'.offset = 0
      BY <2>3 DEF InsertFirst, AssignOffset, Fail
    <3>2. Len(file) = 0
      BY <3>1, EmptySeq DEF FileInv
    <3> QED
      BY <2>1, <3>1, <3>2 DEF Newest
  <2> QED
    BY <1>5, <2>1, <2>2, <2>3
<1>6. CASE InsertRefused \/ OpenForWrite \/ Catch
  <2>1. /\ UNCHANGED <<file, recent, pending>> /\ pc \in {"ready", "write", "thrown"}
        /\ pc' \in {"ready", "thrown", "write"}
        /\ pc' = "write" => pc = "write"
    BY <1>6 DEF InsertRefused, OpenForWrite, OpenSharedFile, Catch, fileVars, buffers
  <2> QED
    BY <1>2, <2>1 DEF Newest
<1>7. CASE OpenFails \/ FlushFails
  BY <1>7 DEF OpenFails, FlushFails, Fail
<1>8. CASE Write
  <2>1. /\ file' = Append(file, pending) /\ pending' = pending /\ pending \in Frame
        /\ pc = "write" /\ pc' = "push"
    BY <1>8, FileTypes DEF Write, WriteFrame, Typed, buffers
  <2>2. Len(file') = Len(file) + 1
    BY <1>1, <2>1, AppendProperties
  <2> QED
    BY <1>1, <1>2, <2>1, <2>2 DEF Newest
<1>9. CASE WriteThrows
  <2>1. /\ file' = file \/ file' = Append(file, Torn)
        /\ recent' = recent /\ pc = "write" /\ pc' = "thrown"
    BY <1>9 DEF WriteThrows
  <2>2. file' # Append(file, Torn)
    <3>1. ASSUME file' = Append(file, Torn) PROVE ~TearFree(file')
      <4>1. Len(file') = Len(file) + 1 /\ file'[Len(file) + 1] = Torn
        BY <1>1, <3>1, FileTypes, AppendProperties
      <4> QED
        BY <1>1, <4>1 DEF TearFree
    <3> QED
      BY <3>1
  <2> QED
    BY <1>2, <2>1, <2>2 DEF Newest
<1>10. CASE Push
  <2>1. /\ file' = file /\ recent' = PushOn(recent, pending) /\ pc = "push" /\ pc' = "ready"
        /\ pending \in LogRecord /\ recent \in Seq(LogRecord) /\ bufferSize \in Nat
    BY <1>10, SizesNat DEF Push, Typed, TypeOK, fileVars
  <2>2. recent' # << >> => Last(recent') = pending
    BY <2>1, PushOnType
  <2> QED
    BY <1>2, <2>1, <2>2 DEF Newest
<1>11. CASE Read \/ ReaderEnds \/ UNCHANGED vars
  <2>1. UNCHANGED <<file, recent, pending, pc>>
    BY <1>11 DEF Read, ReaderEnds, vars, topicVars, fileVars, buffers
  <2> QED
    BY <1>2, <2>1 DEF Newest
<1> QED
  BY <1>3, <1>4, <1>5, <1>6, <1>7, <1>8, <1>9, <1>10, <1>11 DEF Next, Topic

LEMMA DenseInvNext ==
  ASSUME ReloadSizes \subseteq {0, 1}, Typed, FileInv, DenseInv, [Next]_vars
  PROVE  DenseInv'
<1> SUFFICES ASSUME {"look", "open", "flush"} \cap failed' = {} PROVE DenseInv'
  BY DEF DenseInv
<1>1. {"look", "open", "flush"} \cap failed = {}
  BY FailuresStay
<1>2. DenseUpTo(file, WholeLength(file))
      /\ (TearFree(file) /\ Write => pending.offset = Len(file))
  BY <1>1 DEF DenseInv, Newest, WholePrefixDense, DenseUpTo, Write
<1>3. DenseUpTo(file', WholeLength(file'))
  BY <1>2, DenseStep
<1>4. WholePrefixDense'
  BY <1>3 DEF WholePrefixDense, DenseUpTo
<1> QED
  BY <1>4, NewestStep DEF DenseInv

LEMMA DenseInvAlways ==
  ASSUME ReloadSizes \subseteq {0, 1}
  PROVE  Spec => [](Typed /\ FileInv /\ DenseInv)
<1>1. Init => DenseInv
  <2> SUFFICES ASSUME Init PROVE DenseInv
    OBVIOUS
  <2>1. file \in Seq(Frame) /\ Len(file) = 0
    BY EmptySeq DEF Init
  <2>2. WholeLength(file) = 0
    <3>1. WholeLength(file) \in 0 .. Len(file)
      BY <2>1, WholeLengthExists
    <3> QED
      BY <2>1, <3>1
  <2>3. WholePrefixDense
    BY <2>2 DEF WholePrefixDense
  <2> QED
    BY <2>3 DEF Init, DenseInv, Newest
<1>2. (Typed /\ FileInv) /\ DenseInv /\ [Next]_vars => DenseInv'
  BY DenseInvNext
<1> QED
  BY <1>1, <1>2, FileInvAlways, PTL DEF Spec

(* When at most one record is loaded at start-up, the offsets of the file  *)
(* are 0, 1, 2, ... up to the first tear, while every open and every flush *)
(* succeeds: what crashes and writes that are cut short or throw leave     *)
(* behind does not spoil what is before it.                                *)
THEOREM DenseUntilTorn ==
  ASSUME ReloadSizes \subseteq {0, 1}
  PROVE  Spec => []WholePrefixDense
<1>1. DenseInv => WholePrefixDense
  BY DEF DenseInv, WholePrefixDense
<1> QED
  BY <1>1, DenseInvAlways, PTL

(* ... and then no offset is given twice, unless a write was cut short.    *)
THEOREM OffsetsUniqueUntilTorn ==
  ASSUME ReloadSizes \subseteq {0, 1}
  PROVE  Spec => [](failed = {} => FileOffsetsUnique)
<1>1. ASSUME Typed, FileInv, DenseInv, failed = {} PROVE FileOffsetsUnique
  <2>1. file \in Seq(Frame) /\ WholeLength(file) = Len(file) /\ Len(file) \in Nat
    BY <1>1, FileTypes, WholeLengthTearFree, LenProperties DEF FileInv
  <2>2. \A i \in 1 .. Len(file) : file[i].offset = i - 1
    BY <1>1, <2>1 DEF DenseInv, WholePrefixDense
  <2> QED
    BY <2>1, <2>2 DEF FileOffsetsUnique
<1>2. Typed /\ FileInv /\ DenseInv => (failed = {} => FileOffsetsUnique)
  BY <1>1
<1> QED
  BY <1>2, DenseInvAlways, PTL

-----------------------------------------------------------------------------
(* The offsets of the file when records may be lost on the way to it.      *)

GrowsUpTo(f, n) == \A i, j \in 1 .. n : i < j => f[i].offset < f[j].offset

LEMMA GrowStep ==
  ASSUME Typed, [Next]_vars, GrowsUpTo(file, WholeLength(file)),
         TearFree(file) /\ Write =>
           \A i \in 1 .. Len(file) : file[i].offset < pending.offset
  PROVE  GrowsUpTo(file', WholeLength(file'))
<1>1. /\ file \in Seq(Frame) /\ Len(file) \in Nat
      /\ WholeLength(file) \in 0 .. Len(file)
  BY FileTypes, WholeLengthExists
<1>2. CASE file' = file
  BY <1>2
<1>3. ASSUME NEW frame \in Frame, file' = Append(file, frame),
             TearFree(file) /\ frame # Torn =>
               \A i \in 1 .. Len(file) : file[i].offset < frame.offset
      PROVE  GrowsUpTo(file', WholeLength(file'))
  <2>1. /\ \A i \in 1 .. Len(file) : file'[i] = file[i]
        /\ file'[Len(file) + 1] = frame
    BY <1>1, <1>3, AppendProperties
  <2>2. CASE TearFree(file) /\ frame # Torn
    <3>1. WholeLength(file') = Len(file) + 1 /\ WholeLength(file) = Len(file)
      BY <1>1, <1>3, <2>2, WholeLengthAppend, WholeLengthTearFree
    <3> SUFFICES ASSUME NEW i \in 1 .. (Len(file) + 1), NEW j \in 1 .. (Len(file) + 1), i < j
                 PROVE  file'[i].offset < file'[j].offset
      BY <3>1 DEF GrowsUpTo
    <3>2. CASE j = Len(file) + 1
      <4>1. i \in 1 .. Len(file)
        BY <1>1, <3>2
      <4> QED
        BY <1>3, <2>1, <2>2, <3>2, <4>1
    <3>3. CASE j # Len(file) + 1
      <4>1. i \in 1 .. Len(file) /\ j \in 1 .. Len(file)
        BY <1>1, <3>3
      <4> QED
        BY <2>1, <3>1, <4>1 DEF GrowsUpTo
    <3> QED
      BY <3>2, <3>3
  <2>3. CASE ~(TearFree(file) /\ frame # Torn)
    <3>1. WholeLength(file') = WholeLength(file)
      BY <1>1, <1>3, <2>3, WholeLengthAppend
    <3> QED
      BY <1>1, <2>1, <3>1 DEF GrowsUpTo
  <2> QED
    BY <2>2, <2>3
<1> QED
  BY <1>2, <1>3, FileGrows, FileTypes

LEMMA AboveStep ==
  ASSUME ReloadSizes \subseteq {0, 1}, Typed, FileInv, GrowInv, [Next]_vars,
         "look" \notin failed', TearFree(file')
  PROVE  Above'
<1>1. /\ TearFree(file) /\ "look" \notin failed
      /\ file \in Seq(Frame) /\ Len(file) \in Nat
  BY FileStarts, FailuresStay, FileTypes, LenProperties
<1>2. /\ GrowsUpTo(file, WholeLength(file)) /\ WholeLength(file) = Len(file)
      /\ Above
  BY <1>1, WholeLengthTearFree DEF GrowInv, PrefixIncreases, GrowsUpTo
<1>3. file \in Seq(LogRecord) /\ \A i \in 1 .. Len(file) : file[i].offset \in Nat
  <2>1. file \in Seq(LogRecord)
    <3>1. WholePrefix(file) = file
      BY <1>1, <1>2, SubSeqFull DEF WholePrefix
    <3> QED
      BY <1>1, <3>1, WholePrefixType
  <2>2. \A i \in 1 .. Len(file) : file[i] \in LogRecord
    BY <2>1, ElementOfSeq
  <2> QED
    BY <2>1, <2>2 DEF LogRecord
<1>4. CASE Construct \/ ConstructBlind
  <2>1. /\ file' = file /\ pc' = "ready"
        /\ bufferSize' \in IF exists THEN ReloadSizes ELSE NewSizes
    BY <1>4 DEF Construct, ConstructBlind, NewLife, fileVars
  <2>2. exists \/ recent' = << >>
    BY <1>1, <1>4, Constructed, ConstructedBlind
  <2>3. recent' # << >> => Len(file) # 0 /\ Last(recent') = Last(file)
    BY <1>1, <1>4, <2>1, <2>2, LoadsLast
  <2>4. ASSUME Len(file) # 0, NEW i \in 1 .. Len(file)
        PROVE  file[i].offset <= Last(file).offset
    <3>1. Len(file) \in 1 .. Len(file)
      BY <1>1, <2>4
    <3>2. CASE i = Len(file)
      BY <1>3, <3>1, <3>2 DEF Last
    <3>3. CASE i # Len(file)
      <4>1. i < Len(file)
        BY <1>1, <3>3
      <4>2. file[i].offset < file[Len(file)].offset
        BY <1>2, <3>1, <4>1 DEF GrowsUpTo
      <4> QED
        BY <1>3, <3>1, <4>2 DEF Last
    <3> QED
      BY <3>2, <3>3
  <2> QED
    BY <2>1, <2>3, <2>4 DEF Above
<1>5. CASE Destroy \/ Crash \/ CrashInWrite
  BY <1>5 DEF Destroy, Crash, CrashInWrite, EndLife, Above
<1>6. ASSUME NEW m \in Messages, InsertNext(m) \/ InsertFirst(m)
      PROVE  Above'
  <2>1. /\ file' = file /\ recent' = recent /\ pc = "ready" /\ pc' = "write"
    BY <1>6 DEF InsertNext, InsertFirst, AssignOffset, fileVars
  <2>2. CASE InsertNext(m)
    <3>1. recent # << >> /\ pending'.offset = Last(recent).offset + 1
      BY <2>2 DEF InsertNext, AssignOffset, Last
    <3>2. Last(recent).offset \in Nat
      <4>1. recent \in Seq(LogRecord) /\ Len(recent) \in 1 .. Len(recent)
        BY <3>1, EmptySeq DEF Typed, TypeOK
      <4>2. Last(recent) \in LogRecord
        BY <4>1, ElementOfSeq DEF Last
      <4> QED
        BY <4>2 DEF LogRecord
    <3>3. \A i \in 1 .. Len(file) : file[i].offset <= Last(recent).offset
      BY <1>2, <2>1, <3>1 DEF Above
    <3>4. \A i \in 1 .. Len(file) : file[i].offset < pending'.offset
      BY <1>3, <3>1, <3>2, <3>3
    <3> QED
      BY <2>1, <3>3, <3>4 DEF Above
  <2>3. CASE InsertFirst(m)
    <3>1. ~exists /\ recent = << >>
      BY <2>3 DEF InsertFirst, AssignOffset, Fail
    <3>2. Len(file) = 0
      BY <3>1, EmptySeq DEF FileInv
    <3> QED
      BY <2>1, <3>1, <3>2 DEF Above
  <2> QED
    BY <1>6, <2>2, <2>3
<1>7. CASE InsertRefused \/ OpenForWrite \/ Catch
  <2>1. /\ UNCHANGED <<file, recent, pending>> /\ pc \in {"ready", "write", "thrown"}
        /\ pc' \in {"ready", "thrown", "write"}
        /\ pc' = "write" => pc = "write"
    BY <1>7 DEF InsertRefused, OpenForWrite, OpenSharedFile, Catch, fileVars, buffers
  <2> QED
    BY <1>2, <2>1 DEF Above
<1>8. pc \in {"write", "push"} => pending \in LogRecord /\ pending.offset \in Nat
  BY DEF Typed, LogRecord
<1>9. CASE Write
  <2>1. /\ file' = Append(file, pending) /\ pending' = pending /\ pending \in LogRecord
        /\ pc = "write" /\ pc' = "push"
    BY <1>9 DEF Write, WriteFrame, Typed, buffers
  <2>2. /\ Len(file') = Len(file) + 1
        /\ \A i \in 1 .. Len(file) : file'[i] = file[i]
        /\ file'[Len(file) + 1] = pending
    BY <1>3, <2>1, AppendProperties
  <2>3. \A i \in 1 .. Len(file) : file[i].offset < pending.offset
    BY <1>2, <2>1 DEF Above
  <2>4. ASSUME NEW i \in 1 .. (Len(file) + 1) PROVE file'[i].offset <= pending.offset
    <3>1. CASE i \in 1 .. Len(file)
      BY <1>3, <1>8, <2>1, <2>2, <2>3, <3>1
    <3>2. CASE i = Len(file) + 1
      BY <1>8, <2>1, <2>2, <3>2
    <3> QED
      BY <1>1, <3>1, <3>2
  <2> QED
    BY <2>1, <2>2, <2>4 DEF Above
<1>10. CASE WriteThrows \/ OpenFails \/ FlushFails
  <2>1. /\ file' = file \/ file' = Append(file, Torn)
        /\ recent' = recent /\ pc = "write" /\ pc' \in {"thrown", "push"}
        /\ pc' = "push" => pending' = pending
    BY <1>10 DEF WriteThrows, OpenFails, FlushFails, fileVars, buffers
  <2>2. file' # Append(file, Torn)
    <3>1. ASSUME file' = Append(file, Torn) PROVE ~TearFree(file')
      <4>1. Len(file') = Len(file) + 1 /\ file'[Len(file) + 1] = Torn
        BY <1>1, <3>1, FileTypes, AppendProperties
      <4> QED
        BY <1>1, <4>1 DEF TearFree
    <3> QED
      BY <3>1
  <2>3. \A i \in 1 .. Len(file) : file[i].offset <= pending.offset
    <3>1. \A i \in 1 .. Len(file) : file[i].offset < pending.offset
      BY <1>2, <2>1 DEF Above
    <3> QED
      BY <1>3, <1>8, <2>1, <3>1
  <2> QED
    BY <1>2, <2>1, <2>2, <2>3 DEF Above
<1>11. CASE Push
  <2>1. /\ file' = file /\ recent' = PushOn(recent, pending) /\ pc = "push" /\ pc' = "ready"
        /\ pending \in LogRecord /\ recent \in Seq(LogRecord) /\ bufferSize \in Nat
    BY <1>11, SizesNat DEF Push, Typed, TypeOK, fileVars
  <2>2. recent' # << >> => Last(recent') = pending
    BY <2>1, PushOnType
  <2> QED
    BY <1>2, <2>1, <2>2 DEF Above
<1>12. CASE Read \/ ReaderEnds \/ UNCHANGED vars
  <2>1. UNCHANGED <<file, recent, pending, pc>>
    BY <1>12 DEF Read, ReaderEnds, vars, topicVars, fileVars, buffers
  <2> QED
    BY <1>2, <2>1 DEF Above
<1> QED
  BY <1>4, <1>5, <1>6, <1>7, <1>9, <1>10, <1>11, <1>12 DEF Next, Topic

LEMMA GrowInvNext ==
  ASSUME ReloadSizes \subseteq {0, 1}, Typed, FileInv, GrowInv, [Next]_vars
  PROVE  GrowInv'
<1> SUFFICES ASSUME "look" \notin failed' PROVE GrowInv'
  BY DEF GrowInv
<1>1. "look" \notin failed
  BY FailuresStay
<1>2. GrowsUpTo(file, WholeLength(file))
  BY <1>1 DEF GrowInv, PrefixIncreases, GrowsUpTo
<1>3. TearFree(file) /\ Write => \A i \in 1 .. Len(file) : file[i].offset < pending.offset
  BY <1>1 DEF GrowInv, Above, Write
<1>4. GrowsUpTo(file', WholeLength(file'))
  BY <1>2, <1>3, GrowStep
<1>5. PrefixIncreases'
  BY <1>4 DEF PrefixIncreases, GrowsUpTo
<1> QED
  BY <1>5, AboveStep DEF GrowInv

(* When at most one record is loaded at start-up, and the file is found    *)
(* whenever it is there, the offsets up to the first tear grow, however    *)
(* often opens, writes and flushes fail and the process dies.              *)
THEOREM IncreasingUntilTorn ==
  ASSUME ReloadSizes \subseteq {0, 1}
  PROVE  Spec => []PrefixIncreases
<1>1. Init => GrowInv
  <2> SUFFICES ASSUME Init PROVE GrowInv
    OBVIOUS
  <2>1. file \in Seq(Frame) /\ Len(file) = 0
    BY EmptySeq DEF Init
  <2>2. WholeLength(file) \in 0 .. Len(file)
    BY <2>1, WholeLengthExists
  <2>3. PrefixIncreases
    BY <2>1, <2>2 DEF PrefixIncreases
  <2> QED
    BY <2>3 DEF Init, GrowInv, Above
<1>2. (Typed /\ FileInv) /\ GrowInv /\ [Next]_vars => GrowInv'
  BY GrowInvNext
<1>3. GrowInv => PrefixIncreases
  BY DEF GrowInv, PrefixIncreases
<1> QED
  BY <1>1, <1>2, <1>3, FileInvAlways, PTL DEF Spec

-----------------------------------------------------------------------------
(* What the oldest buffer has of the file.                                 *)

LEMMA HoldsInvNext == Typed /\ FileInv /\ HoldsInv /\ [Next]_vars => HoldsInv'
<1> SUFFICES ASSUME Typed, FileInv, HoldsInv, [Next]_vars, failed' = {}
             PROVE  HoldsInv'
  BY DEF HoldsInv
<1>1. failed = {} /\ TearFree(file) /\ file \in Seq(Frame)
  BY FailuresStay, FileTypes DEF FileInv
<1>2. /\ Len(file) \in Nat /\ Len(acked) \in Nat /\ acked \in Seq(LogRecord)
      /\ Len(acked) <= Len(file)
      /\ pc = "push" => Len(acked) < Len(file)
  BY <1>1, LenProperties DEF HoldsInv, Typed, TypeOK
<1>3. CASE Construct
  <2>1. /\ file' = file /\ acked' = acked /\ pc' = "ready" /\ born' = Len(acked)
    BY <1>3 DEF Construct, NewLife, fileVars
  <2>2. bufferSize' \in Nat
    BY <1>1, <1>3, Constructed
  <2>3. Len(oldest') >= IF bufferSize' < born' THEN bufferSize' ELSE born'
    <3>1. CASE exists
      <4>1. oldest' = FromHead(file, bufferSize') /\ file \in Seq(LogRecord)
        BY <1>1, <1>3, <3>1, Constructed
      <4>2. Len(oldest') = IF bufferSize' < Len(file) THEN bufferSize' ELSE Len(file)
        BY <2>2, <4>1, FromHeadType
      <4> QED
        BY <1>2, <2>1, <2>2, <4>2
    <3>2. CASE ~exists
      <4>1. Len(file) = 0 /\ oldest' = << >>
        BY <1>1, <1>3, <3>2, EmptySeq, Constructed DEF FileInv
      <4>2. Len(oldest') = 0
        BY <4>1, EmptySeq
      <4> QED
        BY <1>2, <2>1, <2>2, <4>1, <4>2
    <3> QED
      BY <3>1, <3>2
  <2> QED
    BY <1>2, <2>1, <2>3 DEF HoldsInv
<1>4. CASE Destroy \/ Crash
  <2>1. pc' = "none" /\ UNCHANGED <<file, acked>>
    BY <1>4 DEF Destroy, Crash, EndLife, CloseSharedFile
  <2> QED
    BY <1>2, <2>1 DEF HoldsInv
<1>5. CASE ConstructBlind \/ CrashInWrite \/ OpenFails \/ WriteThrows \/ FlushFails
  BY <1>5 DEF ConstructBlind, CrashInWrite, OpenFails, WriteThrows, FlushFails, Fail
<1>6. ASSUME \/ \E m \in Messages : InsertNext(m) \/ InsertFirst(m)
             \/ InsertRefused \/ OpenForWrite \/ Catch
             \/ Read \/ ReaderEnds \/ UNCHANGED vars
      PROVE  /\ UNCHANGED <<file, acked, born, bufferSize, oldest>>
             /\ pc' = "push" => pc = "push"
             /\ pc' # "none" => pc # "none"
  BY <1>6 DEF InsertNext, InsertFirst, AssignOffset, InsertRefused, OpenForWrite,
     OpenSharedFile, Catch, Read, ReaderEnds, vars, topicVars, fileVars, buffers, history
<1>7. CASE /\ UNCHANGED <<file, acked, born, bufferSize, oldest>>
           /\ pc' = "push" => pc = "push"
           /\ pc' # "none" => pc # "none"
  BY <1>1, <1>7 DEF HoldsInv
<1>8. CASE Write
  <2>1. /\ file' = Append(file, pending) /\ pending \in Frame
        /\ UNCHANGED <<acked, born, bufferSize, oldest>> /\ pc = "write"
    BY <1>8, FileTypes DEF Write, WriteFrame, Typed, buffers, history
  <2>2. Len(file') = Len(file) + 1
    BY <1>1, <2>1, AppendProperties
  <2>3. Len(acked') < Len(file')
    BY <1>2, <2>1, <2>2
  <2>4. Len(oldest) >= IF bufferSize < born THEN bufferSize ELSE born
    BY <1>1, <2>1 DEF HoldsInv
  <2> QED
    BY <1>2, <2>1, <2>2, <2>3, <2>4 DEF HoldsInv
<1>9. CASE Push
  <2>1. /\ acked' = Append(acked, pending) /\ pending \in LogRecord
        /\ UNCHANGED <<file, born, bufferSize, oldest>> /\ pc = "push" /\ pc' = "ready"
    BY <1>9 DEF Push, Typed, fileVars
  <2>2. Len(acked') = Len(acked) + 1
    BY <1>2, <2>1, AppendProperties
  <2>3. Len(acked') <= Len(file')
    BY <1>2, <2>1, <2>2
  <2>4. Len(oldest) >= IF bufferSize < born THEN bufferSize ELSE born
    BY <1>1, <2>1 DEF HoldsInv
  <2> QED
    BY <2>1, <2>3, <2>4 DEF HoldsInv
<1> QED
  BY <1>3, <1>4, <1>5, <1>6, <1>7, <1>8, <1>9 DEF Next, Topic

(* Until something other than a crash fails, the oldest buffer starts the  *)
(* file and has, up to its size, as many records as were acknowledged when *)
(* the topic was constructed, for any buffer sizes and any restarts.       *)
THEOREM OldestHoldsUntilFailure ==
  Spec => [](failed = {} => OldestHoldsStart)
<1>1. Init => HoldsInv
  BY EmptySeq DEF Init, HoldsInv
<1>2. FileInv /\ ReadInv /\ HoldsInv => (failed = {} => OldestHoldsStart)
  BY DEF FileInv, ReadInv, HoldsInv, OldestHoldsStart
<1> QED
  BY <1>1, <1>2, HoldsInvNext, FileInvAlways, ReadInvAlways, PTL DEF Spec

-----------------------------------------------------------------------------
(* Which topics refuse an insert.                                          *)

LEMMA RefusedInvNext == Typed /\ FileInv /\ RefusedInv /\ [Next]_vars => RefusedInv'
<1> SUFFICES ASSUME Typed, FileInv, RefusedInv, [Next]_vars, failed' = {}
             PROVE  RefusedInv'
  BY DEF RefusedInv
<1>1. failed = {} /\ TearFree(file) /\ file \in Seq(Frame)
  BY FailuresStay, FileTypes DEF FileInv
<1>2. ASSUME Construct, recent' = << >> PROVE Empty'
  <2>1. file' = file
    BY <1>2 DEF Construct, NewLife, fileVars
  <2>2. CASE exists
    <3>1. /\ bufferSize' \in Nat /\ file \in Seq(LogRecord)
          /\ FromTail(file, bufferSize') = << >>
      BY <1>1, <1>2, <2>2, Constructed
    <3> QED
      BY <2>1, <3>1, FromTailEmpty DEF Empty
  <2>3. CASE ~exists
    BY <2>1, <2>3 DEF FileInv, Empty
  <2> QED
    BY <2>2, <2>3
<1>3. Construct => pc' = "ready"
  BY DEF Construct, NewLife
<1>4. CASE Destroy \/ Crash \/ CrashInWrite
  BY <1>4 DEF Destroy, Crash, CrashInWrite, EndLife, RefusedInv
<1>5. ASSUME NEW m \in Messages, InsertNext(m) \/ InsertFirst(m)
      PROVE  RefusedInv'
  <2>1. UNCHANGED <<file, recent, bufferSize>> /\ pc = "ready" /\ pc' = "write"
    BY <1>5 DEF InsertNext, InsertFirst, AssignOffset, fileVars
  <2> QED
    BY <1>1, <2>1 DEF RefusedInv, Empty
<1>6. CASE InsertRefused \/ OpenForWrite \/ Catch
  <2>1. /\ UNCHANGED <<file, recent, bufferSize>> /\ pc \in {"ready", "write", "thrown"}
        /\ pc' = "thrown" => pc = "thrown" \/ recent = << >>
    BY <1>6 DEF InsertRefused, OpenForWrite, OpenSharedFile, Catch, fileVars, buffers
  <2> QED
    BY <1>1, <2>1 DEF RefusedInv, Empty
<1>7. CASE ConstructBlind \/ OpenFails \/ WriteThrows \/ FlushFails
  BY <1>7 DEF ConstructBlind, OpenFails, WriteThrows, FlushFails, Fail
<1>8. CASE Write
  BY <1>8 DEF Write, RefusedInv
<1>9. CASE Push
  <2>1. /\ recent' = PushOn(recent, pending) /\ bufferSize' = bufferSize /\ pc' = "ready"
        /\ pending \in LogRecord /\ recent \in Seq(LogRecord) /\ bufferSize \in Nat
    BY <1>9, SizesNat DEF Push, Typed, TypeOK
  <2> QED
    BY <2>1, PushOnType DEF RefusedInv, Empty
<1>10. CASE Read \/ ReaderEnds \/ UNCHANGED vars
  <2>1. UNCHANGED <<file, recent, bufferSize, pc>>
    BY <1>10 DEF Read, ReaderEnds, vars, topicVars, fileVars, buffers
  <2> QED
    BY <1>1, <2>1 DEF RefusedInv, Empty
<1> QED
  BY <1>1, <1>2, <1>3, <1>4, <1>5, <1>6, <1>7, <1>8, <1>9, <1>10 DEF Next, Topic, RefusedInv

(* Until something other than a crash fails, insert refuses only a topic   *)
(* whose file was never written or that has no room for its newest record: *)
(* every other topic can be inserted into after every restart, for any     *)
(* buffer sizes.                                                           *)
THEOREM RefusedOnlyWhenEmptyUntilFailure ==
  Spec => [](failed = {} => RefusedOnlyWhenEmpty)
<1>1. Init => RefusedInv
  BY DEF Init, RefusedInv
<1>2. RefusedInv => (failed = {} => RefusedOnlyWhenEmpty)
  BY DEF RefusedInv, RefusedOnlyWhenEmpty, Empty
<1> QED
  BY <1>1, <1>2, RefusedInvNext, FileInvAlways, PTL DEF Spec

-----------------------------------------------------------------------------
(* The recent buffer.                                                      *)

LEMMA EndOfType ==
  ASSUME NEW f \in Seq(LogRecord), NEW k \in Nat
  PROVE  LET n == IF k < Len(f) THEN k ELSE Len(f)
         IN  /\ EndOf(f, k) \in Seq(LogRecord)
             /\ Len(EndOf(f, k)) = n
             /\ \A i \in 1 .. n : EndOf(f, k)[i] = f[Len(f) - n + i]
<1> DEFINE n == IF k < Len(f) THEN k ELSE Len(f)
           m == Len(f) - n + 1
<1>1. /\ n \in Nat /\ Len(f) \in Nat /\ m \in Int
      /\ m \in 1 .. Len(f) + 1
      /\ Len(f) - m + 1 = n
      /\ m <= Len(f) <=> n # 0
  <2>1. n \in 0 .. Len(f) /\ Len(f) \in Nat
    OBVIOUS
  <2> HIDE DEF n
  <2> QED
    BY <2>1
<1>2. EndOf(f, k) = SubSeq(f, m, Len(f))
  BY DEF EndOf
<1>3. \A i \in 1 .. n : m + i - 1 = Len(f) - n + i
  BY <1>1
<1> HIDE DEF m, n
<1>4. \A i \in m .. Len(f) : f[i] \in LogRecord
  BY <1>1, ElementOfSeq
<1>5. /\ EndOf(f, k) \in Seq(LogRecord)
      /\ Len(EndOf(f, k)) = IF m <= Len(f) THEN Len(f) - m + 1 ELSE 0
      /\ \A i \in 1 .. n : EndOf(f, k)[i] = f[m + i - 1]
  BY <1>1, <1>2, <1>4, SubSeqProperties
<1>6. Len(EndOf(f, k)) = n
  BY <1>1, <1>5
<1>7. \A i \in 1 .. n : EndOf(f, k)[i] = f[Len(f) - n + i]
  BY <1>3, <1>5
<1> QED
  BY <1>5, <1>6, <1>7 DEF n

(* One record is loaded as it is read: for more of them FromTail turns     *)
(* the order around.                                                       *)
LEMMA FromTailIsEnd ==
  ASSUME NEW f \in Seq(LogRecord), NEW k \in {0, 1}
  PROVE  FromTail(f, k) = EndOf(f, k)
<1> DEFINE n == IF k < Len(f) THEN k ELSE Len(f)
<1>1. n \in {0, 1} /\ Len(f) \in Nat
  <2>1. CASE k = 0
    BY <2>1
  <2>2. CASE k = 1
    <3>1. n = IF 1 < Len(f) THEN 1 ELSE Len(f)
      BY <2>2
    <3> HIDE DEF n
    <3> QED
      BY <3>1
  <2> QED
    BY <2>1, <2>2
<1>2. /\ FromTail(f, k) \in Seq(LogRecord)
      /\ Len(FromTail(f, k)) = n
      /\ \A i \in 1 .. n : FromTail(f, k)[i] = f[Len(f) + 1 - i]
  BY FromTailType
<1>3. /\ EndOf(f, k) \in Seq(LogRecord)
      /\ Len(EndOf(f, k)) = n
      /\ \A i \in 1 .. n : EndOf(f, k)[i] = f[Len(f) - n + i]
  BY EndOfType
<1> HIDE DEF n
<1>4. \A i \in 1 .. n : Len(f) + 1 - i = Len(f) - n + i
  BY <1>1
<1> QED
  BY <1>2, <1>3, <1>4, SeqEqual

LEMMA FrontOfAppend ==
  ASSUME NEW f \in Seq(LogRecord), NEW r \in LogRecord
  PROVE  Front(Append(f, r)) = f
<1> DEFINE g == Append(f, r)
<1>1. /\ g \in Seq(LogRecord)
      /\ Len(g) = Len(f) + 1
      /\ \A i \in 1 .. Len(f) : g[i] = f[i] /\ f[i] \in LogRecord
  BY AppendProperties, ElementOfSeq
<1> HIDE DEF g
<1>2. Front(g) = SubSeq(g, 1, Len(f)) /\ Len(f) \in Nat
  BY <1>1 DEF Front
<1>3. /\ Front(g) \in Seq(LogRecord)
      /\ Len(Front(g)) = Len(f)
      /\ \A i \in 1 .. Len(f) : Front(g)[i] = g[i]
  BY <1>1, <1>2, SubSeqProperties
<1>4. Front(g) = f
  BY <1>1, <1>3, SeqEqual
<1> QED
  BY <1>4 DEF g

LEMMA PushOnEnd ==
  ASSUME NEW f \in Seq(LogRecord), NEW r \in LogRecord, bufferSize \in Nat
  PROVE  PushOn(EndOf(f, bufferSize), r) = EndOf(Append(f, r), bufferSize)
<1> DEFINE k == bufferSize
           g == Append(f, r)
           b == EndOf(f, k)
           longer == Append(b, r)
           e == EndOf(g, k)
           n == IF k < Len(f) THEN k ELSE Len(f)
           m == IF k < Len(g) THEN k ELSE Len(g)
<1>1. /\ g \in Seq(LogRecord)
      /\ Len(g) = Len(f) + 1
      /\ g[Len(f) + 1] = r
      /\ \A i \in 1 .. Len(f) : g[i] = f[i]
  BY AppendProperties
<1>2. b \in Seq(LogRecord) /\ Len(b) = n /\ \A i \in 1 .. n : b[i] = f[Len(f) - n + i]
  BY EndOfType
<1>3. e \in Seq(LogRecord) /\ Len(e) = m /\ \A i \in 1 .. m : e[i] = g[Len(g) - m + i]
  <2>1. g \in Seq(LogRecord)
    BY <1>1
  <2> HIDE DEF g
  <2> QED
    BY <2>1, EndOfType
<1>4. PushOn(b, r) = IF Len(longer) > k THEN Tail(longer) ELSE longer
  BY DEF PushOn
<1> HIDE DEF b, e, g
<1>5. /\ longer \in Seq(LogRecord)
      /\ longer # << >>
      /\ Len(longer) = n + 1
      /\ longer[n + 1] = r
      /\ \A i \in 1 .. n : longer[i] = b[i]
  BY <1>2, AppendProperties
<1> HIDE DEF longer
<1>6. k \in Nat /\ Len(f) \in Nat /\ n \in Nat
  OBVIOUS
<1>7. CASE n + 1 > k
  <2>1. n = k /\ m = k /\ k <= Len(f)
    BY <1>1, <1>6, <1>7
  <2>2. /\ Tail(longer) \in Seq(LogRecord)
        /\ Len(Tail(longer)) = k
        /\ \A i \in 1 .. k : Tail(longer)[i] = longer[i + 1]
    BY <1>5, <1>6, <2>1, HeadTailProperties
  <2> HIDE DEF n, m, k
  <2>3. ASSUME NEW i \in 1 .. k PROVE Tail(longer)[i] = e[i]
    <3>1. e[i] = g[(Len(f) + 1) - k + i]
      BY <1>1, <1>3, <2>1
    <3>2. CASE i = k
      <4>1. (Len(f) + 1) - k + i = Len(f) + 1
        BY <1>6, <3>2
      <4>2. Tail(longer)[i] = longer[n + 1]
        BY <2>1, <2>2, <3>2
      <4> QED
        BY <1>1, <1>5, <3>1, <4>1, <4>2
    <3>3. CASE i # k
      <4>1. /\ i + 1 \in 1 .. n
            /\ (Len(f) + 1) - k + i = Len(f) - n + (i + 1)
            /\ (Len(f) + 1) - k + i \in 1 .. Len(f)
        BY <1>6, <2>1, <3>3
      <4>2. Tail(longer)[i] = f[Len(f) - n + (i + 1)]
        BY <1>2, <1>5, <2>2, <4>1
      <4> QED
        BY <1>1, <3>1, <4>1, <4>2
    <3> QED
      BY <3>2, <3>3
  <2>4. Tail(longer) = e
    BY <1>3, <2>1, <2>2, <2>3, SeqEqual
  <2>5. PushOn(b, r) = Tail(longer)
    BY <1>4, <1>5, <1>7
  <2> QED
    BY <2>4, <2>5 DEF b, e, g, k
<1>8. CASE ~(n + 1 > k)
  <2>1. n = Len(f) /\ m = Len(f) + 1
    BY <1>1, <1>6, <1>8
  <2> HIDE DEF n, m, k
  <2>2. ASSUME NEW i \in 1 .. (n + 1) PROVE longer[i] = e[i]
    <3>1. e[i] = g[i]
      <4>1. i \in 1 .. m /\ Len(g) - m + i = i
        BY <1>1, <1>6, <2>1
      <4> QED
        BY <1>3, <4>1
    <3>2. CASE i = n + 1
      BY <1>1, <1>5, <2>1, <3>1, <3>2
    <3>3. CASE i # n + 1
      <4>1. i \in 1 .. n /\ i \in 1 .. Len(f) /\ Len(f) - n + i = i
        BY <1>6, <2>1, <3>3
      <4> QED
        BY <1>1, <1>2, <1>5, <3>1, <4>1
    <3> QED
      BY <3>2, <3>3
  <2>3. longer = e
    BY <1>3, <1>5, <2>1, <2>2, SeqEqual
  <2>4. PushOn(b, r) = longer
    BY <1>4, <1>5, <1>8
  <2> QED
    BY <2>3, <2>4 DEF b, e, g, k
<1> QED
  BY <1>7, <1>8

LEMMA RecordsOnly ==
  ASSUME Typed, FileInv, failed = {}
  PROVE  file \in Seq(LogRecord)
<1>1. file \in Seq(Frame) /\ WholePrefix(file) = file
  BY FileTypes, WholeLengthTearFree, SubSeqFull DEF FileInv, WholePrefix
<1> QED
  BY <1>1, WholePrefixType

LEMMA RecentInvNext ==
  ASSUME ReloadSizes \subseteq {0, 1}, Typed, FileInv, RecentInv, [Next]_vars
  PROVE  RecentInv'
<1> SUFFICES ASSUME failed' = {} PROVE RecentInv'
  BY DEF RecentInv
<1>1. failed = {} /\ TearFree(file) /\ file \in Seq(Frame)
  BY FailuresStay, FileTypes DEF FileInv
<1>2. file \in Seq(LogRecord)
  BY <1>1, RecordsOnly
<1>3. CASE Construct
  <2>1. /\ file' = file /\ pc' = "ready"
        /\ exists => bufferSize' \in {0, 1}
    BY <1>3 DEF Construct, NewLife, fileVars
  <2>2. recent' = EndOf(file, bufferSize')
    <3>1. CASE exists
      <4>1. recent' = FromTail(file, bufferSize')
        BY <1>1, <1>3, <3>1, Constructed
      <4> QED
        BY <1>2, <2>1, <3>1, <4>1, FromTailIsEnd
    <3>2. CASE ~exists
      <4>1. file = << >> /\ recent' = << >> /\ bufferSize' \in Nat
        BY <1>1, <1>3, <3>2, Constructed DEF FileInv
      <4>2. EndOf(file, bufferSize') \in Seq(LogRecord) /\ Len(EndOf(file, bufferSize')) = 0
        <5>1. Len(file) = 0
          BY <4>1, EmptySeq
        <5>2. EndOf(file, bufferSize') \in Seq(LogRecord)
              /\ Len(EndOf(file, bufferSize')) =
                   IF bufferSize' < Len(file) THEN bufferSize' ELSE Len(file)
          BY <1>2, <4>1, EndOfType
        <5> QED
          BY <4>1, <5>1, <5>2
      <4> QED
        BY <4>1, <4>2, EmptySeq
    <3> QED
      BY <3>1, <3>2
  <2> QED
    BY <2>1, <2>2 DEF RecentInv
<1>4. CASE Destroy \/ Crash \/ CrashInWrite
  BY <1>4 DEF Destroy, Crash, CrashInWrite, EndLife, RecentInv
<1>5. ASSUME NEW m \in Messages, InsertNext(m) \/ InsertFirst(m)
      PROVE  RecentInv'
  <2>1. UNCHANGED <<file, recent, bufferSize>> /\ pc = "ready" /\ pc' = "write"
    BY <1>5 DEF InsertNext, InsertFirst, AssignOffset, fileVars
  <2> QED
    BY <1>1, <2>1 DEF RecentInv
<1>6. CASE InsertRefused \/ OpenForWrite \/ Catch
  <2>1. /\ UNCHANGED <<file, recent, bufferSize>> /\ pc \in {"ready", "write", "thrown"}
        /\ pc' # "push"
    BY <1>6 DEF InsertRefused, OpenForWrite, OpenSharedFile, Catch, fileVars, buffers
  <2> QED
    BY <1>1, <2>1 DEF RecentInv
<1>7. CASE ConstructBlind \/ OpenFails \/ WriteThrows \/ FlushFails
  BY <1>7 DEF ConstructBlind, OpenFails, WriteThrows, FlushFails, Fail
<1>8. CASE Write
  <2>1. /\ file' = Append(file, pending) /\ UNCHANGED <<recent, bufferSize, pending>>
        /\ pc = "write" /\ pc' = "push" /\ pending \in LogRecord
    BY <1>8 DEF Write, WriteFrame, Typed, buffers
  <2>2. Front(file') = file
    BY <1>2, <2>1, FrontOfAppend
  <2> QED
    BY <1>1, <2>1, <2>2 DEF RecentInv
<1>9. CASE Push
  <2>1. /\ recent' = PushOn(recent, pending) /\ UNCHANGED <<file, bufferSize>>
        /\ pc = "push" /\ pc' = "ready"
        /\ pending \in LogRecord /\ bufferSize \in Nat
    BY <1>9, SizesNat DEF Push, Typed, TypeOK, fileVars
  <2>2. file = Append(Front(file), pending) /\ recent = EndOf(Front(file), bufferSize)
    BY <1>1, <2>1 DEF RecentInv
  <2>3. Front(file) \in Seq(LogRecord)
    <3>1. \A i \in 1 .. (Len(file) - 1) : file[i] \in LogRecord
      BY <1>2, ElementOfSeq, LenProperties
    <3>2. Len(file) - 1 \in Int
      BY <1>2, LenProperties
    <3> QED
      BY <3>1, <3>2, SubSeqProperties DEF Front
  <2>4. recent' = EndOf(file, bufferSize)
    BY <2>1, <2>2, <2>3, PushOnEnd
  <2> QED
    BY <2>1, <2>4 DEF RecentInv
<1>10. CASE Read \/ ReaderEnds \/ UNCHANGED vars
  <2>1. UNCHANGED <<file, recent, bufferSize, pc, pending>>
    BY <1>10 DEF Read, ReaderEnds, vars, topicVars, fileVars, buffers
  <2> QED
    BY <1>1, <2>1 DEF RecentInv
<1> QED
  BY <1>3, <1>4, <1>5, <1>6, <1>7, <1>8, <1>9, <1>10 DEF Next, Topic

(* When at most one record is loaded at start-up, the recent buffer is the *)
(* end of the file whenever no insert is under way, through all inserts,   *)
(* restarts and crashes, until something else fails.                       *)
THEOREM RecentIsEndUntilFailure ==
  ASSUME ReloadSizes \subseteq {0, 1}
  PROVE  Spec => [](failed = {} => RecentIsEndOfFile)
<1>1. Init => RecentInv
  BY DEF Init, RecentInv
<1>2. Typed /\ FileInv /\ RecentInv /\ [Next]_vars => RecentInv'
  BY RecentInvNext
<1>3. RecentInv => (failed = {} => RecentIsEndOfFile)
  BY DEF RecentInv, RecentIsEndOfFile, EndOf
<1> QED
  BY <1>1, <1>2, <1>3, FileInvAlways, PTL DEF Spec

-----------------------------------------------------------------------------
(* The refinement.                                                         *)

(* A step of the topic is an insert at the end of an append-only log, or   *)
(* leaves the file alone.                                                  *)
LEMMA LogStep ==
  ASSUME Faults \subseteq {"crash"}, Typed, FileInv, DenseInv, [Next]_vars
  PROVE  [FileLog!Next]_file
<1>1. failed = {} /\ failed' = {}
  BY TypedNext DEF Typed, TypeOK
<1>2. CASE file' = Append(file, pending) /\ pending \in LogRecord /\ Write
  <2>1. pending.offset = Len(file)
    BY <1>1, <1>2 DEF Write, FileInv, DenseInv, Newest
  <2>2. PICK n \in Nat, m \in Messages : pending = [offset |-> n, message |-> m]
    BY <1>2 DEF LogRecord
  <2>3. pending = [offset |-> Len(file), message |-> m]
    BY <2>1, <2>2
  <2>4. FileLog!Append1(m)
    BY <1>2, <2>3 DEF FileLog!Append1
  <2> QED
    BY <2>4 DEF FileLog!Next
<1>3. CASE file' = file
  BY <1>3
<1> QED
  BY <1>1, <1>2, <1>3, FileGrows

(* When at most one record is loaded at start-up, the file implements an   *)
(* append-only log whose offsets are the positions of its records, with    *)
(* crashes of the process at any moment.                                   *)
THEOREM FileIsAppendLog ==
  ASSUME Faults \subseteq {"crash"}, ReloadSizes \subseteq {0, 1}
  PROVE  Spec => FileImplementsLog
<1>1. Init => FileLog!Init
  BY DEF Init, FileLog!Init
<1>2. Typed /\ FileInv /\ DenseInv /\ [Next]_vars => [FileLog!Next]_file
  BY LogStep
<1> QED
  BY <1>1, <1>2, DenseInvAlways, PTL DEF Spec, FileImplementsLog, FileLog!Spec

=============================================================================
