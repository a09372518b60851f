------------------------ MODULE MessageServersProofs ------------------------
(***************************************************************************)
(* Proofs about MessageServers, for any number of shards, of clients and   *)
(* of ids.                                                                 *)
(***************************************************************************)
EXTENDS MessageServers, SequenceTheorems, TLAPS

-----------------------------------------------------------------------------
(* The ids: int, unsigned int, and the ways between them.                  *)

LEMMA IdCounts == IntMax \in Nat /\ IdCount \in Nat /\ IdCount = IntMax + IntMax + 2
  BY StoreAssumption DEF IdCount

LEMMA Remainder ==
  ASSUME NEW n \in Int, NEW k \in Nat, k > 0
  PROVE  n % k \in 0 .. (k - 1) /\ n = k * (n \div k) + (n % k) /\ n \div k \in Int
  OBVIOUS

(* The remainder of what is negative by less than one turn. *)
LEMMA RemainderBelow ==
  ASSUME NEW n \in Int, NEW k \in Nat, k > 0, n < 0, n >= -k
  PROVE  n % k = n + k
<1> DEFINE q == n \div k
           r == n % k
<1>1. q \in Int /\ r \in 0 .. (k - 1) /\ n = k * q + r
  BY Remainder
<1> HIDE DEF q, r
<1>2. q < 0
  <2> SUFFICES ASSUME q >= 0 PROVE FALSE
    BY <1>1
  <2>1. k * q >= 0
    BY <1>1
  <2> QED
    BY <1>1, <2>1
<1>3. q > -2
  <2> SUFFICES ASSUME q <= -2 PROVE FALSE
    BY <1>1
  <2>1. k * (q + 2) <= 0
    BY <1>1
  <2>2. k * q <= -(k + k)
    BY <1>1, <2>1
  <2> QED
    BY <1>1, <2>2
<1>4. q = -1
  BY <1>1, <1>2, <1>3
<1>5. n = r - k
  BY <1>1, <1>4
<1>6. r = n + k
  BY <1>1, <1>5
<1> QED
  BY <1>6 DEF r

LEMMA RemainderWithin ==
  ASSUME NEW k \in Nat, NEW n \in 0 .. (k - 1)
  PROVE  n % k = n
<1> DEFINE q == n \div k
           r == n % k
<1>k. k > 0
  OBVIOUS
<1>1. q \in Int /\ r \in 0 .. (k - 1) /\ n = k * q + r
  BY <1>k, Remainder
<1> HIDE DEF q, r
<1>2. q > -1
  <2> SUFFICES ASSUME q <= -1 PROVE FALSE
    BY <1>1
  <2>1. k * (q + 1) <= 0
    BY <1>1
  <2>2. k * q <= -k
    BY <1>1, <2>1
  <2> QED
    BY <1>1, <2>2
<1>3. q < 1
  <2> SUFFICES ASSUME q >= 1 PROVE FALSE
    BY <1>1
  <2>1. k * (q - 1) >= 0
    BY <1>1
  <2>2. k * q >= k
    BY <1>1, <2>1
  <2> QED
    BY <1>1, <2>2
<1>4. q = 0
  BY <1>1, <1>2, <1>3
<1> QED
  BY <1>1, <1>4 DEF r

LEMMA RemainderOfWhole ==
  ASSUME NEW k \in Nat, k > 0
  PROVE  k % k = 0
  OBVIOUS

(* An unsigned int, and the int that it becomes. *)
Unsigned == 0 .. (IdCount - 1)

LEMMA ToUnsignedType ==
  ASSUME NEW n \in Int
  PROVE  ToUnsigned(n) \in Unsigned
  BY IdCounts, Remainder DEF ToUnsigned, Unsigned

LEMMA ToIntType ==
  ASSUME NEW u \in Unsigned
  PROVE  ToInt(u) \in Ints
  BY IdCounts DEF ToInt, Ints, Unsigned

LEMMA ToIntOfUnsigned ==
  ASSUME NEW n \in Ints
  PROVE  ToInt(ToUnsigned(n)) = n
<1>1. CASE n < 0
  <2>1. ToUnsigned(n) = n + IdCount
    BY <1>1, IdCounts, RemainderBelow DEF Ints, ToUnsigned
  <2> QED
    BY <1>1, <2>1, IdCounts DEF Ints, ToInt
<1>2. CASE n >= 0
  <2>1. ToUnsigned(n) = n
    BY <1>2, IdCounts, RemainderWithin DEF Ints, ToUnsigned
  <2> QED
    BY <1>2, <2>1, IdCounts DEF Ints, ToInt
<1> QED
  BY <1>1, <1>2, IdCounts DEF Ints

(* The increment wraps around. *)
LEMMA NextInt ==
  ASSUME NEW u \in Unsigned
  PROVE  ToInt(ToUnsigned(u + 1)) =
           IF ToInt(u) = IntMax THEN -(IntMax + 1) ELSE ToInt(u) + 1
<1>1. CASE u = IdCount - 1
  <2>1. ToUnsigned(u + 1) = 0
    BY <1>1, IdCounts, RemainderOfWhole DEF ToUnsigned
  <2> QED
    BY <1>1, <2>1, IdCounts DEF ToInt
<1>2. CASE u # IdCount - 1
  <2>1. u + 1 \in 0 .. (IdCount - 1)
    BY <1>2, IdCounts DEF Unsigned
  <2>2. ToUnsigned(u + 1) = u + 1
    BY <2>1, IdCounts, RemainderWithin DEF ToUnsigned
  <2> QED
    BY <1>2, <2>2, IdCounts DEF ToInt, Unsigned
<1> QED
  BY <1>1, <1>2

-----------------------------------------------------------------------------
(* The map and the history.                                                *)

LEMMA RemainsOf ==
  ASSUME NEW map, NEW left \in Remains(map)
  PROVE  /\ DOMAIN left \subseteq DOMAIN map
         /\ \A k \in DOMAIN left : left[k] = map[k]
         /\ ~broken => DOMAIN left = DOMAIN map
<1>1. PICK D \in SUBSET DOMAIN map : left = Restrict(map, D) /\ (~broken => D = DOMAIN map)
  BY DEF Remains
<1> QED
  BY <1>1 DEF Restrict

Entry == [id : Ints, msg : Message, deleted : BOOLEAN]

LEMMA MarkEntry ==
  ASSUME NEW entry \in Entry, NEW mark \in BOOLEAN
  PROVE  /\ [entry EXCEPT !.deleted = mark] \in Entry
         /\ [entry EXCEPT !.deleted = mark].id = entry.id
         /\ [entry EXCEPT !.deleted = mark].msg = entry.msg
         /\ [entry EXCEPT !.deleted = mark].deleted = mark
  BY DEF Entry

LEMMA RecentType ==
  ASSUME NEW E, NEW history \in Seq(E)
  PROVE  /\ Recent(history) \in Seq(E)
         /\ ~broken /\ Len(history) <= IdCount => Recent(history) = history
         /\ ~broken /\ Len(history) = IdCount + 1 =>
              /\ Len(Recent(history)) = IdCount
              /\ \A i \in 1 .. IdCount : Recent(history)[i] = history[i + 1]
<1> DEFINE len == Len(history)
           from == IF len > IdCount THEN len - IdCount + 1 ELSE 1
           window == SubSeq(history, from, len)
<1>a. len \in Nat /\ IdCount \in Nat
  BY IdCounts
<1>b. from \in 1 .. (len + 1)
  BY <1>a
<1>c. \A i \in from .. len : history[i] \in E
  BY <1>a, <1>b
<1>1. /\ window \in Seq(E)
      /\ Len(window) = IF from <= len THEN len - from + 1 ELSE 0
      /\ \A i \in 1 .. len - from + 1 : window[i] = history[from + i - 1]
  <2>1. from \in Int /\ len \in Int
    BY <1>a, <1>b
  <2> HIDE DEF len, from
  <2> QED
    BY <1>c, <2>1, SubSeqProperties
<1>2. Recent(history) = IF broken THEN << >> ELSE window
  BY DEF Recent
<1>3. ASSUME ~broken, len <= IdCount PROVE Recent(history) = history
  <2>1. from = 1
    BY <1>a, <1>3
  <2>2. window = history
    BY <2>1, SubSeqFull
  <2> QED
    BY <1>2, <1>3, <2>2
<1>4. ASSUME ~broken, len = IdCount + 1
      PROVE  /\ Len(Recent(history)) = IdCount
             /\ \A i \in 1 .. IdCount : Recent(history)[i] = history[i + 1]
  <2>1. from = 2
    BY <1>a, <1>4
  <2>2. Recent(history) = window
    BY <1>2, <1>4
  <2> HIDE DEF window, from, len
  <2>3. Len(window) = IdCount
    BY <1>a, <1>1, <1>4, <2>1, IdCounts
  <2>4. \A i \in 1 .. IdCount : window[i] = history[i + 1]
    <3> SUFFICES ASSUME NEW i \in 1 .. IdCount PROVE window[i] = history[i + 1]
      OBVIOUS
    <3>1. i \in 1 .. len - from + 1 /\ from + i - 1 = i + 1
      BY <1>a, <1>4, <2>1
    <3> QED
      BY <1>1, <3>1
  <2> QED
    BY <2>2, <2>3, <2>4
<1> QED
  BY <1>1, <1>2, <1>3, <1>4, EmptySeq

-----------------------------------------------------------------------------
(* Type correctness. The number a method has read is an unsigned int until *)
(* it is the key of the map.                                               *)

Numbered == \A s \in Shards : at[s] \in {"bump", "put"} => id[s] \in Unsigned

StoreTyped == StoreTypeOK /\ Numbered

(* A method one step on: its place, and what of its locals it changes.     *)
Locals(s) ==
  /\ \E label \in {"idle", "load", "bump"} \cup InMap : at' = [at EXCEPT ![s] = label]
  /\ id' \in [Shards -> Int] /\ \A t \in Shards \ {s} : id'[t] = id[t]
  /\ at'[s] \in {"bump", "put"} => id'[s] \in Unsigned
  /\ msg' \in [Shards -> Message]
  /\ next_id' \in Ints
  /\ broken' \in BOOLEAN

LEMMA LocalsTyped ==
  ASSUME StoreTyped, NEW s \in Shards, Locals(s),
         DOMAIN messages' \subseteq Ints, \A i \in DOMAIN messages' : messages'[i] \in Message,
         stored' \in Seq(Entry)
  PROVE  StoreTyped'
<1>1. at' \in [Shards -> {"idle", "load", "bump"} \cup InMap]
  BY DEF Locals, StoreTyped, StoreTypeOK
<1>2. Numbered'
  BY DEF Locals, StoreTyped, StoreTypeOK, Numbered
<1> QED
  BY <1>1, <1>2 DEF Locals, StoreTyped, StoreTypeOK, Entry

LEMMA EnterMapType ==
  ASSUME StoreTypeOK, NEW s, NEW label, EnterMap(s, label)
  PROVE  broken' \in BOOLEAN
  BY DEF StoreTypeOK, EnterMap

LEMMA StoreTypedCalls ==
  ASSUME StoreTyped, NEW s \in Shards,
         \/ \E m \in Message : CallStore(s, m)
         \/ LoadNextId(s) \/ BumpNextId(s)
         \/ CallGet(s)
         \/ \E i \in Ints : CallErase(s, i)
  PROVE  StoreTyped'
<1>a. /\ next_id \in Ints /\ id \in [Shards -> Int] /\ msg \in [Shards -> Message]
      /\ at \in [Shards -> {"idle", "load", "bump"} \cup InMap] /\ broken \in BOOLEAN
      /\ DOMAIN messages \subseteq Ints /\ \A i \in DOMAIN messages : messages[i] \in Message
      /\ stored \in Seq(Entry)
  BY DEF StoreTyped, StoreTypeOK, Entry
<1>b. Ints \subseteq Int
  BY IdCounts DEF Ints
<1>c. {"put", "get", "erase"} = InMap
  BY DEF InMap
<1>1. CASE \E m \in Message : CallStore(s, m)
  <2>1. Locals(s) /\ UNCHANGED <<messages, stored>>
    BY <1>1, <1>a DEF CallStore, Call, Locals
  <2> QED
    BY <1>a, <2>1, LocalsTyped
<1>2. CASE LoadNextId(s)
  <2>1. ToUnsigned(next_id) \in Unsigned /\ ToUnsigned(next_id) \in Int
    BY <1>a, <1>b, ToUnsignedType, IdCounts DEF Unsigned
  <2>2. Locals(s) /\ UNCHANGED <<messages, stored>>
    BY <1>2, <1>a, <2>1 DEF LoadNextId, Locals
  <2> QED
    BY <1>a, <2>2, LocalsTyped
<1>3. CASE BumpNextId(s)
  <2>1. id[s] \in Unsigned
    BY <1>3 DEF BumpNextId, StoreTyped, Numbered
  <2>2. next_id' \in Ints
    <3>1. id[s] + 1 \in Int
      BY <1>a
    <3>2. ToInt(ToUnsigned(id[s] + 1)) \in Ints
      BY <3>1, ToUnsignedType, ToIntType
    <3> QED
      BY <1>3, <3>2 DEF BumpNextId
  <2>3. broken' \in BOOLEAN
    BY <1>3, EnterMapType DEF BumpNextId, StoreTyped
  <2>4. Locals(s) /\ UNCHANGED <<messages, stored>>
    BY <1>3, <1>a, <1>c, <2>1, <2>2, <2>3 DEF BumpNextId, Locals
  <2> QED
    BY <1>a, <2>4, LocalsTyped
<1>4. CASE CallGet(s)
  <2>1. broken' \in BOOLEAN
    BY <1>4, EnterMapType DEF CallGet, StoreTyped
  <2>2. Locals(s) /\ UNCHANGED <<messages, stored>>
    BY <1>4, <1>a, <1>c, <2>1 DEF CallGet, Call, Locals
  <2> QED
    BY <1>a, <2>2, LocalsTyped
<1>5. CASE \E i \in Ints : CallErase(s, i)
  <2>1. broken' \in BOOLEAN
    BY <1>5, EnterMapType DEF CallErase, StoreTyped
  <2>2. Locals(s) /\ UNCHANGED <<messages, stored>>
    BY <1>5, <1>a, <1>b, <1>c, <2>1 DEF CallErase, Call, Locals
  <2> QED
    BY <1>a, <2>2, LocalsTyped
<1> QED
  BY <1>1, <1>2, <1>3, <1>4, <1>5

LEMMA ReturnLocals ==
  ASSUME StoreTyped, NEW s \in Shards, Return(s)
  PROVE  Locals(s)
<1>1. << >> \in Message
  BY EmptySeq DEF Message
<1>2. /\ at' = [at EXCEPT ![s] = "idle"]
      /\ id' = [id EXCEPT ![s] = 0]
      /\ msg' = [msg EXCEPT ![s] = << >>]
      /\ next_id' = next_id /\ broken' = broken
  BY DEF Return
<1>3. at'[s] = "idle" /\ id' \in [Shards -> Int] /\ msg' \in [Shards -> Message]
  BY <1>1, <1>2 DEF StoreTyped, StoreTypeOK
<1>4. \A t \in Shards \ {s} : id'[t] = id[t]
  BY <1>2 DEF StoreTyped, StoreTypeOK
<1> QED
  BY <1>2, <1>3, <1>4 DEF Locals, StoreTyped, StoreTypeOK

LEMMA StoreTypedReturns ==
  ASSUME StoreTyped, NEW s \in Shards, Put(s) \/ Get(s) \/ Erase(s)
  PROVE  StoreTyped'
<1>a. /\ DOMAIN messages \subseteq Ints /\ \A i \in DOMAIN messages : messages[i] \in Message
      /\ stored \in Seq(Entry) /\ msg[s] \in Message
  BY DEF StoreTyped, StoreTypeOK, Entry
<1>b. Locals(s)
  BY ReturnLocals DEF Put, Get, Erase
<1>1. CASE Put(s)
  <2> DEFINE key == ToInt(id[s])
             map == [k \in DOMAIN messages \cup {key} |->
                       IF k = key THEN msg[s] ELSE messages[k]]
             entry == [id |-> key, msg |-> msg[s], deleted |-> FALSE]
  <2>1. key \in Ints
    BY <1>1, ToIntType DEF Put, StoreTyped, Numbered
  <2>2. messages' \in Remains(map) /\ stored' = Recent(Append(stored, entry))
    BY <1>1 DEF Put
  <2>3. entry \in Entry
    BY <1>a, <2>1 DEF Entry
  <2>4. DOMAIN map \subseteq Ints /\ \A k \in DOMAIN map : map[k] \in Message
    BY <1>a, <2>1
  <2> HIDE DEF map, entry, key
  <2>5. DOMAIN messages' \subseteq Ints /\ \A k \in DOMAIN messages' : messages'[k] \in Message
    BY <2>2, <2>4, RemainsOf
  <2>6. Append(stored, entry) \in Seq(Entry)
    BY <1>a, <2>3
  <2>7. stored' \in Seq(Entry)
    BY <2>2, <2>6, RecentType
  <2> QED
    BY <1>b, <2>5, <2>7, LocalsTyped
<1>2. CASE Get(s)
  BY <1>2, <1>a, <1>b, LocalsTyped DEF Get
<1>3. CASE Erase(s)
  <2> DEFINE map == Restrict(messages, DOMAIN messages \ {id[s]})
             marked == [i \in DOMAIN stored |->
                          [stored[i] EXCEPT !.deleted = @ \/ stored[i].id = id[s]]]
  <2>1. messages' \in Remains(map)
    BY <1>3 DEF Erase
  <2>2. DOMAIN map \subseteq Ints /\ \A k \in DOMAIN map : map[k] \in Message
    BY <1>a DEF Restrict
  <2>3. stored' = Recent(marked) \/ stored' = stored
    BY <1>3 DEF Erase
  <2>4. marked \in Seq(Entry)
    <3>1. ASSUME NEW i \in 1 .. Len(stored)
          PROVE  [stored[i] EXCEPT !.deleted = @ \/ stored[i].id = id[s]] \in Entry
      <4>1. stored[i] \in Entry
        BY <1>a
      <4>2. (stored[i].deleted \/ stored[i].id = id[s]) \in BOOLEAN
        OBVIOUS
      <4> QED
        BY <4>1, <4>2, MarkEntry
    <3>2. DOMAIN stored = 1 .. Len(stored) /\ Len(stored) \in Nat
      BY <1>a
    <3> QED
      BY <3>1, <3>2
  <2> HIDE DEF map, marked
  <2>5. DOMAIN messages' \subseteq Ints /\ \A k \in DOMAIN messages' : messages'[k] \in Message
    BY <2>1, <2>2, RemainsOf
  <2>6. stored' \in Seq(Entry)
    BY <1>a, <2>3, <2>4, RecentType
  <2> QED
    BY <1>b, <2>5, <2>6, LocalsTyped
<1> QED
  BY <1>1, <1>2, <1>3

-----------------------------------------------------------------------------
(* The TCP loop serves a client unless it accepts or has failed to, and    *)
(* while it stores, its shard is in the method.                            *)

Serving ==
  /\ loop \notin {"accept", "failed"} => conn \in Clients
  /\ loop = "store" => at[MainShard] \in {"load", "bump", "put"}

Typed == StoreTyped /\ TcpTypeOK /\ Serving

(* A step of a method that is not the loop's. *)
Request(s) ==
  \/ \E b \in Bytes : CallStore(s, <<b>>)
  \/ CallGet(s)
  \/ \E i \in Ints : CallErase(s, i)
  \/ LoadNextId(s) \/ BumpNextId(s)
  \/ Put(s) /\ ~(s = MainShard /\ loop = "store")
  \/ Get(s) \/ Erase(s)

LEMMA NextSteps ==
  Next => \/ Network /\ UNCHANGED storeVars
          \/ TcpTask
          \/ Stored
          \/ \E s \in Shards : Request(s) /\ UNCHANGED tcpVars
  BY DEF Next, PostMessage, GetMessage, DeleteMessage, Method, Request

(* The cut of what a client has sent. *)
LEMMA Chunk ==
  ASSUME NEW stream \in Seq(Bytes), NEW n \in 1 .. Len(stream)
  PROVE  /\ SubSeq(stream, 1, n) \in Message
         /\ SubSeq(stream, n + 1, Len(stream)) \in Seq(Bytes)
         /\ SubSeq(stream, 1, n) \o SubSeq(stream, n + 1, Len(stream)) = stream
<1>1. Len(stream) \in Nat /\ \A i \in 1 .. Len(stream) : stream[i] \in Bytes
  OBVIOUS
<1>2. SubSeq(stream, 1, n) \in Seq(Bytes) /\ SubSeq(stream, n + 1, Len(stream)) \in Seq(Bytes)
  BY <1>1, SubSeqProperties
<1>3. SubSeq(stream, 1, n) \o SubSeq(stream, n + 1, Len(stream)) = SubSeq(stream, 1, Len(stream))
  BY <1>1, ConcatAdjacentSubSeq
<1> QED
  BY <1>2, <1>3, SubSeqFull DEF Message

LEMMA TypedInit == Init => Typed
<1> SUFFICES ASSUME Init PROVE Typed
  OBVIOUS
<1>1. StoreTyped
  <2>1. DOMAIN messages = {} /\ stored = << >> /\ next_id = 0 /\ broken = FALSE
    BY DEF Init, StoreInit
  <2>2. << >> \in Message
    BY DEF Message
  <2>3. 0 \in Ints
    BY IdCounts DEF Ints
  <2>4. /\ at \in [Shards -> {"idle", "load", "bump"} \cup InMap]
        /\ id \in [Shards -> Int] /\ msg \in [Shards -> Message]
        /\ \A s \in Shards : at[s] = "idle"
    BY <2>2 DEF Init, StoreInit
  <2>5. stored \in Seq(Entry)
    BY <2>1
  <2>6. Numbered
    BY <2>4 DEF Numbered
  <2>7. DOMAIN messages \subseteq Ints /\ \A i \in DOMAIN messages : messages[i] \in Message
    BY <2>1
  <2> QED
    BY <2>1, <2>3, <2>4, <2>5, <2>6, <2>7 DEF StoreTyped, StoreTypeOK, Entry
<1>2. TcpTypeOK /\ Serving
  BY DEF Init, TcpInit, TcpTypeOK, Serving
<1> QED
  BY <1>1, <1>2 DEF Typed

(* Where the main shard is while the loop stores. *)
LEMMA RequestKeepsServing ==
  ASSUME Typed, NEW s \in Shards, Request(s), UNCHANGED tcpVars
  PROVE  Serving' /\ (loop = "store" => msg'[MainShard] = msg[MainShard])
<1>a. at \in [Shards -> {"idle", "load", "bump"} \cup InMap] /\ MainShard \in Shards
      /\ msg \in [Shards -> Message]
  BY TcpAssumption DEF Typed, StoreTyped, StoreTypeOK
<1>b. UNCHANGED <<loop, conn>>
  BY DEF tcpVars
<1>1. CASE s = MainShard /\ loop = "store"
  <2>1. at[s] \in {"load", "bump", "put"}
    BY <1>1 DEF Typed, Serving
  <2>2. LoadNextId(s) \/ BumpNextId(s)
    BY <1>1, <2>1 DEF Request, CallStore, CallGet, CallErase, Call, Get, Erase
  <2>3. at'[s] \in {"bump", "put"} /\ msg' = msg
    BY <1>a, <2>2 DEF LoadNextId, BumpNextId
  <2> QED
    BY <1>1, <1>b, <2>3 DEF Typed, Serving
<1>2. CASE ~(s = MainShard /\ loop = "store")
  <2>1. \A t \in Shards \ {s} : at'[t] = at[t] /\ msg'[t] = msg[t]
    BY <1>a DEF Request, CallStore, CallGet, CallErase, Call, LoadNextId, BumpNextId,
         Put, Get, Erase, Return
  <2> QED
    BY <1>a, <1>b, <1>2, <2>1 DEF Typed, Serving
<1> QED
  BY <1>1, <1>2

LEMMA TypedNext == Typed /\ [Next]_vars => Typed'
<1> SUFFICES ASSUME Typed, [Next]_vars PROVE Typed'
  OBVIOUS
<1>a. StoreTyped /\ TcpTypeOK /\ Serving /\ MainShard \in Shards
  BY TcpAssumption DEF Typed
<1>b. UNCHANGED storeVars => StoreTyped'
  BY <1>a DEF storeVars, StoreTyped, StoreTypeOK, Numbered
<1>1. CASE Network /\ UNCHANGED storeVars
  <2>1. TcpTypeOK'
    <3>1. PICK c \in Clients : Connect(c) \/ (\E b \in Bytes : Send(c, b)) \/ CloseEnd(c) \/ Reset(c)
      BY <1>1 DEF Network
    <3>2. /\ backlog' \in Seq(Clients)
          /\ peer' \in [Clients -> {"away", "open", "ended", "reset", "over"}]
      <4>1. backlog' = backlog \/ backlog' = Append(backlog, c)
        BY <3>1 DEF Connect, Send, CloseEnd, Reset
      <4>2. backlog' \in Seq(Clients)
        <5>1. backlog \in Seq(Clients)
          BY <1>a DEF TcpTypeOK
        <5>2. Append(backlog, c) \in Seq(Clients)
          BY <5>1, AppendProperties
        <5> QED
          BY <4>1, <5>1, <5>2
      <4>3. \/ peer' = peer
            \/ \E state \in {"open", "ended", "reset"} : peer' = [peer EXCEPT ![c] = state]
        BY <3>1 DEF Connect, Send, CloseEnd, Reset
      <4> QED
        BY <1>a, <4>2, <4>3 DEF TcpTypeOK
    <3>3. unread' \in [Clients -> Seq(Bytes)] /\ sent' \in [Clients -> Seq(Bytes)]
      <4>1. CASE UNCHANGED <<unread, sent>>
        BY <1>a, <4>1 DEF TcpTypeOK
      <4>2. ASSUME NEW b \in Bytes, Send(c, b)
            PROVE  unread' \in [Clients -> Seq(Bytes)] /\ sent' \in [Clients -> Seq(Bytes)]
        <5>1. Append(unread[c], b) \in Seq(Bytes) /\ Append(sent[c], b) \in Seq(Bytes)
          BY <1>a DEF TcpTypeOK
        <5> QED
          BY <1>a, <4>2, <5>1 DEF Send, TcpTypeOK
      <4> QED
        BY <3>1, <4>1, <4>2 DEF Connect, CloseEnd, Reset
    <3> QED
      BY <1>1, <1>a, <3>2, <3>3 DEF Network, TcpTypeOK
  <2>2. Serving'
    BY <1>1, <1>a DEF Network, Serving, storeVars
  <2> QED
    BY <1>1, <1>b, <2>1, <2>2 DEF Typed
<1>2. CASE Accept
  <2>0. Head(backlog) \in Clients /\ backlog' \in Seq(Clients)
    BY <1>2, <1>a, HeadTailProperties DEF Accept, TcpTypeOK
  <2>1. \/ loop' = "read" /\ conn' \in Clients
        \/ UNCHANGED <<conn, loop>>
    BY <1>2, <2>0 DEF Accept
  <2>2. TcpTypeOK' /\ Serving'
    BY <1>2, <1>a, <2>0, <2>1 DEF Accept, Task, TcpTypeOK, Serving
  <2> QED
    BY <1>2, <1>b, <2>2 DEF Typed, Accept
<1>3. CASE ReadChunk
  <2>a. conn \in Clients /\ unread[conn] \in Seq(Bytes)
    BY <1>3, <1>a DEF ReadChunk, Task, Serving, TcpTypeOK
  <2>1. PICK n \in 1 .. Len(unread[conn]) :
          /\ CallStore(MainShard, SubSeq(unread[conn], 1, n))
          /\ unread' = [unread EXCEPT ![conn] = SubSeq(@, n + 1, Len(@))]
    BY <1>3 DEF ReadChunk, MessageOf
  <2>2. StoreTyped'
    BY <1>a, <2>a, <2>1, Chunk, StoreTypedCalls
  <2>3. unread' \in [Clients -> Seq(Bytes)]
    BY <1>a, <2>a, <2>1, Chunk DEF TcpTypeOK
  <2>4. at'[MainShard] = "load"
    BY <1>a, <2>1 DEF CallStore, Call, StoreTyped, StoreTypeOK
  <2>5. TcpTypeOK' /\ Serving'
    BY <1>3, <1>a, <2>a, <2>3, <2>4 DEF ReadChunk, TcpTypeOK, Serving
  <2> QED
    BY <2>2, <2>5 DEF Typed
<1>4. CASE AcceptFails \/ Reply \/ ReadEnd \/ ConnectionFails
  <2>1. TcpTypeOK' /\ Serving' /\ UNCHANGED storeVars
    BY <1>4, <1>a DEF AcceptFails, Reply, ReadEnd, ConnectionFails, Task, TcpTypeOK, Serving, networkVars, storeVars
  <2> QED
    BY <1>b, <2>1 DEF Typed
<1>5. CASE Stored
  <2>a. conn \in Clients
    BY <1>5, <1>a DEF Stored, Serving
  <2>1. StoreTyped'
    BY <1>5, <1>a, StoreTypedReturns DEF Stored
  <2>2. kept[conn] \o msg[MainShard] \in Seq(Bytes)
    <3>1. kept[conn] \in Seq(Bytes) /\ msg[MainShard] \in Seq(Bytes)
      BY <1>a, <2>a DEF TcpTypeOK, StoreTyped, StoreTypeOK, Message
    <3> QED
      BY <3>1, ConcatProperties
  <2>3. TcpTypeOK' /\ Serving'
    BY <1>5, <1>a, <2>a, <2>2 DEF Stored, TcpTypeOK, Serving, networkVars
  <2> QED
    BY <2>1, <2>3 DEF Typed
<1>6. ASSUME NEW s \in Shards, Request(s), UNCHANGED tcpVars
      PROVE  Typed'
  <2>1. \A b \in Bytes : <<b>> \in Message
    BY DEF Message
  <2>2. StoreTyped'
    BY <1>6, <1>a, <2>1, StoreTypedCalls, StoreTypedReturns DEF Request
  <2>3. TcpTypeOK'
    BY <1>6, <1>a DEF tcpVars, networkVars, TcpTypeOK
  <2> QED
    BY <1>6, <2>2, <2>3, RequestKeepsServing DEF Typed
<1>7. CASE UNCHANGED vars
  BY <1>7, <1>a, <1>b DEF vars, storeVars, tcpVars, networkVars, TcpTypeOK, Serving, Typed
<1> QED
  BY <1>1, <1>2, <1>3, <1>4, <1>5, <1>6, <1>7, NextSteps DEF TcpTask

(* Every variable keeps its type for any number of shards, clients and     *)
(* ids, and through the wrap-around: a key of the map is always an int.    *)
(* The loop never reads, stores or replies for a client it does not have,  *)
(* and while it stores, its shard is in store_message for it.              *)
THEOREM TypeCorrect == Spec => [](TypeOK /\ Serving)
<1>1. Typed => TypeOK /\ Serving
  BY DEF Typed, TypeOK, StoreTyped
<1> QED
  BY TypedInit, TypedNext, <1>1, PTL DEF Spec

-----------------------------------------------------------------------------
(* The stream of a client. What the loop holds of it, it holds as the      *)
(* message it is about to store.                                           *)

InHand(c) == IF loop = "store" /\ conn = c THEN msg[MainShard] ELSE << >>

Streamed(c) == sent[c] = kept[c] \o InHand(c) \o unread[c]

LEMMA StreamParts ==
  ASSUME Typed, NEW c \in Clients
  PROVE  /\ sent[c] \in Seq(Bytes) /\ kept[c] \in Seq(Bytes) /\ unread[c] \in Seq(Bytes)
         /\ InHand(c) \in Seq(Bytes)
  BY TcpAssumption DEF Typed, TcpTypeOK, StoreTyped, StoreTypeOK, Message, InHand

LEMMA StreamSend ==
  ASSUME Typed, NEW c \in Clients, Streamed(c), NEW b \in Bytes
  PROVE  Append(sent[c], b) = kept[c] \o InHand(c) \o Append(unread[c], b)
<1> DEFINE k == kept[c] \o InHand(c)
           u == unread[c]
<1>1. k \in Seq(Bytes) /\ u \in Seq(Bytes) /\ sent[c] = k \o u /\ <<b>> \in Seq(Bytes)
      /\ sent[c] \in Seq(Bytes)
  BY StreamParts, ConcatProperties DEF Streamed
<1> HIDE DEF k, u
<1>2. Append(sent[c], b) = (k \o u) \o <<b>> /\ Append(u, b) = u \o <<b>>
  BY <1>1, AppendIsConcat
<1>3. (k \o u) \o <<b>> = k \o (u \o <<b>>)
  BY <1>1, ConcatAssociative
<1> QED
  BY <1>2, <1>3 DEF k, u

LEMMA StreamNext == Typed /\ StreamIsStored /\ [Next]_vars => StreamIsStored'
<1> SUFFICES ASSUME Typed, \A c \in Clients : Streamed(c), [Next]_vars,
                    NEW c \in Clients
             PROVE  Streamed(c)'
  BY DEF StreamIsStored, Streamed, InHand
<1>a. /\ sent \in [Clients -> Seq(Bytes)] /\ kept \in [Clients -> Seq(Bytes)]
      /\ unread \in [Clients -> Seq(Bytes)] /\ msg \in [Shards -> Message]
      /\ MainShard \in Shards
  BY TcpAssumption DEF Typed, TcpTypeOK, StoreTyped, StoreTypeOK
<1>p. /\ sent[c] \in Seq(Bytes) /\ kept[c] \in Seq(Bytes) /\ unread[c] \in Seq(Bytes)
      /\ InHand(c) \in Seq(Bytes)
  BY StreamParts
<1>s. Streamed(c)
  OBVIOUS
<1>same. sent'[c] = sent[c] /\ kept'[c] = kept[c] /\ unread'[c] = unread[c]
         /\ InHand(c)' = InHand(c) => Streamed(c)'
  BY <1>s DEF Streamed
<1>1. CASE Network /\ UNCHANGED storeVars
  <2>1. InHand(c)' = InHand(c) /\ kept' = kept
    BY <1>1 DEF Network, InHand, storeVars
  <2>2. CASE UNCHANGED <<unread, sent>>
    BY <1>same, <2>1, <2>2
  <2>3. ASSUME NEW d \in Clients, NEW b \in Bytes, Send(d, b)
        PROVE  Streamed(c)'
    <3>1. CASE d = c
      <4>1. sent'[c] = Append(sent[c], b) /\ unread'[c] = Append(unread[c], b)
        BY <1>a, <2>3, <3>1 DEF Send
      <4>2. sent'[c] = kept[c] \o InHand(c) \o unread'[c]
        BY <1>s, <4>1, StreamSend
      <4> QED
        BY <2>1, <4>2 DEF Streamed
    <3>2. CASE d # c
      <4>1. sent'[c] = sent[c] /\ unread'[c] = unread[c]
        BY <1>a, <2>3, <3>2 DEF Send
      <4> QED
        BY <1>same, <2>1, <4>1
    <3> QED
      BY <3>1, <3>2
  <2> QED
    BY <1>1, <2>2, <2>3 DEF Network, Connect, CloseEnd, Reset
<1>2. CASE Accept \/ AcceptFails \/ Reply \/ ReadEnd \/ ConnectionFails
  <2>1. UNCHANGED <<sent, kept, unread>>
    BY <1>2 DEF Accept, AcceptFails, Reply, ReadEnd, ConnectionFails, networkVars
  <2>2. InHand(c) = << >> /\ InHand(c)' = << >>
    BY <1>2 DEF Accept, AcceptFails, Reply, ReadEnd, ConnectionFails, Task, InHand
  <2> QED
    BY <1>same, <2>1, <2>2
<1>3. CASE ReadChunk
  <2>1. PICK n \in 1 .. Len(unread[conn]) :
          /\ CallStore(MainShard, SubSeq(unread[conn], 1, n))
          /\ unread' = [unread EXCEPT ![conn] = SubSeq(@, n + 1, Len(@))]
    BY <1>3 DEF ReadChunk, MessageOf
  <2>2. UNCHANGED <<sent, kept, conn>> /\ loop = "read" /\ loop' = "store"
    BY <1>3 DEF ReadChunk, Task
  <2>3. msg'[MainShard] = SubSeq(unread[conn], 1, n)
    BY <1>a, <2>1 DEF CallStore
  <2>4. InHand(c) = << >>
    BY <2>2 DEF InHand
  <2>5. CASE conn = c
    <3> DEFINE k == kept[c]
               u == unread[c]
               head == SubSeq(u, 1, n)
               rest == SubSeq(u, n + 1, Len(u))
    <3>1. InHand(c)' = head /\ unread'[c] = rest
      BY <1>a, <2>1, <2>2, <2>3, <2>5 DEF InHand
    <3>2. head \in Seq(Bytes) /\ rest \in Seq(Bytes) /\ head \o rest = u
      BY <1>p, <2>1, <2>5, Chunk DEF Message
    <3> HIDE DEF k, head, rest, u
    <3>3. (k \o head) \o rest = k \o (head \o rest)
      <4>1. k \in Seq(Bytes) /\ head \in Seq(Bytes) /\ rest \in Seq(Bytes)
        BY <1>p, <3>2 DEF k
      <4> QED
        BY <4>1, ConcatAssociative
    <3>4. k \o << >> = k
      BY <1>p, ConcatEmptySeq DEF k
    <3>5. sent[c] = k \o u
      BY <1>s, <2>4, <3>4 DEF Streamed, u, k
    <3>6. sent'[c] = kept'[c] \o InHand(c)' \o unread'[c]
      BY <2>2, <3>1, <3>2, <3>3, <3>5 DEF k
    <3> QED
      BY <3>6 DEF Streamed
  <2>6. CASE conn # c
    <3>1. InHand(c)' = << >> /\ unread'[c] = unread[c]
      BY <1>a, <2>1, <2>2, <2>6 DEF InHand
    <3> QED
      BY <1>same, <2>2, <2>4, <3>1
  <2> QED
    BY <2>5, <2>6
<1>4. CASE Stored
  <2>1. /\ loop = "store" /\ loop' = "reply"
        /\ kept' = [kept EXCEPT ![conn] = @ \o msg[MainShard]]
        /\ UNCHANGED <<sent, unread>>
    BY <1>4 DEF Stored, networkVars
  <2>2. InHand(c)' = << >>
    BY <2>1 DEF InHand
  <2>3. CASE conn = c
    <3>1. kept'[c] = kept[c] \o InHand(c)
      BY <1>a, <2>1, <2>3 DEF InHand
    <3>2. kept'[c] \o << >> = kept'[c]
      BY <1>p, <3>1, ConcatProperties, ConcatEmptySeq
    <3>3. sent'[c] = kept'[c] \o InHand(c)' \o unread'[c]
      BY <1>s, <2>1, <2>2, <3>1, <3>2 DEF Streamed
    <3> QED
      BY <3>3 DEF Streamed
  <2>4. CASE conn # c
    <3>1. InHand(c) = << >> /\ kept'[c] = kept[c]
      BY <1>a, <2>1, <2>4 DEF InHand
    <3> QED
      BY <1>same, <2>1, <2>2, <3>1
  <2> QED
    BY <2>3, <2>4
<1>5. ASSUME NEW s \in Shards, Request(s), UNCHANGED tcpVars
      PROVE  Streamed(c)'
  <2>1. loop = "store" => msg'[MainShard] = msg[MainShard]
    BY <1>5, RequestKeepsServing
  <2>2. InHand(c)' = InHand(c)
    BY <1>5, <2>1 DEF InHand, tcpVars
  <2> QED
    BY <1>5, <1>same, <2>2 DEF tcpVars, networkVars
<1>6. CASE UNCHANGED vars
  BY <1>6, <1>same DEF vars, storeVars, tcpVars, networkVars, InHand
<1> QED
  BY <1>1, <1>2, <1>3, <1>4, <1>5, <1>6, NextSteps DEF TcpTask

(* However the network cuts the stream of a client, and whatever the other *)
(* clients and the HTTP requests of all shards do meanwhile, even to a     *)
(* broken map: what was stored of the stream, what is being stored, and    *)
(* what is unread make up the stream, in this order.                       *)
THEOREM StreamIsStoredAlways == Spec => []StreamIsStored
<1>1. Init => StreamIsStored
  <2> SUFFICES ASSUME Init, NEW c \in Clients PROVE Streamed(c)
    BY DEF StreamIsStored, Streamed, InHand
  <2>1. sent[c] = << >> /\ kept[c] = << >> /\ unread[c] = << >> /\ InHand(c) = << >>
    BY DEF Init, TcpInit, InHand
  <2>2. << >> \o << >> \o << >> = << >>
    BY EmptySeq, ConcatEmptySeq
  <2> QED
    BY <2>1, <2>2 DEF Streamed
<1> QED
  BY <1>1, TypedInit, TypedNext, StreamNext, PTL DEF Spec

-----------------------------------------------------------------------------
(* One shard: nothing overlaps, so the map is never broken, and the ids go *)
(* round. Why no two messages at hand have one id: the history goes back   *)
(* no further than one turn of the ids, and within a turn all differ.      *)

OneShard == Shards = {MainShard}

(* The id of the next message to be put. *)
Upcoming == IF at[MainShard] = "put" THEN ToInt(id[MainShard]) ELSE next_id

(* The int that follows n. *)
After(n) == IF n = IntMax THEN -(IntMax + 1) ELSE n + 1

(* m follows n by d ids, within one turn. *)
Apart(m, n, d) == m - n = d \/ m - n = d - IdCount

(* Each id is bumped and put before the next one is taken.                 *)
Counting ==
  /\ ~broken
  /\ at[MainShard] = "bump" => id[MainShard] = ToUnsigned(next_id)
  /\ at[MainShard] = "put" => next_id = After(ToInt(id[MainShard]))

(* An entry of the history is as many ids behind the next one as there are *)
(* entries from it to the end.                                             *)
InTurn ==
  /\ Len(stored) <= IdCount
  /\ \A i \in 1 .. Len(stored) : Apart(Upcoming, stored[i].id, Len(stored) + 1 - i)
  /\ \A i, j \in 1 .. Len(stored) : i < j => Apart(stored[j].id, stored[i].id, j - i)

LEMMA ApartAfter ==
  ASSUME NEW m \in Ints, NEW n \in Ints, NEW d \in Int, d >= 1, d < IdCount, Apart(m, n, d)
  PROVE  Apart(After(m), n, d + 1) /\ m # n
  BY IdCounts DEF Ints, Apart, After

LEMMA ApartOne ==
  ASSUME NEW m \in Ints
  PROVE  Apart(After(m), m, 1)
  BY IdCounts DEF Ints, Apart, After

LEMMA ApartWholeTurn ==
  ASSUME NEW m \in Ints, NEW n \in Ints, Apart(m, n, IdCount)
  PROVE  m = n
  BY IdCounts DEF Ints, Apart

(* What the steps do to the map, the history and the next id.              *)
Keeps ==
  /\ DOMAIN messages' = DOMAIN messages
  /\ \A k \in DOMAIN messages : messages'[k] = messages[k]
  /\ stored' = stored
  /\ Upcoming' = Upcoming

PutEntry == [id |-> Upcoming, msg |-> msg[MainShard], deleted |-> FALSE]

Puts ==
  /\ DOMAIN messages' = DOMAIN messages \cup {Upcoming}
  /\ \A k \in DOMAIN messages' :
       messages'[k] = IF k = Upcoming THEN msg[MainShard] ELSE messages[k]
  /\ stored' = Recent(Append(stored, PutEntry))
  /\ Upcoming' = After(Upcoming)

Erases ==
  \E e :
    /\ DOMAIN messages' = DOMAIN messages \ {e}
    /\ \A k \in DOMAIN messages' : messages'[k] = messages[k]
    /\ Len(stored') = Len(stored)
    /\ \A i \in 1 .. Len(stored) :
         /\ stored'[i].id = stored[i].id
         /\ stored'[i].msg = stored[i].msg
         /\ stored'[i].deleted = (stored[i].deleted \/ stored[i].id = e)
    /\ Upcoming' = Upcoming

LEMMA NoOverlap ==
  ASSUME OneShard, NEW label, EnterMap(MainShard, label), ~broken
  PROVE  ~broken'
  BY DEF OneShard, EnterMap

LEMMA StoreEffects ==
  ASSUME OneShard, Typed, Counting, InTurn,
         \/ \E m \in Message : CallStore(MainShard, m)
         \/ CallGet(MainShard)
         \/ \E i \in Ints : CallErase(MainShard, i)
         \/ LoadNextId(MainShard) \/ BumpNextId(MainShard)
         \/ Put(MainShard) \/ Get(MainShard) \/ Erase(MainShard)
  PROVE  Counting' /\ (Keeps \/ Puts \/ Erases)
<1>a. /\ next_id \in Ints /\ id \in [Shards -> Int] /\ msg \in [Shards -> Message]
      /\ at \in [Shards -> {"idle", "load", "bump"} \cup InMap] /\ MainShard \in Shards
      /\ stored \in Seq(Entry) /\ ~broken
  BY TcpAssumption DEF Typed, StoreTyped, StoreTypeOK, Entry, Counting
<1>1. CASE (\E m \in Message : CallStore(MainShard, m)) \/ CallGet(MainShard)
           \/ \E i \in Ints : CallErase(MainShard, i)
  <2>1. /\ at[MainShard] = "idle" /\ at'[MainShard] \in {"load", "get", "erase"}
        /\ UNCHANGED <<messages, next_id, stored>>
    BY <1>1, <1>a DEF CallStore, CallGet, CallErase, Call
  <2>2. ~broken'
    BY <1>1, <1>a, NoOverlap DEF CallStore, CallGet, CallErase
  <2> QED
    BY <2>1, <2>2 DEF Counting, Keeps, Upcoming
<1>2. CASE LoadNextId(MainShard)
  <2>1. /\ at[MainShard] = "load" /\ at'[MainShard] = "bump"
        /\ id'[MainShard] = ToUnsigned(next_id)
        /\ UNCHANGED <<messages, next_id, stored, broken>>
    BY <1>2, <1>a DEF LoadNextId
  <2> QED
    BY <1>a, <2>1 DEF Counting, Keeps, Upcoming
<1>3. CASE BumpNextId(MainShard)
  <2>1. /\ at[MainShard] = "bump" /\ at'[MainShard] = "put"
        /\ id' = id
        /\ next_id' = ToInt(ToUnsigned(id[MainShard] + 1))
        /\ UNCHANGED <<messages, stored>>
    BY <1>3, <1>a DEF BumpNextId
  <2>2. id[MainShard] = ToUnsigned(next_id) /\ id[MainShard] \in Unsigned
    BY <1>a, <2>1 DEF Counting, Typed, StoreTyped, Numbered
  <2>3. ToInt(id[MainShard]) = next_id
    BY <1>a, <2>2, ToIntOfUnsigned
  <2>4. next_id' = After(ToInt(id[MainShard]))
    BY <2>1, <2>2, NextInt DEF After
  <2>5. ~broken'
    BY <1>3, <1>a, NoOverlap DEF BumpNextId
  <2>6. Upcoming' = Upcoming
    BY <2>1, <2>3 DEF Upcoming
  <2> QED
    BY <2>1, <2>4, <2>5, <2>6 DEF Counting, Keeps, After
<1>4. CASE Put(MainShard) \/ Get(MainShard) \/ Erase(MainShard)
  <2>1. at'[MainShard] = "idle" /\ UNCHANGED <<next_id, broken>>
    BY <1>4, <1>a DEF Put, Get, Erase, Return
  <2>2. Counting' /\ Upcoming' = next_id
    BY <1>a, <2>1 DEF Counting, Upcoming
  <2>3. CASE Get(MainShard)
    <3>1. at[MainShard] = "get" /\ UNCHANGED <<messages, stored>>
      BY <2>3 DEF Get
    <3> QED
      BY <2>2, <3>1 DEF Keeps, Upcoming
  <2>4. CASE Put(MainShard)
    <3> DEFINE map == [k \in DOMAIN messages \cup {Upcoming} |->
                         IF k = Upcoming THEN msg[MainShard] ELSE messages[k]]
    <3>1. at[MainShard] = "put" /\ Upcoming = ToInt(id[MainShard])
      BY <2>4 DEF Put, Upcoming
    <3>2. messages' \in Remains(map) /\ stored' = Recent(Append(stored, PutEntry))
      BY <2>4, <3>1 DEF Put, PutEntry
    <3>3. DOMAIN messages' = DOMAIN map /\ \A k \in DOMAIN messages' : messages'[k] = map[k]
      BY <1>a, <3>2, RemainsOf
    <3>4. Upcoming' = After(Upcoming)
      BY <2>2, <3>1 DEF Counting
    <3> QED
      BY <2>2, <3>2, <3>3, <3>4 DEF Puts
  <2>5. CASE Erase(MainShard)
    <3> DEFINE e == id[MainShard]
               map == Restrict(messages, DOMAIN messages \ {e})
               marked == [i \in DOMAIN stored |->
                            [stored[i] EXCEPT !.deleted = @ \/ stored[i].id = e]]
    <3>1. /\ messages' \in Remains(map) /\ at[MainShard] = "erase"
          /\ stored' = IF e \in DOMAIN messages THEN Recent(marked) ELSE stored
      BY <2>5 DEF Erase
    <3>2. /\ DOMAIN messages' = DOMAIN messages \ {e}
          /\ \A k \in DOMAIN messages' : messages'[k] = messages[k]
      <4>1. DOMAIN map = DOMAIN messages \ {e} /\ \A k \in DOMAIN map : map[k] = messages[k]
        BY DEF Restrict
      <4>2. messages' \in Remains(map)
        BY <3>1
      <4> HIDE DEF map
      <4> QED
        BY <1>a, <4>1, <4>2, RemainsOf
    <3>3. Upcoming' = Upcoming
      BY <2>2, <3>1 DEF Upcoming
    <3>4. CASE e \notin DOMAIN messages
      BY <2>2, <3>1, <3>2, <3>3, <3>4 DEF Keeps
    <3>5. CASE e \in DOMAIN messages
      <4>1. DOMAIN stored = 1 .. Len(stored) /\ Len(stored) \in Nat
        BY <1>a
      <4>2. ASSUME NEW i \in 1 .. Len(stored)
            PROVE  /\ marked[i] \in Entry
                   /\ marked[i].id = stored[i].id /\ marked[i].msg = stored[i].msg
                   /\ marked[i].deleted = (stored[i].deleted \/ stored[i].id = e)
        <5> DEFINE mark == stored[i].deleted \/ stored[i].id = e
        <5>1. stored[i] \in Entry
          BY <1>a
        <5>2. mark \in BOOLEAN
          OBVIOUS
        <5>3. marked[i] = [stored[i] EXCEPT !.deleted = mark]
          BY <4>1
        <5> HIDE DEF mark, marked
        <5>4. /\ marked[i] \in Entry
              /\ marked[i].id = stored[i].id /\ marked[i].msg = stored[i].msg
              /\ marked[i].deleted = mark
          BY <5>1, <5>2, <5>3, MarkEntry
        <5> QED
          BY <5>4 DEF mark
      <4>3. marked \in Seq(Entry) /\ Len(marked) = Len(stored)
        <5>1. DOMAIN marked = 1 .. Len(stored) /\ \A i \in 1 .. Len(stored) : marked[i] \in Entry
          BY <4>1, <4>2
        <5>2. marked = [i \in 1 .. Len(stored) |-> marked[i]]
          BY <4>1
        <5> HIDE DEF marked
        <5> QED
          BY <4>1, <5>1, <5>2
      <4> HIDE DEF marked
      <4>4. stored' = marked
        BY <1>a, <3>1, <3>5, <4>3, RecentType DEF InTurn
      <4> QED
        BY <2>2, <3>2, <3>3, <4>2, <4>3, <4>4 DEF Erases
    <3> QED
      BY <3>4, <3>5
  <2> QED
    BY <1>4, <2>3, <2>4, <2>5
<1> QED
  BY <1>1, <1>2, <1>3, <1>4

(* The history after a put is the history and the new entry, but for the   *)
(* oldest entry if there are as many as there are ids.                     *)
LEMMA PutHistory ==
  ASSUME Typed, Counting, InTurn, Puts
  PROVE  \E k \in {0, 1} :
           /\ k = 0 => Len(stored) < IdCount
           /\ k = 1 => Len(stored) = IdCount
           /\ Len(stored') = Len(stored) + 1 - k
           /\ \A i \in 1 .. Len(stored') :
                stored'[i] = IF i + k = Len(stored) + 1 THEN PutEntry ELSE stored[i + k]
<1> DEFINE len == Len(stored)
           longer == Append(stored, PutEntry)
<1>a. stored \in Seq(Entry) /\ len \in Nat /\ IdCount \in Nat /\ len <= IdCount /\ ~broken
  BY IdCounts DEF Typed, StoreTyped, StoreTypeOK, Entry, InTurn, Counting
<1>b. PutEntry \in Entry
  <2>1. Upcoming \in Ints
    BY TcpAssumption, ToIntType DEF Upcoming, Typed, StoreTyped, StoreTypeOK, Numbered
  <2>2. msg[MainShard] \in Message
    BY TcpAssumption DEF Typed, StoreTyped, StoreTypeOK
  <2> QED
    BY <2>1, <2>2 DEF PutEntry, Entry
<1>1. /\ longer \in Seq(Entry) /\ Len(longer) = len + 1
      /\ \A i \in 1 .. len : longer[i] = stored[i]
      /\ longer[len + 1] = PutEntry
  BY <1>a, <1>b, AppendProperties
<1>2. stored' = Recent(longer)
  BY DEF Puts
<1> HIDE DEF longer
<1>3. CASE len < IdCount
  <2>1. stored' = longer
    BY <1>a, <1>1, <1>2, <1>3, RecentType
  <2>2. \A i \in 1 .. Len(stored') :
          stored'[i] = IF i + 0 = len + 1 THEN PutEntry ELSE stored[i + 0]
    BY <1>a, <1>1, <2>1
  <2>3. Len(stored') = len + 1 - 0
    BY <1>a, <1>1, <2>1
  <2> QED
    BY <1>a, <1>3, <2>2, <2>3
<1>4. CASE len = IdCount
  <2>1. Len(longer) = IdCount + 1
    BY <1>1, <1>4
  <2>2. /\ Len(Recent(longer)) = IdCount
        /\ \A i \in 1 .. IdCount : Recent(longer)[i] = longer[i + 1]
    BY <1>a, <1>1, <2>1, RecentType
  <2>3. Len(stored') = len + 1 - 1
    BY <1>a, <1>2, <1>4, <2>2
  <2>4. ASSUME NEW i \in 1 .. Len(stored')
        PROVE  stored'[i] = IF i + 1 = len + 1 THEN PutEntry ELSE stored[i + 1]
    <3>1. i \in 1 .. IdCount /\ stored'[i] = longer[i + 1]
      BY <1>2, <2>2
    <3>2. CASE i = len
      BY <1>1, <3>1, <3>2
    <3>3. CASE i # len
      <4>1. i + 1 \in 1 .. len /\ i + 1 # len + 1
        BY <1>a, <1>4, <3>1, <3>3
      <4> QED
        BY <1>1, <3>1, <4>1
    <3> QED
      BY <3>2, <3>3
  <2> QED
    BY <1>a, <1>4, <2>3, <2>4
<1> QED
  BY <1>a, <1>3, <1>4

(* The ids of the history as numbers. *)
LEMMA StoredIds ==
  ASSUME Typed
  PROVE  /\ Upcoming \in Ints
         /\ Len(stored) \in Nat
         /\ \A i \in 1 .. Len(stored) : stored[i].id \in Ints /\ stored[i].deleted \in BOOLEAN
<1>1. Upcoming \in Ints
  BY TcpAssumption, ToIntType DEF Upcoming, Typed, StoreTyped, StoreTypeOK, Numbered
<1>2. stored \in Seq(Entry)
  BY DEF Typed, StoreTyped, StoreTypeOK, Entry
<1>3. ASSUME NEW i \in 1 .. Len(stored)
      PROVE  stored[i].id \in Ints /\ stored[i].deleted \in BOOLEAN
  <2>1. stored[i] \in Entry
    BY <1>2
  <2> QED
    BY <2>1 DEF Entry
<1> QED
  BY <1>1, <1>2, <1>3

LEMMA InTurnNext ==
  ASSUME Typed, Counting, InTurn, Keeps \/ Puts \/ Erases
  PROVE  InTurn'
<1>a. /\ Upcoming \in Ints /\ Len(stored) \in Nat /\ IdCount \in Nat
      /\ \A i \in 1 .. Len(stored) : stored[i].id \in Ints
  BY StoredIds, IdCounts
<1>1. CASE Keeps
  BY <1>1 DEF Keeps, InTurn
<1>2. CASE Erases
  <2>1. /\ Len(stored') = Len(stored) /\ Upcoming' = Upcoming
        /\ \A i \in 1 .. Len(stored) : stored'[i].id = stored[i].id
    BY <1>2 DEF Erases
  <2> QED
    BY <1>a, <2>1 DEF InTurn
<1>3. CASE Puts
  <2> DEFINE len == Len(stored)
  <2>1. PICK k \in {0, 1} :
          /\ k = 0 => len < IdCount
          /\ k = 1 => len = IdCount
          /\ Len(stored') = len + 1 - k
          /\ \A i \in 1 .. Len(stored') :
               stored'[i] = IF i + k = len + 1 THEN PutEntry ELSE stored[i + k]
    BY <1>3, PutHistory
  <2>2. Upcoming' = After(Upcoming) /\ PutEntry.id = Upcoming
    BY <1>3 DEF Puts, PutEntry
  <2>3. Len(stored') <= IdCount /\ Len(stored') \in Nat
    BY <1>a, <2>1 DEF InTurn
  <2>4. \A x \in 1 .. len : Apart(Upcoming, stored[x].id, len + 1 - x)
    BY DEF InTurn
  <2>5. \A x, y \in 1 .. len : x < y => Apart(stored[y].id, stored[x].id, y - x)
    BY DEF InTurn
  <2> HIDE DEF len
  <2>l. len \in Nat
    BY <1>a DEF len
  <2>6. ASSUME NEW i \in 1 .. Len(stored')
        PROVE  Apart(Upcoming', stored'[i].id, Len(stored') + 1 - i)
    <3>1. CASE i + k = len + 1
      <4>1. stored'[i].id = Upcoming /\ Len(stored') + 1 - i = 1
        BY <2>1, <2>2, <2>l, <3>1
      <4> QED
        BY <1>a, <2>2, <4>1, ApartOne
    <3>2. CASE i + k # len + 1
      <4> DEFINE x == i + k
                 d == len + 1 - x
      <4>1. /\ x \in 1 .. len /\ d \in Int /\ d >= 1 /\ d < IdCount
            /\ Len(stored') + 1 - i = d + 1
        BY <1>a, <2>1, <2>l, <3>2
      <4>2. stored'[i] = stored[x]
        BY <2>1, <3>2
      <4>3. Apart(Upcoming, stored[x].id, d) /\ stored[x].id \in Ints
        BY <1>a, <2>4, <4>1 DEF len
      <4> HIDE DEF x, d
      <4>4. Apart(After(Upcoming), stored[x].id, d + 1)
        BY <1>a, <4>1, <4>3, ApartAfter
      <4> QED
        BY <2>2, <4>1, <4>2, <4>4
    <3> QED
      BY <3>1, <3>2
  <2>7. ASSUME NEW i \in 1 .. Len(stored'), NEW j \in 1 .. Len(stored'), i < j
        PROVE  Apart(stored'[j].id, stored'[i].id, j - i)
    <3> DEFINE x == i + k
               y == j + k
    <3>1. /\ x \in 1 .. len /\ y \in 1 .. (len + 1) /\ x < y /\ y - x = j - i
          /\ x # len + 1
      BY <2>1, <2>l, <2>3, <2>7
    <3>2. stored'[i] = stored[x]
      BY <2>1, <3>1
    <3>3. stored'[j] = IF y = len + 1 THEN PutEntry ELSE stored[y]
      BY <2>1
    <3> HIDE DEF x, y
    <3>4. CASE y = len + 1
      <4>1. len + 1 - x = j - i
        <5>1. (len + 1) - x = j - i
          BY <3>1, <3>4
        <5> QED
          BY <5>1, <3>1, <2>l
      <4> QED
        BY <2>2, <2>4, <3>1, <3>2, <3>3, <3>4, <4>1
    <3>5. CASE y # len + 1
      <4>1. y \in 1 .. len
        BY <2>l, <3>1, <3>5
      <4> QED
        BY <2>5, <3>1, <3>2, <3>3, <3>5, <4>1
    <3> QED
      BY <3>4, <3>5
  <2> QED
    BY <2>3, <2>6, <2>7 DEF InTurn
<1> QED
  BY <1>1, <1>2, <1>3

(* No id is twice in the history. *)
LEMMA EntriesDiffer ==
  ASSUME Typed, InTurn,
         NEW i \in 1 .. Len(stored), NEW j \in 1 .. Len(stored), i < j
  PROVE  stored[j].id # stored[i].id
<1>1. /\ Len(stored) \in Nat /\ Len(stored) <= IdCount /\ IdCount \in Nat
      /\ stored[i].id \in Ints /\ stored[j].id \in Ints
  BY StoredIds, IdCounts DEF InTurn
<1>2. Apart(stored[j].id, stored[i].id, j - i)
  BY DEF InTurn
<1> DEFINE d == j - i
<1>3. d \in Int /\ d >= 1 /\ d < IdCount
  BY <1>1
<1> HIDE DEF d
<1> QED
  BY <1>1, <1>2, <1>3, ApartAfter DEF d

(* Every entry of the history that is not deleted is in the map ...        *)
Consumable ==
  \A i \in 1 .. Len(stored) :
    ~stored[i].deleted =>
      /\ stored[i].id \in DOMAIN messages
      /\ messages[stored[i].id] = stored[i].msg

(* ... and every message of the map is in the history, not deleted.        *)
Found ==
  \A k \in DOMAIN messages :
    \E i \in 1 .. Len(stored) :
      stored[i].id = k /\ stored[i].msg = messages[k] /\ ~stored[i].deleted

LEMMA HistoryDomain == Typed => DOMAIN stored = 1 .. Len(stored)
  BY DEF Typed, StoreTyped, StoreTypeOK

LEMMA EraseNext ==
  ASSUME Typed, Consumable, Found, Erases
  PROVE  Consumable' /\ Found'
<1>1. PICK e :
        /\ DOMAIN messages' = DOMAIN messages \ {e}
        /\ \A k \in DOMAIN messages' : messages'[k] = messages[k]
        /\ Len(stored') = Len(stored)
        /\ \A i \in 1 .. Len(stored) :
             /\ stored'[i].id = stored[i].id
             /\ stored'[i].msg = stored[i].msg
             /\ stored'[i].deleted = (stored[i].deleted \/ stored[i].id = e)
  BY DEF Erases
<1>2. ASSUME NEW i \in 1 .. Len(stored'), ~stored'[i].deleted
      PROVE  /\ stored'[i].id \in DOMAIN messages'
             /\ messages'[stored'[i].id] = stored'[i].msg
  <2>1. /\ i \in 1 .. Len(stored)
        /\ stored'[i].id = stored[i].id /\ stored'[i].msg = stored[i].msg
        /\ stored'[i].deleted = (stored[i].deleted \/ stored[i].id = e)
    BY <1>1
  <2>2. ~stored[i].deleted /\ stored[i].id # e
    BY <1>2, <2>1, Zenon
  <2>3. stored[i].id \in DOMAIN messages /\ messages[stored[i].id] = stored[i].msg
    BY <2>1, <2>2 DEF Consumable
  <2> QED
    BY <1>1, <2>1, <2>2, <2>3
<1>3. ASSUME NEW k \in DOMAIN messages'
      PROVE  \E i \in 1 .. Len(stored') :
               stored'[i].id = k /\ stored'[i].msg = messages'[k] /\ ~stored'[i].deleted
  <2>1. k \in DOMAIN messages /\ k # e /\ messages'[k] = messages[k]
    BY <1>1
  <2>2. PICK i \in 1 .. Len(stored) :
          stored[i].id = k /\ stored[i].msg = messages[k] /\ ~stored[i].deleted
    BY <2>1 DEF Found
  <2>3. /\ stored'[i].id = k /\ stored'[i].msg = messages'[k]
        /\ stored'[i].deleted = (stored[i].deleted \/ stored[i].id = e)
    BY <1>1, <2>1, <2>2
  <2>4. ~stored'[i].deleted
    BY <2>1, <2>2, <2>3, Zenon
  <2> QED
    BY <1>1, <2>3, <2>4
<1> QED
  BY <1>2, <1>3 DEF Consumable, Found

LEMMA PutNext ==
  ASSUME Typed, Counting, InTurn, Consumable, Found, Puts
  PROVE  Consumable' /\ Found'
<1> DEFINE len == Len(stored)
<1>a. /\ Upcoming \in Ints /\ len \in Nat /\ IdCount \in Nat
      /\ \A x \in 1 .. len : stored[x].id \in Ints
  BY StoredIds, IdCounts
<1>k. PICK k \in {0, 1} :
        /\ k = 0 => len < IdCount
        /\ k = 1 => len = IdCount
        /\ Len(stored') = len + 1 - k
        /\ \A i \in 1 .. Len(stored') :
             stored'[i] = IF i + k = len + 1 THEN PutEntry ELSE stored[i + k]
  BY PutHistory
<1>p. /\ DOMAIN messages' = DOMAIN messages \cup {Upcoming}
      /\ \A n \in DOMAIN messages' :
           messages'[n] = IF n = Upcoming THEN msg[MainShard] ELSE messages[n]
  BY DEF Puts
<1>e. PutEntry.id = Upcoming /\ PutEntry.msg = msg[MainShard] /\ PutEntry.deleted = FALSE
  BY DEF PutEntry
<1>t. \A x \in 1 .. len : Apart(Upcoming, stored[x].id, len + 1 - x)
  BY DEF InTurn
<1>c. \A x \in 1 .. len :
        ~stored[x].deleted => /\ stored[x].id \in DOMAIN messages
                              /\ messages[stored[x].id] = stored[x].msg
  BY DEF Consumable
<1>f. \A n \in DOMAIN messages :
        \E x \in 1 .. len : stored[x].id = n /\ stored[x].msg = messages[n] /\ ~stored[x].deleted
  BY DEF Found
<1> HIDE DEF len
<1>1. ASSUME NEW i \in 1 .. Len(stored'), ~stored'[i].deleted
      PROVE  /\ stored'[i].id \in DOMAIN messages'
             /\ messages'[stored'[i].id] = stored'[i].msg
  <2>1. CASE i + k = len + 1
    <3>1. stored'[i] = PutEntry
      BY <1>k, <2>1
    <3> QED
      BY <1>e, <1>p, <3>1
  <2>2. CASE i + k # len + 1
    <3> DEFINE x == i + k
               d == len + 1 - x
    <3>1. x \in 1 .. len /\ d \in Int /\ d >= 1 /\ d < IdCount
      BY <1>a, <1>k, <2>2
    <3>2. stored'[i] = stored[x]
      BY <1>k, <2>2
    <3>3. Apart(Upcoming, stored[x].id, d)
      BY <1>t, <3>1
    <3> HIDE DEF x, d
    <3>4. stored[x].id # Upcoming
      BY <1>a, <3>1, <3>3, ApartAfter
    <3>5. ~stored[x].deleted
      BY <1>1, <3>2
    <3>6. stored[x].id \in DOMAIN messages /\ messages[stored[x].id] = stored[x].msg
      BY <1>c, <3>1, <3>5
    <3> QED
      BY <1>p, <3>2, <3>4, <3>6
  <2> QED
    BY <2>1, <2>2
<1>2. ASSUME NEW n \in DOMAIN messages'
      PROVE  \E i \in 1 .. Len(stored') :
               stored'[i].id = n /\ stored'[i].msg = messages'[n] /\ ~stored'[i].deleted
  <2>1. CASE n = Upcoming
    <3> DEFINE i == len + 1 - k
    <3>1. i \in 1 .. Len(stored') /\ i + k = len + 1
      BY <1>a, <1>k, IdCounts
    <3>2. stored'[i] = PutEntry
      BY <1>k, <3>1
    <3> HIDE DEF i
    <3> QED
      BY <1>e, <1>p, <2>1, <3>1, <3>2
  <2>2. CASE n # Upcoming
    <3>1. n \in DOMAIN messages /\ messages'[n] = messages[n]
      BY <1>p, <2>2
    <3>2. PICK x \in 1 .. len :
            stored[x].id = n /\ stored[x].msg = messages[n] /\ ~stored[x].deleted
      BY <1>f, <3>1
    <3> DEFINE i == x - k
    <3>3. x = 1 => k = 0
      <4> SUFFICES ASSUME x = 1, k = 1 PROVE FALSE
        OBVIOUS
      <4>1. len + 1 - x = IdCount
        BY <1>a, <1>k
      <4>2. Apart(Upcoming, stored[x].id, IdCount)
        BY <1>t, <4>1
      <4> QED
        BY <1>a, <2>2, <3>2, <4>2, ApartWholeTurn
    <3>4. i \in 1 .. Len(stored') /\ i + k = x /\ x # len + 1
      BY <1>a, <1>k, <3>3
    <3>5. stored'[i] = stored[x]
      BY <1>k, <3>4
    <3> HIDE DEF i
    <3> QED
      BY <3>1, <3>2, <3>4, <3>5
  <2> QED
    BY <2>1, <2>2
<1> QED
  BY <1>1, <1>2 DEF Consumable, Found

-----------------------------------------------------------------------------

OneShardInv == Typed /\ Counting /\ InTurn /\ Consumable /\ Found

LEMMA OneShardInit == Init => OneShardInv
<1> SUFFICES ASSUME Init PROVE OneShardInv
  OBVIOUS
<1>1. /\ DOMAIN messages = {} /\ stored = << >> /\ ~broken /\ at[MainShard] = "idle"
  BY TcpAssumption DEF Init, StoreInit
<1>2. Len(stored) = 0 /\ 0 <= IdCount
  BY <1>1, IdCounts
<1>3. Counting /\ InTurn /\ Consumable /\ Found
  BY <1>1, <1>2 DEF Counting, InTurn, Consumable, Found
<1> QED
  BY <1>3, TypedInit DEF OneShardInv

LEMMA OneShardNext ==
  ASSUME OneShard, OneShardInv, [Next]_vars
  PROVE  OneShardInv'
<1>a. Typed /\ Counting /\ InTurn /\ Consumable /\ Found /\ Typed'
  BY TypedNext DEF OneShardInv
<1>1. ASSUME Counting', Keeps \/ Puts \/ Erases
      PROVE  OneShardInv'
  <2>1. InTurn'
    BY <1>1, <1>a, InTurnNext
  <2>2. Consumable' /\ Found'
    <3>1. CASE Keeps
      BY <1>a, <3>1 DEF Keeps, Consumable, Found
    <3>2. CASE Puts \/ Erases
      BY <1>a, <3>2, PutNext, EraseNext
    <3> QED
      BY <1>1, <3>1, <3>2
  <2> QED
    BY <1>1, <1>a, <2>1, <2>2 DEF OneShardInv
<1>2. ASSUME UNCHANGED storeVars PROVE OneShardInv'
  <2>1. Counting' /\ Keeps
    BY <1>2, <1>a DEF storeVars, Counting, Keeps, Upcoming
  <2> QED
    BY <1>1, <2>1
<1>3. CASE TcpTask
  <2>1. CASE ReadChunk
    <3>1. conn \in Clients /\ unread[conn] \in Seq(Bytes)
      BY <1>a, <2>1 DEF ReadChunk, Task, Typed, Serving, TcpTypeOK
    <3>2. PICK n \in 1 .. Len(unread[conn]) : CallStore(MainShard, SubSeq(unread[conn], 1, n))
      BY <2>1 DEF ReadChunk, MessageOf
    <3>3. SubSeq(unread[conn], 1, n) \in Message
      BY <3>1, Chunk
    <3> QED
      BY <1>1, <1>a, <3>2, <3>3, StoreEffects
  <2>2. CASE Accept \/ AcceptFails \/ Reply \/ ReadEnd \/ ConnectionFails
    BY <1>2, <2>2 DEF Accept, AcceptFails, Reply, ReadEnd, ConnectionFails
  <2> QED
    BY <1>3, <2>1, <2>2 DEF TcpTask
<1>4. CASE Stored
  BY <1>1, <1>4, <1>a, StoreEffects DEF Stored
<1>5. ASSUME NEW s \in Shards, Request(s) PROVE OneShardInv'
  <2>1. s = MainShard /\ \A b \in Bytes : <<b>> \in Message
    BY DEF OneShard, Message
  <2> QED
    BY <1>1, <1>5, <1>a, <2>1, StoreEffects DEF Request
<1>6. CASE UNCHANGED vars
  BY <1>2, <1>6 DEF vars
<1> QED
  BY <1>2, <1>3, <1>4, <1>5, <1>6, NextSteps

LEMMA OneShardInvariance ==
  ASSUME OneShard
  PROVE  Spec => []OneShardInv
<1>1. OneShardInv /\ [Next]_vars => OneShardInv'
  BY OneShardNext
<1> QED
  BY <1>1, OneShardInit, PTL DEF Spec

(* On one shard a message whose id was given to a client is found under it *)
(* until it is deleted or a whole turn of ids has been given since, for    *)
(* any number of ids, TCP clients and HTTP requests, across the            *)
(* wrap-around of the counter to negative ids and back.                    *)
THEOREM StoredIsConsumableOnOneShard ==
  ASSUME Shards = {MainShard}
  PROVE  Spec => []StoredIsConsumable
<1>o. OneShard
  BY DEF OneShard
<1>1. OneShardInv => StoredIsConsumable
  BY HistoryDomain DEF OneShardInv, Consumable, StoredIsConsumable
<1> QED
  BY <1>o, <1>1, OneShardInvariance, PTL

(* On one shard whatever is found under an id is the latest message stored *)
(* under it, and was not deleted: the ids of one turn differ, so no other  *)
(* entry of the history has it.                                            *)
THEOREM FoundIsLatestOnOneShard ==
  ASSUME Shards = {MainShard}
  PROVE  Spec => []FoundIsLatest
<1>o. OneShard
  BY DEF OneShard
<1>1. OneShardInv => FoundIsLatest
  <2> SUFFICES ASSUME OneShardInv, NEW k \in DOMAIN messages
               PROVE  \E i \in DOMAIN stored :
                        /\ stored[i].id = k /\ stored[i].msg = messages[k]
                        /\ ~stored[i].deleted
                        /\ \A j \in DOMAIN stored : j > i => stored[j].id # k
    BY DEF FoundIsLatest
  <2>1. DOMAIN stored = 1 .. Len(stored)
    BY HistoryDomain DEF OneShardInv
  <2>2. PICK i \in 1 .. Len(stored) :
          stored[i].id = k /\ stored[i].msg = messages[k] /\ ~stored[i].deleted
    BY DEF OneShardInv, Found
  <2>3. ASSUME NEW j \in 1 .. Len(stored), j > i
        PROVE  stored[j].id # k
    BY <2>2, <2>3, EntriesDiffer DEF OneShardInv
  <2> QED
    BY <2>1, <2>2, <2>3
<1> QED
  BY <1>o, <1>1, OneShardInvariance, PTL

=============================================================================
