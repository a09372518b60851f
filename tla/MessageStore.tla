---------------------------- MODULE MessageStore ----------------------------
(***************************************************************************)
(* message_store: the messages that POST /message and the TCP server       *)
(* store, by id.                                                           *)
(*                                                                         *)
(* The one store of the process is used by every shard, and nothing in it  *)
(* is locked. next_id++ is a load and a store between which another shard  *)
(* may do the same. Two accesses to the map that overlap, one of them a    *)
(* write, are undefined behaviour: from then on an access may drop         *)
(* messages, or never end, the process with it (see Fairness in            *)
(* MessageServers). On one shard a method runs to its end before anything  *)
(* else.                                                                   *)
(***************************************************************************)
EXTENDS Integers, Sequences, FiniteSets, Functions

CONSTANTS
  Shards,   \* the reactor threads
  Bytes,    \* what messages are made of
  IntMax    \* the largest int

ASSUME StoreAssumption == IntMax \in Nat

VARIABLES
  messages,    \* messages, a function on the ids in use
  next_id,
  at,          \* what the method a shard executes does next; "idle" if none
  id,          \* its local or argument id
  msg,         \* its argument msg
  broken,      \* two map accesses have overlapped
  stored       \* history: what store_message returned for what, and whether
               \* a delete of that id has succeeded since; see Recent

storeVars == <<messages, next_id, at, id, msg, broken, stored>>

Message == Seq(Bytes)

(* int, and the conversions between int and unsigned int.                  *)
Ints == -(IntMax + 1) .. IntMax
IdCount == 2 * (IntMax + 1)
ToUnsigned(n) == n % IdCount

(* Mutant: an unsigned int all the way. *)
ToInt_kept_unsigned(u) == u

ToInt(u) == IF u > IntMax THEN u - IdCount ELSE u

StoreInit ==
  /\ messages = << >>
  /\ next_id = 0
  /\ at = [s \in Shards |-> "idle"]
  /\ id = [s \in Shards |-> 0]
  /\ msg = [s \in Shards |-> << >>]
  /\ broken = FALSE
  /\ stored = << >>

-----------------------------------------------------------------------------
(* Entering and leaving a method.                                          *)

Call(s, label) ==
  /\ at[s] = "idle"
  /\ at' = [at EXCEPT ![s] = label]

InMap == {"put", "get", "erase"}

(* A put and an erase count as writes, whether the id is there or not.     *)
EnterMap(s, label) ==
  broken' = \/ broken
            \/ \E t \in Shards \ {s} : at[t] \in InMap /\ {at[t], label} # {"get"}

(* What an access leaves of the map it should have left.                   *)
Remains(map) ==
  {Restrict(map, D) : D \in IF broken THEN SUBSET DOMAIN map ELSE {DOMAIN map}}

(* History goes back as far as there are ids to tell its entries apart by, *)
(* and ends where the map is broken.                                       *)
Recent(history) ==
  IF broken THEN << >>
  ELSE SubSeq(history, IF Len(history) > IdCount THEN Len(history) - IdCount + 1 ELSE 1,
              Len(history))

Return(s) ==
  /\ at' = [at EXCEPT ![s] = "idle"]
  /\ id' = [id EXCEPT ![s] = 0]
  /\ msg' = [msg EXCEPT ![s] = << >>]
  /\ UNCHANGED <<next_id, broken>>

-----------------------------------------------------------------------------
(* store_message.                                                          *)

CallStore(s, m) ==
  /\ Call(s, "load")
  /\ msg' = [msg EXCEPT ![s] = m]
  /\ UNCHANGED <<messages, next_id, id, broken, stored>>

(* Mutant: the number of messages for the next id. *)
LoadNextId_size(s) ==
  /\ at[s] = "load"
  /\ at' = [at EXCEPT ![s] = "bump"]
  /\ id' = [id EXCEPT ![s] = Cardinality(DOMAIN messages)]
  /\ UNCHANGED <<messages, next_id, msg, broken, stored>>

(* next_id++ is converted to unsigned int, and back where it is the key of *)
(* the map and where it is returned.                                       *)
LoadNextId(s) ==
  /\ at[s] = "load"
  /\ at' = [at EXCEPT ![s] = "bump"]
  /\ id' = [id EXCEPT ![s] = ToUnsigned(next_id)]
  /\ UNCHANGED <<messages, next_id, msg, broken, stored>>

(* The increment of the largest int is undefined; builds wrap around.      *)
BumpNextId(s) ==
  /\ at[s] = "bump"
  /\ next_id' = ToInt(ToUnsigned(id[s] + 1))
  /\ at' = [at EXCEPT ![s] = "put"]
  /\ EnterMap(s, "put")
  /\ UNCHANGED <<messages, id, msg, stored>>

(* Mutant: an id already in the map keeps its message, as with emplace.    *)
Put_emplaces(s) ==
  /\ at[s] = "put"
  /\ LET key == ToInt(id[s])
         map == [k \in DOMAIN messages \cup {key} |->
                   IF k \in DOMAIN messages THEN messages[k] ELSE msg[s]]
     IN  /\ messages' \in Remains(map)
         /\ stored' = Recent(Append(stored, [id |-> key, msg |-> msg[s], deleted |-> FALSE]))
  /\ Return(s)

Put(s) ==
  /\ at[s] = "put"
  /\ LET key == ToInt(id[s])
         map == [k \in DOMAIN messages \cup {key} |->
                   IF k = key THEN msg[s] ELSE messages[k]]
     IN  /\ messages' \in Remains(map)
         /\ stored' = Recent(Append(stored, [id |-> key, msg |-> msg[s], deleted |-> FALSE]))
  /\ Return(s)

-----------------------------------------------------------------------------
(* get_message answers with what messages holds, if anything: nothing of   *)
(* it is kept.                                                             *)

CallGet(s) ==
  /\ Call(s, "get")
  /\ EnterMap(s, "get")
  /\ UNCHANGED <<messages, next_id, id, msg, stored>>

Get(s) ==
  /\ at[s] = "get"
  /\ Return(s)
  /\ UNCHANGED <<messages, stored>>

(* delete_message.                                                         *)

CallErase(s, i) ==
  /\ Call(s, "erase")
  /\ EnterMap(s, "erase")
  /\ id' = [id EXCEPT ![s] = i]
  /\ UNCHANGED <<messages, next_id, msg, stored>>

Erase(s) ==
  /\ at[s] = "erase"
  /\ messages' \in Remains(Restrict(messages, DOMAIN messages \ {id[s]}))
  /\ stored' = IF id[s] \in DOMAIN messages
               THEN Recent([i \in DOMAIN stored |->
                              [stored[i] EXCEPT !.deleted = @ \/ stored[i].id = id[s]]])
               ELSE stored
  /\ Return(s)

-----------------------------------------------------------------------------

StoreTypeOK ==
  /\ DOMAIN messages \subseteq Ints
  /\ \A i \in DOMAIN messages : messages[i] \in Message
  /\ next_id \in Ints
  /\ at \in [Shards -> {"idle", "load", "bump"} \cup InMap]
  /\ id \in [Shards -> Int]
  /\ msg \in [Shards -> Message]
  /\ broken \in BOOLEAN
  /\ stored \in Seq([id : Ints, msg : Message, deleted : BOOLEAN])

=============================================================================
