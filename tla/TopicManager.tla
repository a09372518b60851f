---------------------------- MODULE TopicManager ----------------------------
(***************************************************************************)
(* TopicManager: creating topics and handing out the next offset of one.   *)
(*                                                                         *)
(* Every operation is a sequence of calls on the offset registry with the  *)
(* registry unlocked in between. A shard is one reactor thread; pc[s] says *)
(* which registry call the operation it executes makes next, and topic,    *)
(* row, index, offset and exists are that operation's locals.              *)
(*                                                                         *)
(* ManagerSpec drives the three public operations from any shard on any    *)
(* topic, as a caller of the class may; UserTopic composes the same steps  *)
(* into the program's actual callers.                                      *)
(***************************************************************************)
EXTENDS OffsetRegistry

CONSTANTS
  Shards,      \* the reactor threads
  Changes,     \* of ManagerSpec: the settings that are set, and to what
  MaxRows,     \* bound of ManagerSpec: no call that may create a topic starts beyond it
  MaxOffset    \* bound of ManagerSpec: no offset is asked for beyond it

ASSUME ManagerAssumption ==
  /\ \A change \in Changes : change[1] \in Fields /\ change[2] \in ValuesOf(change[1])
  /\ MaxRows \in Nat
  /\ MaxOffset \in Nat

VARIABLES
  pc,       \* the next step of the shard's operation
  topic,    \* topicName
  row,      \* a row of the operation's own: topicPrivateOffsetDefinitionValue,
            \* the copy it increments, or struct_end, which it has yet to insert
  index,    \* the index searchForIndex returned
  offset,   \* the offset getNewestOffsetWithRoundRobin returns
  exists    \* what checkTopicExists returns

(* Mutant: the node id looked up whenever it is needed. *)
nodeId_when_used == config["nodeId"]

(* Copied before main is entered, and so before any configuration is       *)
(* loaded; nothing assigns it again.                                       *)
nodeId == NoNode

(* Mutant: the default of another parameter. *)
DefaultPartitionCount_isr == config["defaultISRCount"]

(* The default argument of createTopic, evaluated at each call.            *)
DefaultPartitionCount == config["defaultPartitionCount"]

NewRow(t, type, count) ==
  [offset |-> 0, topic |-> t, nodeId |-> nodeId,
   partition |-> Uint8(count), type |-> type]

(* A local before anything was copied into it. *)
NoRow == [offset |-> 0, topic |-> NoTopic, nodeId |-> NoNode, partition |-> 0, type |-> "end"]

locals == <<topic, row, index, offset, exists>>
managerVars == <<configVars, registry, pc, topic, row, index, offset, exists>>

PCs == {"idle", "exists", "createStart", "createEnd",
        "search", "index", "update", "returned"}

GoTo(s, label) == pc' = [pc EXCEPT ![s] = label]

-----------------------------------------------------------------------------
(* A call enters at its first step with the topic as its argument.         *)

Call(s, label, t) ==
  /\ pc[s] = "idle"
  /\ GoTo(s, label)
  /\ topic' = [topic EXCEPT ![s] = t]
  /\ UNCHANGED <<registry, row, index, offset, exists>>

(* checkTopicExists: one search by name. *)
CheckTopicExists(s) ==
  /\ pc[s] = "exists"
  /\ exists' = [exists EXCEPT ![s] = SearchByName(topic[s]) # {}]
  /\ GoTo(s, "returned")
  /\ UNCHANGED <<registry, topic, row, index, offset>>

(* createTopic: two inserts, with no test that the topic is already there. *)
(* Both rows are made before the first of them is inserted.                *)
CreateStart(s) ==
  /\ pc[s] = "createStart"
  /\ Insert(NewRow(topic[s], "start", DefaultPartitionCount))
  /\ row' = [row EXCEPT ![s] = NewRow(topic[s], "end", DefaultPartitionCount)]
  /\ GoTo(s, "createEnd")
  /\ UNCHANGED <<topic, index, offset, exists>>

(* Mutant: the topic name used after it was moved into the first row. *)
CreateEnd_moved_name(s) ==
  /\ pc[s] = "createEnd"
  /\ Insert([row[s] EXCEPT !.topic = NoTopic])
  /\ GoTo(s, "returned")
  /\ UNCHANGED locals

(* Mutant: the second row made only now. *)
CreateEnd_asks_again(s) ==
  /\ pc[s] = "createEnd"
  /\ Insert(NewRow(topic[s], "end", DefaultPartitionCount))
  /\ GoTo(s, "returned")
  /\ UNCHANGED locals

CreateEnd(s) ==
  /\ pc[s] = "createEnd"
  /\ Insert(row[s])
  /\ GoTo(s, "returned")
  /\ UNCHANGED locals

(* Mutant: the copy is not incremented. *)
SearchEnd_no_increment(s) ==
  /\ pc[s] = "search"
  /\ LET found == SearchByCriteriaVector(topic[s], nodeId, "end")
     IN  \/ /\ found = {}
            /\ offset' = [offset EXCEPT ![s] = 0]
            /\ GoTo(s, "createStart")
            /\ UNCHANGED row
         \/ /\ found # {}
            /\ row' = [row EXCEPT ![s] = registry[Max(found)]]
            /\ GoTo(s, "index")
            /\ UNCHANGED offset
  /\ UNCHANGED <<registry, topic, index, exists>>

(* getNewestOffsetWithRoundRobin, up to the first unlock: with no end row  *)
(* the topic is created and 0 returned; otherwise the last end row is      *)
(* copied and its offset incremented in the copy.                          *)
SearchEnd(s) ==
  /\ pc[s] = "search"
  /\ LET found == SearchByCriteriaVector(topic[s], nodeId, "end")
     IN  \/ /\ found = {}
            /\ offset' = [offset EXCEPT ![s] = 0]
            /\ GoTo(s, "createStart")
            /\ UNCHANGED row
         \/ /\ found # {}
            /\ row' = [row EXCEPT ![s] =
                         [registry[Max(found)] EXCEPT !.offset = @ + 1]]
            /\ GoTo(s, "index")
            /\ UNCHANGED offset
  /\ UNCHANGED <<registry, topic, index, exists>>

(* ... then the index to write it back to, in a second locked call ...     *)
FindIndex(s) ==
  /\ pc[s] = "index"
  /\ index' = [index EXCEPT ![s] = SearchForIndex(row[s])]
  /\ GoTo(s, "update")
  /\ UNCHANGED <<registry, topic, row, offset, exists>>

(* Mutant: the offset is incremented once more when it is returned. *)
UpdateEnd_increments_twice(s) ==
  /\ pc[s] = "update"
  /\ Update(index[s], row[s])
  /\ offset' = [offset EXCEPT ![s] = row[s].offset + 1]
  /\ GoTo(s, "returned")
  /\ UNCHANGED <<topic, row, index, exists>>

(* Mutant: wait until the row is again what it was when it was copied,     *)
(* without copying it again.                                               *)
UpdateEnd_waits_for_copy(s) ==
  /\ pc[s] = "update"
  /\ registry[index[s]].offset + 1 = row[s].offset
  /\ Update(index[s], row[s])
  /\ offset' = [offset EXCEPT ![s] = row[s].offset]
  /\ GoTo(s, "returned")
  /\ UNCHANGED <<topic, row, index, exists>>

(* ... and the write, in a third.                                          *)
UpdateEnd(s) ==
  /\ pc[s] = "update"
  /\ Update(index[s], row[s])
  /\ offset' = [offset EXCEPT ![s] = row[s].offset]
  /\ GoTo(s, "returned")
  /\ UNCHANGED <<topic, row, index, exists>>

(* The locals go out of scope. *)
Return(s) ==
  /\ pc[s] = "returned"
  /\ GoTo(s, "idle")
  /\ topic' = [topic EXCEPT ![s] = NoTopic]
  /\ row' = [row EXCEPT ![s] = NoRow]
  /\ index' = [index EXCEPT ![s] = NotFound]
  /\ offset' = [offset EXCEPT ![s] = 0]
  /\ exists' = [exists EXCEPT ![s] = FALSE]
  /\ UNCHANGED registry

ManagerStep(s) ==
  \/ CheckTopicExists(s)
  \/ CreateStart(s)
  \/ CreateEnd(s)
  \/ SearchEnd(s)
  \/ FindIndex(s)
  \/ UpdateEnd(s)

-----------------------------------------------------------------------------
(* The class under any caller.                                             *)

ManagerInit ==
  /\ ConfigInit
  /\ registry = << >>
  /\ pc = [s \in Shards |-> "idle"]
  /\ topic = [s \in Shards |-> NoTopic]
  /\ row = [s \in Shards |-> NoRow]
  /\ index = [s \in Shards |-> NotFound]
  /\ offset = [s \in Shards |-> 0]
  /\ exists = [s \in Shards |-> FALSE]

CallCheckTopicExists(s, t) == Call(s, "exists", t)

CallCreateTopic(s, t) ==
  /\ Len(registry) < MaxRows
  /\ Call(s, "createStart", t)

CallGetNewestOffset(s, t) ==
  /\ Len(registry) < MaxRows
  /\ \A i \in 1 .. Len(registry) : registry[i].offset < MaxOffset
  /\ Call(s, "search", t)

(* The settings change under the operations, too.                          *)
Reconfigure ==
  /\ \/ \E change \in Changes : SetField(change[1], change[2])
     \/ LoadConfig
     \/ SaveConfig
     \/ SaveFails
  /\ UNCHANGED <<registry, pc, locals>>

ManagerNext ==
  \/ Reconfigure
  \/ /\ UNCHANGED configVars
     /\ \E s \in Shards :
          \/ \E t \in Topics : CallCheckTopicExists(s, t)
          \/ \E t \in Topics : CallCreateTopic(s, t)
          \/ \E t \in Topics : CallGetNewestOffset(s, t)
          \/ ManagerStep(s)
          \/ Return(s)

ManagerSpec == ManagerInit /\ [][ManagerNext]_managerVars

-----------------------------------------------------------------------------
(* Properties of the class under any caller.                               *)

ManagerTypeOK ==
  /\ ConfigTypeOK
  /\ registry \in Seq(OffsetRow)
  /\ pc \in [Shards -> PCs]
  /\ topic \in [Shards -> Topics \cup {NoTopic}]
  /\ row \in [Shards -> OffsetRow \cup {NoRow}]
  /\ index \in [Shards -> Nat]
  /\ offset \in [Shards -> Nat]
  /\ exists \in [Shards -> BOOLEAN]

(* An end row is never registered before a start row of its topic and      *)
(* partition, however the two inserts of concurrent createTopic calls      *)
(* interleave with each other and with a change of the default partition   *)
(* count: a topic's two rows agree.                                        *)
EndAfterStart ==
  \A e \in 1 .. Len(registry) :
    registry[e].type = "end" =>
      \E b \in 1 .. (e - 1) : SameKey(registry[b], [registry[e] EXCEPT !.type = "start"])

(* A stale write-back of a copied row lands on a row of the same topic,    *)
(* node and type: it never clobbers another topic's row, and never moves a *)
(* start row, whatever was inserted since the copy was taken.              *)
RowsKeepTheirKey ==
  [][ \A i \in 1 .. Len(registry) :
        /\ i \in 1 .. Len(registry')
        /\ SameKey(registry'[i], registry[i])
        /\ registry[i].type = "start" => registry'[i].offset = 0 ]_managerVars

(* The end row of a topic is never lost to the search that has to find it, *)
(* although the search compares the node id of one row only, the first of  *)
(* its bucket: whatever node id is set, loaded or failed to load while the *)
(* topics are in use, every end row of the topic is found, and no other    *)
(* row is. (Two shards that both search before either has created the      *)
(* topic still both create it.)                                            *)
EndRowsAreFound ==
  \A t \in Topics :
    SearchByCriteriaVector(t, nodeId, "end") =
      {i \in 1 .. Len(registry) : registry[i].topic = t /\ registry[i].type = "end"}

=============================================================================
