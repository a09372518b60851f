--------------------------- MODULE OffsetRegistry ---------------------------
(***************************************************************************)
(* TopicPrivateOffsetDefinition: the in-memory registry of topic offsets.  *)
(*                                                                         *)
(* The registry is one vector of rows shared by every reactor thread. Each *)
(* method takes mutex_ for its whole body (a unique lock to insert and     *)
(* update, a shared lock to search) and calls nothing that takes it again, *)
(* so one call is one atomic step, and two calls are two steps between     *)
(* which other threads run.                                                *)
(*                                                                         *)
(* Indices count from 1, as in TLA+; NotFound stands for the code's -1.    *)
(* Timestamps are left out: nothing reads them back.                       *)
(***************************************************************************)
EXTENDS ConfigManager, FiniteSets, FiniteSetsExt

CONSTANTS
  Topics,    \* topic names
  NoTopic    \* the empty name of a row no call has filled yet

ASSUME RegistryAssumption == NoTopic \notin Topics

VARIABLE registry  \* privateOffsetStructure

(* Mutant: the partition count kept as it was configured. *)
Uint8_kept_wide(n) == n

(* The row keeps the partition in a uint8_t. *)
Uint8(n) == n % 256

Types == {"start", "end"}

OffsetRow == [offset : Nat, topic : Topics, nodeId : NodeIds,
              partition : 0 .. 255, type : Types]

NotFound == 0

-----------------------------------------------------------------------------
(* Write operations.                                                       *)

Insert(row) == registry' = Append(registry, row)

(* Mutant: the bound off by one, so that the last row is never written. *)
Update_off_by_one(i, row) ==
  registry' = IF i \in 1 .. (Len(registry) - 1) THEN [registry EXCEPT ![i] = row]
                                                ELSE registry

(* An index outside the vector is silently ignored. *)
Update(i, row) ==
  registry' = IF i \in 1 .. Len(registry) THEN [registry EXCEPT ![i] = row]
                                          ELSE registry

-----------------------------------------------------------------------------
(* Read operations.                                                        *)

SameKey(r, row) ==
  /\ r.topic = row.topic
  /\ r.nodeId = row.nodeId
  /\ r.partition = row.partition
  /\ r.type = row.type

(* Mutant: the type left out of the comparison. *)
SearchForIndex_any_type(row) ==
  LET found == {i \in 1 .. Len(registry) : registry[i].topic = row.topic}
  IN  IF found = {} THEN NotFound ELSE Min(found)

(* The first row with the key of the given row. *)
SearchForIndex(row) ==
  LET found == {i \in 1 .. Len(registry) : SameKey(registry[i], row)}
  IN  IF found = {} THEN NotFound ELSE Min(found)

(* The rows the vector search returns, as the set of their indices: the    *)
(* first row is looked for with its node id, the following ones without.   *)
SearchByCriteriaVector(topic, nodeId, type) ==
  LET ofType == {i \in 1 .. Len(registry) :
                   registry[i].topic = topic /\ registry[i].type = type}
      onNode == {i \in ofType : registry[i].nodeId = nodeId}
  IN  IF onNode = {} THEN {} ELSE {i \in ofType : i >= Min(onNode)}

SearchByName(topic) == {i \in 1 .. Len(registry) : registry[i].topic = topic}

=============================================================================
