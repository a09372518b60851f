------------------------- MODULE TopicManagerProofs -------------------------
(***************************************************************************)
(* Proofs about TopicManager, for any number of shards and topics, and     *)
(* registries and offsets of any size.                                     *)
(***************************************************************************)
EXTENDS TopicManager, OffsetRegistryProofs, SequenceTheorems, TLAPS

-----------------------------------------------------------------------------
(* The settings.                                                           *)

LEMMA FieldNames ==
  Fields = {"nodeId", "defaultPartitionCount", "defaultReplicationCount",
            "defaultISRCount", "webPort", "tcpPort"}
<1>1. Len(Settings) = 6
  BY DEF Settings
<1>2. \A i \in 1 .. 6 : i = 1 \/ i = 2 \/ i = 3 \/ i = 4 \/ i = 5 \/ i = 6
  OBVIOUS
<1> QED
  BY <1>1, <1>2 DEF Fields, Settings

LEMMA SettingTypes ==
  ASSUME ConfigTypeOK
  PROVE  /\ config["defaultPartitionCount"] \in Int
         /\ \A p \in Ports : config[p] \in Int
<1>1. \A f \in Fields : config[f] \in ValuesOf(f)
  BY DEF ConfigTypeOK, HasTypes
<1> QED
  BY <1>1, FieldNames DEF ValuesOf, Ports

(* A setting is loaded only if the file has it. *)
LEMMA LoadedInFile == Loaded \subseteq DOMAIN configFile
  BY DEF Loaded, Settings

LEMMA ConfigTypeInit == ConfigInit => ConfigTypeOK
<1> SUFFICES ASSUME ConfigInit PROVE ConfigTypeOK
  OBVIOUS
<1>1. HasTypes(configFile)
  BY ConfigAssumption DEF ConfigInit
<1>2. PICK leftover \in [Ports -> Leftovers] :
        config = [f \in Fields |-> IF f \in Ports THEN leftover[f]
                                   ELSE IF f = "nodeId" THEN NoNode ELSE 0]
  BY DEF ConfigInit
<1>3. \A f \in Ports : leftover[f] \in Int
  BY ConfigAssumption
<1>4. \A f \in Fields : config[f] \in ValuesOf(f)
  BY <1>2, <1>3, ConfigAssumption DEF ValuesOf, Ports
<1> QED
  BY <1>1, <1>2, <1>4 DEF ConfigTypeOK, HasTypes

LEMMA ConfigTypeLoad == ConfigTypeOK /\ LoadConfig => ConfigTypeOK'
<1> SUFFICES ASSUME ConfigTypeOK, LoadConfig PROVE ConfigTypeOK'
  OBVIOUS
<1>1. /\ config' = [f \in Fields |-> IF f \in Loaded THEN configFile[f] ELSE config[f]]
      /\ configFile' = configFile
  BY DEF LoadConfig
<1>2. \A f \in Loaded : configFile[f] \in ValuesOf(f)
  BY LoadedInFile DEF ConfigTypeOK, HasTypes
<1>3. \A f \in Fields : config[f] \in ValuesOf(f)
  BY DEF ConfigTypeOK, HasTypes
<1>4. DOMAIN config' = Fields /\ \A f \in Fields : config'[f] \in ValuesOf(f)
  BY <1>1, <1>2, <1>3
<1> QED
  BY <1>1, <1>4 DEF ConfigTypeOK, HasTypes

LEMMA ConfigTypeStays == ConfigTypeOK /\ UNCHANGED configVars => ConfigTypeOK'
  BY DEF ConfigTypeOK, HasTypes, configVars

-----------------------------------------------------------------------------
(* The calls.                                                              *)

(* A row made by createTopic is an OffsetRow. *)
LEMMA NewRowType ==
  ASSUME NEW t \in Topics, NEW type \in Types, NEW count \in Int
  PROVE  NewRow(t, type, count) \in OffsetRow
  BY ConfigAssumption DEF NewRow, OffsetRow, Uint8, Types, nodeId

(* And so is the copy that getNewestOffsetWithRoundRobin increments.       *)
LEMMA CopyType ==
  ASSUME NEW r \in OffsetRow
  PROVE  [r EXCEPT !.offset = @ + 1] \in OffsetRow
  BY DEF OffsetRow

-----------------------------------------------------------------------------
(* The types of what the manager's steps change. A shard in the middle of  *)
(* an operation has filled the locals the rest of the operation uses. The  *)
(* callers of a manager may add steps, and labels, of their own.           *)

OperationTypeOK(labels) ==
  /\ registry \in Seq(OffsetRow)
  /\ pc \in [Shards -> labels]
  /\ topic \in [Shards -> Topics \cup {NoTopic}]
  /\ row \in [Shards -> OffsetRow \cup {NoRow}]
  /\ index \in [Shards -> Nat]
  /\ offset \in [Shards -> Nat]
  /\ exists \in [Shards -> BOOLEAN]

Filled ==
  \A s \in Shards :
    /\ pc[s] \in PCs \ {"idle"} => topic[s] \in Topics
    /\ pc[s] \in {"createEnd", "index", "update"} => row[s] \in OffsetRow

LEMMA FilledManagerStep ==
  ASSUME NEW labels, PCs \subseteq labels, OperationTypeOK(labels), ConfigTypeOK, Filled,
         NEW s \in Shards, ManagerStep(s)
  PROVE  OperationTypeOK(labels)' /\ Filled'
<1>1. CASE CheckTopicExists(s)
  BY <1>1 DEF CheckTopicExists, GoTo, OperationTypeOK, Filled, PCs
<1>2. CASE CreateStart(s)
  <2>1. topic[s] \in Topics /\ DefaultPartitionCount \in Int
    BY <1>2, SettingTypes DEF CreateStart, Filled, DefaultPartitionCount, PCs
  <2> DEFINE start == NewRow(topic[s], "start", DefaultPartitionCount)
             end == NewRow(topic[s], "end", DefaultPartitionCount)
  <2>2. start \in OffsetRow /\ end \in OffsetRow
    BY <2>1, NewRowType DEF Types
  <2>3. /\ registry' = Append(registry, start)
        /\ row' = [row EXCEPT ![s] = end]
        /\ pc[s] = "createStart"
        /\ pc' = [pc EXCEPT ![s] = "createEnd"]
        /\ UNCHANGED <<topic, index, offset, exists>>
    BY <1>2 DEF CreateStart, Insert, GoTo
  <2> HIDE DEF start, end
  <2> QED
    BY <2>2, <2>3 DEF OperationTypeOK, Filled, PCs
<1>3. CASE CreateEnd(s)
  <2>1. row[s] \in OffsetRow
    BY <1>3 DEF CreateEnd, Filled
  <2> QED
    BY <1>3, <2>1 DEF CreateEnd, Insert, GoTo, locals, OperationTypeOK, Filled, PCs
<1>4. CASE SearchEnd(s)
  <2> DEFINE found == SearchByCriteriaVector(topic[s], nodeId, "end")
  <2>1. CASE found = {}
    <3>1. /\ offset' = [offset EXCEPT ![s] = 0]
          /\ pc' = [pc EXCEPT ![s] = "createStart"]
          /\ pc[s] = "search"
          /\ UNCHANGED <<registry, topic, row, index, exists>>
      BY <1>4, <2>1 DEF SearchEnd, GoTo
    <3> QED
      BY <3>1 DEF OperationTypeOK, Filled, PCs
  <2>2. CASE found # {}
    <3>1. Max(found) \in 1 .. Len(registry)
      BY <2>2, VectorSearchLast DEF OperationTypeOK
    <3>2. /\ row' = [row EXCEPT ![s] = [registry[Max(found)] EXCEPT !.offset = @ + 1]]
          /\ pc[s] = "search"
          /\ pc' = [pc EXCEPT ![s] = "index"]
          /\ UNCHANGED <<registry, topic, index, offset, exists>>
      BY <1>4, <2>2 DEF SearchEnd, GoTo
    <3> HIDE DEF found
    <3>3. PICK copy \in OffsetRow : row' = [row EXCEPT ![s] = copy]
      <4>1. registry[Max(found)] \in OffsetRow
        BY <3>1 DEF OperationTypeOK
      <4> QED
        BY <3>2, <4>1, CopyType, Zenon
    <3> QED
      BY <3>2, <3>3 DEF OperationTypeOK, Filled, PCs
  <2> QED
    BY <2>1, <2>2
<1>5. CASE FindIndex(s)
  <2>1. SearchForIndex(row[s]) \in Nat
    BY SearchForIndexIsFirst DEF OperationTypeOK
  <2> QED
    BY <1>5, <2>1 DEF FindIndex, GoTo, OperationTypeOK, Filled, PCs
<1>6. CASE UpdateEnd(s)
  <2>1. row[s] \in OffsetRow
    BY <1>6 DEF UpdateEnd, Filled
  <2>2. registry' \in Seq(OffsetRow)
    BY <1>6, <2>1 DEF UpdateEnd, Update, OperationTypeOK
  <2>3. row[s].offset \in Nat
    BY <2>1 DEF OffsetRow
  <2> QED
    BY <1>6, <2>2, <2>3 DEF UpdateEnd, GoTo, OperationTypeOK, Filled, PCs
<1> QED
  BY <1>1, <1>2, <1>3, <1>4, <1>5, <1>6 DEF ManagerStep

(* A call gives the operation its topic, whoever makes it. *)
LEMMA FilledCall ==
  ASSUME NEW labels, PCs \subseteq labels, OperationTypeOK(labels), Filled,
         NEW s \in Shards, NEW t \in Topics,
         NEW label \in PCs \ {"createEnd", "index", "update"}, Call(s, label, t)
  PROVE  OperationTypeOK(labels)' /\ Filled'
  BY DEF OperationTypeOK, Filled, Call, GoTo, PCs

LEMMA FilledReturn ==
  ASSUME NEW labels, PCs \subseteq labels, OperationTypeOK(labels), Filled,
         NEW s \in Shards, Return(s)
  PROVE  OperationTypeOK(labels)' /\ Filled'
  BY DEF OperationTypeOK, Filled, Return, GoTo, PCs, NotFound

-----------------------------------------------------------------------------
(* The class under any caller: the inductive invariant.                    *)

ManagerTyped == ManagerTypeOK /\ Filled

OneNode == \A i \in 1 .. Len(registry) : registry[i].nodeId = NoNode

StartsAtZero ==
  \A i \in 1 .. Len(registry) : registry[i].type = "start" => registry[i].offset = 0

(* The start row of the topic and partition of an end row. *)
Starts(b, e) ==
  /\ b.type = "start"
  /\ b.topic = e.topic
  /\ b.nodeId = e.nodeId
  /\ b.partition = e.partition

(* A row in hand is an end row. One to be inserted follows its start row;  *)
(* one to be written back goes where an end row of its key is.             *)
Hand(s) ==
  /\ pc[s] \in {"createEnd", "index", "update"} =>
       row[s].type = "end" /\ row[s].nodeId = NoNode
  /\ pc[s] = "createEnd" => \E b \in 1 .. Len(registry) : Starts(registry[b], row[s])
  /\ pc[s] = "update" =>
       /\ index[s] \in 0 .. Len(registry)
       /\ index[s] # NotFound => SameKey(registry[index[s]], row[s])

InHand == \A s \in Shards : Hand(s)

Ordered ==
  \A e \in 1 .. Len(registry) :
    registry[e].type = "end" => \E b \in 1 .. (e - 1) : Starts(registry[b], registry[e])

ManagerInv == ManagerTyped /\ OneNode /\ StartsAtZero /\ InHand /\ Ordered

LEMMA StartsKey ==
  ASSUME NEW e \in OffsetRow, NEW b
  PROVE  SameKey(b, [e EXCEPT !.type = "start"]) <=> Starts(b, e)
  BY DEF OffsetRow, SameKey, Starts

LEMMA OrderedIsEndAfterStart ==
  ASSUME registry \in Seq(OffsetRow)
  PROVE  Ordered <=> EndAfterStart
<1>1. ASSUME NEW e \in 1 .. Len(registry)
      PROVE  (\E b \in 1 .. (e - 1) : Starts(registry[b], registry[e])) <=>
             (\E b \in 1 .. (e - 1) : SameKey(registry[b], [registry[e] EXCEPT !.type = "start"]))
  <2>1. registry[e] \in OffsetRow
    BY ElementOfSeq
  <2>2. \A b \in 1 .. (e - 1) : SameKey(registry[b], [registry[e] EXCEPT !.type = "start"])
                                  <=> Starts(registry[b], registry[e])
    BY <2>1, StartsKey
  <2> QED
    BY <2>2, Zenon
<1> QED
  BY <1>1, Zenon DEF Ordered, EndAfterStart

LEMMA ManagerTypeParts == ManagerTypeOK <=> ConfigTypeOK /\ OperationTypeOK(PCs)
  BY DEF ManagerTypeOK, OperationTypeOK

-----------------------------------------------------------------------------
(* Type correctness under any caller.                                      *)

LEMMA ConfigTypeReconfigure ==
  ASSUME ConfigTypeOK, Reconfigure
  PROVE  ConfigTypeOK'
<1>1. ASSUME NEW change \in Changes, SetField(change[1], change[2])
      PROVE  ConfigTypeOK'
  <2> DEFINE f == change[1]
             v == change[2]
  <2>1. f \in Fields /\ v \in ValuesOf(f)
    BY ManagerAssumption
  <2>2. config' = [config EXCEPT ![f] = v] /\ configFile' = configFile
    BY <1>1 DEF SetField
  <2> HIDE DEF f, v
  <2>3. DOMAIN config' = Fields /\ \A g \in Fields : config'[g] = IF g = f THEN v ELSE config[g]
    BY <2>1, <2>2 DEF ConfigTypeOK
  <2> QED
    BY <2>1, <2>2, <2>3 DEF ConfigTypeOK, HasTypes
<1>2. CASE LoadConfig
  BY <1>2, ConfigTypeLoad
<1>3. CASE SaveConfig
  BY <1>3 DEF SaveConfig, ConfigTypeOK, HasTypes
<1>4. CASE SaveFails
  <2>1. DOMAIN configFile' = {}
    BY <1>4 DEF SaveFails
  <2> QED
    BY <1>4, <2>1 DEF SaveFails, ConfigTypeOK, HasTypes
<1> QED
  BY <1>1, <1>2, <1>3, <1>4 DEF Reconfigure

(* What one shard does, of its own or for a caller. *)
ShardStep(s) ==
  /\ UNCHANGED configVars
  /\ \/ \E t \in Topics, label \in {"exists", "createStart", "search"} : Call(s, label, t)
     \/ ManagerStep(s)
     \/ Return(s)

LEMMA ManagerSteps ==
  ASSUME [ManagerNext]_managerVars
  PROVE  \/ Reconfigure
         \/ \E s \in Shards : ShardStep(s)
         \/ UNCHANGED managerVars
  BY DEF ManagerNext, ShardStep, CallCheckTopicExists, CallCreateTopic, CallGetNewestOffset

LEMMA ManagerTypedStep ==
  ASSUME ManagerTyped, NEW s \in Shards, ShardStep(s)
  PROVE  ManagerTyped'
<1>1. ConfigTypeOK /\ OperationTypeOK(PCs) /\ Filled
  BY ManagerTypeParts DEF ManagerTyped
<1>2. ConfigTypeOK'
  BY <1>1, ConfigTypeStays DEF ShardStep
<1>3. OperationTypeOK(PCs)' /\ Filled'
  <2>1. CASE ManagerStep(s)
    BY <1>1, <2>1, FilledManagerStep
  <2>2. CASE Return(s)
    BY <1>1, <2>2, FilledReturn
  <2>3. CASE \E t \in Topics, label \in {"exists", "createStart", "search"} : Call(s, label, t)
    <3>1. {"exists", "createStart", "search"} \subseteq PCs \ {"createEnd", "index", "update"}
      BY DEF PCs
    <3> QED
      BY <1>1, <2>3, <3>1, FilledCall
  <2> QED
    BY <2>1, <2>2, <2>3 DEF ShardStep
<1> QED
  BY <1>2, <1>3 DEF ManagerTyped, ManagerTypeOK, OperationTypeOK

LEMMA ManagerTypedNext == ManagerTyped /\ [ManagerNext]_managerVars => ManagerTyped'
<1> SUFFICES ASSUME ManagerTyped, [ManagerNext]_managerVars PROVE ManagerTyped'
  OBVIOUS
<1>1. CASE Reconfigure
  <2>1. ConfigTypeOK'
    BY <1>1, ConfigTypeReconfigure DEF ManagerTyped, ManagerTypeOK
  <2> QED
    BY <1>1, <2>1 DEF Reconfigure, locals, ManagerTyped, ManagerTypeOK, Filled
<1>2. CASE UNCHANGED managerVars
  <2>1. ConfigTypeOK'
    BY <1>2, ConfigTypeStays DEF managerVars, ManagerTyped, ManagerTypeOK
  <2> QED
    BY <1>2, <2>1 DEF managerVars, ManagerTyped, ManagerTypeOK, Filled
<1> QED
  BY <1>1, <1>2, ManagerSteps, ManagerTypedStep

LEMMA ManagerTypedInit == ManagerInit => ManagerTyped
<1> SUFFICES ASSUME ManagerInit PROVE ManagerTyped
  OBVIOUS
<1>1. ConfigTypeOK
  BY ConfigTypeInit DEF ManagerInit
<1>2. OperationTypeOK(PCs)
  BY DEF ManagerInit, OperationTypeOK, PCs, NotFound
<1>3. Filled
  BY DEF ManagerInit, Filled
<1> QED
  BY <1>1, <1>2, <1>3 DEF ManagerTyped, ManagerTypeOK, OperationTypeOK

(* For any number of shards and topics, and whatever is set, loaded and    *)
(* saved in between, every variable keeps its type under any caller.       *)
THEOREM ManagerTypeCorrect == ManagerSpec => []ManagerTypeOK
<1>1. ManagerTyped => ManagerTypeOK
  BY DEF ManagerTyped
<1> QED
  BY <1>1, ManagerTypedInit, ManagerTypedNext, PTL DEF ManagerSpec

(* Whatever a process sets, loads and saves, and whichever save fails: if  *)
(* the file it was started with is loaded as a whole or not at all, so is  *)
(* every file it leaves behind.                                            *)
THEOREM SavedFileLoadsWhole == ManagerSpec /\ SavedLoadsWhole => []SavedLoadsWhole
<1> DEFINE Whole == ConfigTypeOK /\ SavedLoadsWhole
<1>1. ASSUME Whole, [ManagerNext]_managerVars PROVE SavedLoadsWhole'
  <2>1. CASE configFile' = configFile
    BY <1>1, <2>1 DEF SavedLoadsWhole, Loaded
  <2>2. CASE SaveConfig
    <3>1. DOMAIN configFile' = Fields
      BY <1>1, <2>2 DEF SaveConfig, ConfigTypeOK
    <3>2. \A k \in 1 .. Len(Settings) : Settings[k] \in DOMAIN configFile'
      BY <3>1 DEF Fields
    <3>3. Loaded' = Fields
      BY <3>2 DEF Loaded, Fields
    <3> QED
      BY <3>3 DEF SavedLoadsWhole
  <2>3. CASE SaveFails
    <3>1. DOMAIN configFile' = {}
      BY <2>3 DEF SaveFails
    <3>2. Loaded' = {}
      <4>1. \A j \in 1 .. Len(Settings) : 1 \in 1 .. j
        BY DEF Settings
      <4> QED
        BY <3>1, <4>1 DEF Loaded
    <3> QED
      BY <3>2 DEF SavedLoadsWhole
  <2> QED
    BY <1>1, <2>1, <2>2, <2>3
       DEF ManagerNext, Reconfigure, SetField, LoadConfig, configVars, managerVars
<1>2. ManagerTypeOK => ConfigTypeOK
  BY DEF ManagerTypeOK
<1>3. ConfigTypeOK /\ SavedLoadsWhole /\ [ManagerNext]_managerVars => SavedLoadsWhole'
  BY <1>1
<1> QED
  BY <1>2, <1>3, ManagerTypeCorrect, PTL DEF ManagerSpec

-----------------------------------------------------------------------------
(* What a step does to the rows that are there: none loses its key or its  *)
(* place, and a start row keeps its offset.                                *)

KeysStay ==
  /\ Len(registry') >= Len(registry)
  /\ \A i \in 1 .. Len(registry) :
       /\ SameKey(registry'[i], registry[i])
       /\ registry[i].type = "start" => registry'[i].offset = registry[i].offset

LEMMA RegistryStays ==
  ASSUME registry \in Seq(OffsetRow), registry' = registry
  PROVE  KeysStay
  BY DEF KeysStay, SameKey

LEMMA InsertedRow ==
  ASSUME registry \in Seq(OffsetRow), NEW r \in OffsetRow, Insert(r)
  PROVE  /\ KeysStay
         /\ Len(registry') = Len(registry) + 1
         /\ registry'[Len(registry) + 1] = r
         /\ \A i \in 1 .. Len(registry) : registry'[i] = registry[i]
<1>1. /\ Len(registry') = Len(registry) + 1
      /\ registry'[Len(registry) + 1] = r
      /\ \A i \in 1 .. Len(registry) : registry'[i] = registry[i]
      /\ Len(registry) \in Nat
  BY AppendProperties DEF Insert
<1>2. KeysStay
  BY <1>1 DEF KeysStay, SameKey
<1> QED
  BY <1>1, <1>2

LEMMA UpdatedRow ==
  ASSUME registry \in Seq(OffsetRow), NEW r \in OffsetRow, r.type = "end",
         NEW i \in 0 .. Len(registry), i # NotFound => SameKey(registry[i], r),
         Update(i, r)
  PROVE  /\ KeysStay
         /\ Len(registry') = Len(registry)
         /\ \A j \in 1 .. Len(registry) : registry'[j] = registry[j] \/ registry'[j] = r
<1>1. CASE i = NotFound
  <2>1. registry' = registry
    BY <1>1 DEF Update, NotFound
  <2> QED
    BY <2>1, RegistryStays
<1>2. CASE i # NotFound
  <2>1. i \in 1 .. Len(registry) /\ SameKey(registry[i], r)
    BY <1>2 DEF NotFound
  <2>2. registry' = [registry EXCEPT ![i] = r]
    BY <2>1 DEF Update
  <2>3. /\ Len(registry') = Len(registry)
        /\ \A j \in 1 .. Len(registry) : registry'[j] = IF j = i THEN r ELSE registry[j]
    BY <2>1, <2>2, ExceptSeq
  <2>4. ASSUME NEW j \in 1 .. Len(registry)
        PROVE  /\ SameKey(registry'[j], registry[j])
               /\ registry[j].type = "start" => registry'[j].offset = registry[j].offset
    <3>1. CASE j = i
      BY <2>1, <2>3, <3>1 DEF SameKey
    <3>2. CASE j # i
      BY <2>3, <3>2 DEF SameKey
    <3> QED
      BY <3>1, <3>2
  <2>5. Len(registry') >= Len(registry)
    BY <2>3
  <2>6. KeysStay
    BY <2>4, <2>5 DEF KeysStay
  <2> QED
    BY <2>3, <2>6
<1> QED
  BY <1>1, <1>2

(* A row in the hand of a shard that does not move stays good: what was    *)
(* inserted or written meanwhile has not moved or renamed the row it is    *)
(* for.                                                                    *)
LEMMA HandStays ==
  ASSUME registry \in Seq(OffsetRow), Len(registry') \in Nat, KeysStay,
         NEW s \in Shards, Hand(s), pc'[s] = pc[s], row'[s] = row[s], index'[s] = index[s]
  PROVE  Hand(s)'
<1>1. CASE pc[s] = "createEnd"
  <2>1. PICK b \in 1 .. Len(registry) : Starts(registry[b], row[s])
    BY <1>1 DEF Hand
  <2>2. b \in 1 .. Len(registry') /\ Starts(registry'[b], row[s])
    BY <2>1 DEF KeysStay, SameKey, Starts
  <2> QED
    BY <1>1, <2>2 DEF Hand
<1>2. CASE pc[s] = "update"
  <2>1. index[s] \in 0 .. Len(registry')
    BY <1>2 DEF Hand, KeysStay
  <2>2. index[s] # NotFound => SameKey(registry'[index[s]], row[s])
    <3> SUFFICES ASSUME index[s] # NotFound PROVE SameKey(registry'[index[s]], row[s])
      OBVIOUS
    <3>1. index[s] \in 1 .. Len(registry) /\ SameKey(registry[index[s]], row[s])
      BY <1>2 DEF Hand, NotFound
    <3> QED
      BY <3>1 DEF KeysStay, SameKey
  <2> QED
    BY <1>2, <2>1, <2>2 DEF Hand
<1>3. CASE pc[s] \notin {"createEnd", "update"}
  BY <1>3 DEF Hand
<1> QED
  BY <1>1, <1>2, <1>3

LEMMA InHandStays ==
  ASSUME registry \in Seq(OffsetRow), Len(registry') \in Nat, KeysStay, InHand,
         NEW s \in Shards, Hand(s)',
         \A x \in Shards \ {s} : pc'[x] = pc[x] /\ row'[x] = row[x] /\ index'[x] = index[x]
  PROVE  InHand'
<1>1. ASSUME NEW x \in Shards PROVE Hand(x)'
  <2>1. CASE x = s
    BY <2>1
  <2>2. CASE x # s
    BY <2>2, HandStays DEF InHand
  <2> QED
    BY <2>1, <2>2
<1> QED
  BY <1>1 DEF InHand

(* The order of start and end rows survives what keeps the keys ... *)
LEMMA OrderStays ==
  ASSUME registry \in Seq(OffsetRow), KeysStay, Ordered,
         NEW e \in 1 .. Len(registry), registry'[e].type = "end"
  PROVE  \E b \in 1 .. (e - 1) : Starts(registry'[b], registry'[e])
<1>1. SameKey(registry'[e], registry[e])
  BY DEF KeysStay
<1>2. registry[e].type = "end"
  BY <1>1 DEF SameKey
<1>3. PICK b \in 1 .. (e - 1) : Starts(registry[b], registry[e])
  BY <1>2 DEF Ordered
<1>4. b \in 1 .. Len(registry)
  OBVIOUS
<1>5. SameKey(registry'[b], registry[b])
  BY <1>4 DEF KeysStay
<1>6. Starts(registry'[b], registry'[e])
  BY <1>1, <1>3, <1>5 DEF SameKey, Starts
<1> QED
  BY <1>6

(* ... and the insert of a row that is not an end row, or that follows its *)
(* start row.                                                              *)
LEMMA InsertOrdered ==
  ASSUME registry \in Seq(OffsetRow), NEW r \in OffsetRow, Insert(r), Ordered,
         r.type = "end" => \E b \in 1 .. Len(registry) : Starts(registry[b], r)
  PROVE  Ordered'
<1>1. /\ KeysStay
      /\ Len(registry') = Len(registry) + 1
      /\ registry'[Len(registry) + 1] = r
      /\ \A i \in 1 .. Len(registry) : registry'[i] = registry[i]
      /\ Len(registry) \in Nat
  BY InsertedRow
<1>2. ASSUME NEW e \in 1 .. Len(registry'), registry'[e].type = "end"
      PROVE  \E b \in 1 .. (e - 1) : Starts(registry'[b], registry'[e])
  <2>1. CASE e = Len(registry) + 1
    <3>1. PICK b \in 1 .. Len(registry) : Starts(registry[b], r)
      BY <1>1, <1>2, <2>1
    <3>2. b \in 1 .. (e - 1) /\ Starts(registry'[b], registry'[e])
      BY <1>1, <2>1, <3>1
    <3> QED
      BY <3>2
  <2>2. CASE e # Len(registry) + 1
    <3>1. e \in 1 .. Len(registry)
      BY <1>1, <2>2
    <3> QED
      BY <1>1, <1>2, <3>1, OrderStays
  <2> QED
    BY <2>1, <2>2
<1> QED
  BY <1>2 DEF Ordered

-----------------------------------------------------------------------------
(* The inductive step, one shard at a time.                                *)

RowInv == OneNode /\ StartsAtZero /\ InHand /\ Ordered

LEMMA RegistryUnchanged ==
  ASSUME ManagerInv, registry' = registry, NEW s \in Shards, Hand(s)',
         \A x \in Shards \ {s} : pc'[x] = pc[x] /\ row'[x] = row[x] /\ index'[x] = index[x]
  PROVE  RowInv' /\ KeysStay
<1>1. registry \in Seq(OffsetRow) /\ Len(registry') \in Nat
  BY DEF ManagerInv, ManagerTyped, ManagerTypeOK
<1>2. KeysStay
  BY <1>1, RegistryStays
<1>3. InHand'
  BY <1>1, <1>2, InHandStays DEF ManagerInv
<1> QED
  BY <1>2, <1>3 DEF ManagerInv, RowInv, OneNode, StartsAtZero, Ordered

LEMMA RowInserted ==
  ASSUME ManagerInv, NEW r \in OffsetRow, Insert(r), r.nodeId = NoNode, r.offset = 0 \/ r.type = "end",
         r.type = "end" => \E b \in 1 .. Len(registry) : Starts(registry[b], r),
         NEW s \in Shards, Hand(s)',
         \A x \in Shards \ {s} : pc'[x] = pc[x] /\ row'[x] = row[x] /\ index'[x] = index[x]
  PROVE  RowInv' /\ KeysStay
<1>1. registry \in Seq(OffsetRow) /\ Len(registry) \in Nat
  BY DEF ManagerInv, ManagerTyped, ManagerTypeOK
<1>2. /\ KeysStay
      /\ Len(registry') = Len(registry) + 1
      /\ registry'[Len(registry) + 1] = r
      /\ \A i \in 1 .. Len(registry) : registry'[i] = registry[i]
  BY <1>1, InsertedRow
<1>3. \A i \in 1 .. Len(registry') : i \in 1 .. Len(registry) \/ i = Len(registry) + 1
  BY <1>1, <1>2
<1>4. OneNode' /\ StartsAtZero'
  <2>1. \A i \in 1 .. Len(registry') : registry'[i].nodeId = NoNode
    BY <1>2, <1>3 DEF ManagerInv, OneNode
  <2>2. ASSUME NEW i \in 1 .. Len(registry'), registry'[i].type = "start"
        PROVE  registry'[i].offset = 0
    <3>1. CASE i \in 1 .. Len(registry)
      BY <1>2, <2>2, <3>1 DEF ManagerInv, StartsAtZero
    <3>2. CASE i = Len(registry) + 1
      BY <1>2, <2>2, <3>2
    <3> QED
      BY <1>3, <3>1, <3>2
  <2> QED
    BY <2>1, <2>2 DEF OneNode, StartsAtZero
<1>5. Ordered'
  BY <1>1, InsertOrdered DEF ManagerInv
<1>6. InHand'
  BY <1>1, <1>2, InHandStays DEF ManagerInv
<1> QED
  BY <1>2, <1>4, <1>5, <1>6 DEF RowInv

LEMMA RowUpdated ==
  ASSUME ManagerInv, NEW r \in OffsetRow, r.type = "end", r.nodeId = NoNode,
         NEW i \in 0 .. Len(registry), i # NotFound => SameKey(registry[i], r),
         Update(i, r),
         NEW s \in Shards, Hand(s)',
         \A x \in Shards \ {s} : pc'[x] = pc[x] /\ row'[x] = row[x] /\ index'[x] = index[x]
  PROVE  RowInv' /\ KeysStay
<1>1. registry \in Seq(OffsetRow) /\ Len(registry) \in Nat
  BY DEF ManagerInv, ManagerTyped, ManagerTypeOK
<1>2. /\ KeysStay
      /\ Len(registry') = Len(registry)
      /\ \A j \in 1 .. Len(registry) : registry'[j] = registry[j] \/ registry'[j] = r
  BY <1>1, UpdatedRow
<1>3. OneNode'
  <2>1. ASSUME NEW j \in 1 .. Len(registry') PROVE registry'[j].nodeId = NoNode
    BY <1>2 DEF ManagerInv, OneNode
  <2> QED
    BY <2>1 DEF OneNode
<1>4. StartsAtZero'
  <2>1. ASSUME NEW j \in 1 .. Len(registry'), registry'[j].type = "start"
        PROVE  registry'[j].offset = 0
    <3>1. registry'[j] = registry[j]
      BY <1>2, <2>1
    <3> QED
      BY <1>2, <2>1, <3>1 DEF ManagerInv, StartsAtZero
  <2> QED
    BY <2>1 DEF StartsAtZero
<1>5. Ordered'
  BY <1>1, <1>2, OrderStays DEF ManagerInv, Ordered
<1>6. InHand'
  BY <1>1, <1>2, InHandStays DEF ManagerInv
<1> QED
  BY <1>2, <1>3, <1>4, <1>5, <1>6 DEF RowInv

LEMMA RowInvStep ==
  ASSUME ManagerInv, NEW s \in Shards, ShardStep(s)
  PROVE  RowInv' /\ KeysStay
<1> DEFINE Others == \A x \in Shards \ {s} :
             pc'[x] = pc[x] /\ row'[x] = row[x] /\ index'[x] = index[x]
<1>a. /\ registry \in Seq(OffsetRow)
      /\ pc \in [Shards -> PCs]
      /\ row \in [Shards -> OffsetRow \cup {NoRow}]
      /\ index \in [Shards -> Nat]
      /\ topic \in [Shards -> Topics \cup {NoTopic}]
      /\ Hand(s)
  BY DEF ManagerInv, ManagerTyped, ManagerTypeOK, InHand
<1>b. Filled
  BY DEF ManagerInv, ManagerTyped
<1>1. CASE \E t \in Topics, label \in {"exists", "createStart", "search"} : Call(s, label, t)
  <2>1. /\ registry' = registry /\ Others
        /\ pc'[s] \in {"exists", "createStart", "search"}
    BY <1>1, <1>a DEF Call, GoTo
  <2>2. Hand(s)'
    BY <2>1 DEF Hand
  <2> QED
    BY <2>1, <2>2, RegistryUnchanged
<1>2. CASE CheckTopicExists(s) \/ Return(s)
  <2>1. /\ registry' = registry /\ Others
        /\ pc'[s] \in {"returned", "idle"}
    BY <1>2, <1>a DEF CheckTopicExists, Return, GoTo
  <2>2. Hand(s)'
    BY <2>1 DEF Hand
  <2> QED
    BY <2>1, <2>2, RegistryUnchanged
<1>3. CASE CreateStart(s)
  <2>1. topic[s] \in Topics /\ DefaultPartitionCount \in Int
    <3>1. topic[s] \in Topics
      BY <1>3, <1>b DEF CreateStart, Filled, PCs
    <3>2. DefaultPartitionCount \in Int
      BY SettingTypes DEF ManagerInv, ManagerTyped, ManagerTypeOK, DefaultPartitionCount
    <3> QED
      BY <3>1, <3>2
  <2> DEFINE start == NewRow(topic[s], "start", DefaultPartitionCount)
             end == NewRow(topic[s], "end", DefaultPartitionCount)
  <2>2. start \in OffsetRow /\ end \in OffsetRow
    BY <2>1, NewRowType DEF Types
  <2>3. /\ start.nodeId = NoNode /\ start.offset = 0 /\ start.type = "start"
        /\ end.nodeId = NoNode /\ end.type = "end"
        /\ Starts(start, end)
    BY DEF NewRow, nodeId, Starts
  <2>4. /\ Insert(start)
        /\ row' = [row EXCEPT ![s] = end]
        /\ pc' = [pc EXCEPT ![s] = "createEnd"]
        /\ index' = index
    BY <1>3 DEF CreateStart, GoTo
  <2> HIDE DEF start, end
  <2>5. Len(registry') = Len(registry) + 1 /\ registry'[Len(registry) + 1] = start
    BY <1>a, <2>2, <2>4, InsertedRow
  <2>6. Others /\ row'[s] = end /\ pc'[s] = "createEnd"
    BY <1>a, <2>4
  <2>7. Hand(s)'
    <3>1. Len(registry) + 1 \in 1 .. Len(registry')
      BY <1>a, <2>5
    <3>2. \E b \in 1 .. Len(registry') : Starts(registry'[b], row'[s])
      BY <2>3, <2>5, <2>6, <3>1
    <3> QED
      BY <2>3, <2>6, <3>2 DEF Hand
  <2> HIDE DEF Others
  <2>8. start.type # "end"
    BY <2>3
  <2> QED
    BY <2>2, <2>3, <2>4, <2>6, <2>7, <2>8, RowInserted DEF Others
<1>4. CASE CreateEnd(s)
  <2>1. row[s] \in OffsetRow /\ row[s].type = "end" /\ row[s].nodeId = NoNode
    BY <1>4, <1>a, <1>b DEF CreateEnd, Filled, Hand
  <2>2. \E b \in 1 .. Len(registry) : Starts(registry[b], row[s])
    BY <1>4, <1>a DEF CreateEnd, Hand
  <2>3. Insert(row[s]) /\ Others /\ pc'[s] = "returned"
    BY <1>4, <1>a DEF CreateEnd, GoTo, locals
  <2>4. Hand(s)'
    BY <2>3 DEF Hand
  <2> QED
    BY <2>1, <2>2, <2>3, <2>4, RowInserted
<1>5. CASE SearchEnd(s)
  <2> DEFINE found == SearchByCriteriaVector(topic[s], nodeId, "end")
  <2>1. CASE found = {}
    <3>1. registry' = registry /\ Others /\ pc'[s] = "createStart"
      BY <1>5, <1>a, <2>1 DEF SearchEnd, GoTo
    <3>2. Hand(s)'
      BY <3>1 DEF Hand
    <3> QED
      BY <3>1, <3>2, RegistryUnchanged
  <2>2. CASE found # {}
    <3>1. Max(found) \in 1 .. Len(registry) /\ registry[Max(found)].type = "end"
      BY <1>a, <2>2, VectorSearchLast
    <3>2. /\ registry' = registry /\ index' = index
          /\ row' = [row EXCEPT ![s] = [registry[Max(found)] EXCEPT !.offset = @ + 1]]
          /\ pc' = [pc EXCEPT ![s] = "index"]
      BY <1>5, <2>2 DEF SearchEnd, GoTo
    <3> HIDE DEF found
    <3>3. PICK last \in OffsetRow : /\ row' = [row EXCEPT ![s] = [last EXCEPT !.offset = @ + 1]]
                                    /\ last.type = "end" /\ last.nodeId = NoNode
      <4>1. registry[Max(found)] \in OffsetRow /\ registry[Max(found)].nodeId = NoNode
        BY <1>a, <3>1 DEF ManagerInv, OneNode
      <4> QED
        BY <3>1, <3>2, <4>1, Zenon
    <3>4. row'[s].type = "end" /\ row'[s].nodeId = NoNode
      BY <1>a, <3>3 DEF OffsetRow
    <3>5. Others /\ pc'[s] = "index"
      <4>1. \A x \in Shards \ {s} : row'[x] = row[x]
        BY <1>a, <3>3
      <4> QED
        BY <1>a, <3>2, <4>1
    <3>6. Hand(s)'
      BY <3>4, <3>5 DEF Hand
    <3> QED
      BY <3>2, <3>5, <3>6, RegistryUnchanged
  <2> QED
    BY <2>1, <2>2
<1>6. CASE FindIndex(s)
  <2>1. /\ SearchForIndex(row[s]) \in 0 .. Len(registry)
        /\ SearchForIndex(row[s]) # NotFound =>
             SameKey(registry[SearchForIndex(row[s])], row[s])
    BY <1>a, SearchForIndexIsFirst
  <2>2. /\ registry' = registry /\ Others /\ pc[s] = "index" /\ pc'[s] = "update"
        /\ index'[s] = SearchForIndex(row[s]) /\ row' = row
    BY <1>6, <1>a DEF FindIndex, GoTo
  <2>3. Hand(s)'
    BY <1>a, <2>1, <2>2 DEF Hand
  <2> QED
    BY <2>2, <2>3, RegistryUnchanged
<1>7. CASE UpdateEnd(s)
  <2>1. row[s] \in OffsetRow /\ row[s].type = "end" /\ row[s].nodeId = NoNode
    BY <1>7, <1>a, <1>b DEF UpdateEnd, Filled, Hand
  <2>2. /\ index[s] \in 0 .. Len(registry)
        /\ index[s] # NotFound => SameKey(registry[index[s]], row[s])
    BY <1>7, <1>a DEF UpdateEnd, Hand
  <2>3. Update(index[s], row[s]) /\ Others /\ pc'[s] = "returned"
    BY <1>7, <1>a DEF UpdateEnd, GoTo
  <2>4. Hand(s)'
    BY <2>3 DEF Hand
  <2> QED
    BY <2>1, <2>2, <2>3, <2>4, RowUpdated
<1> QED
  BY <1>1, <1>2, <1>3, <1>4, <1>5, <1>6, <1>7 DEF ShardStep, ManagerStep

LEMMA ManagerInvInit == ManagerInit => ManagerInv
<1> SUFFICES ASSUME ManagerInit PROVE ManagerInv
  OBVIOUS
<1>1. ManagerTyped
  BY ManagerTypedInit
<1>2. registry = << >> /\ \A s \in Shards : pc[s] = "idle"
  BY DEF ManagerInit
<1>3. InHand
  BY <1>2 DEF InHand, Hand
<1>4. OneNode /\ StartsAtZero /\ Ordered
  BY <1>2, EmptySeq DEF OneNode, StartsAtZero, Ordered
<1> QED
  BY <1>1, <1>3, <1>4 DEF ManagerInv

LEMMA ManagerInvNext ==
  ManagerInv /\ [ManagerNext]_managerVars => ManagerInv' /\ KeysStay
<1> SUFFICES ASSUME ManagerInv, [ManagerNext]_managerVars PROVE ManagerInv' /\ KeysStay
  OBVIOUS
<1>1. ManagerTyped'
  BY ManagerTypedNext DEF ManagerInv
<1>2. ASSUME NEW s \in Shards, ShardStep(s) PROVE RowInv' /\ KeysStay
  BY <1>2, RowInvStep
<1>3. CASE Reconfigure \/ UNCHANGED managerVars
  <2>1. UNCHANGED <<registry, pc, locals>>
    BY <1>3 DEF Reconfigure, managerVars, locals
  <2>2. KeysStay
    BY <2>1, RegistryStays DEF ManagerInv, ManagerTyped, ManagerTypeOK
  <2>3. InHand'
    BY <2>1 DEF locals, ManagerInv, InHand, Hand
  <2> QED
    BY <1>1, <2>1, <2>2, <2>3 DEF ManagerInv, OneNode, StartsAtZero, Ordered
<1> QED
  BY <1>1, <1>2, <1>3, ManagerSteps DEF ManagerInv, RowInv

LEMMA ManagerInvariance == ManagerSpec => []ManagerInv
<1>1. ManagerInv /\ [ManagerNext]_managerVars => ManagerInv'
  BY ManagerInvNext
<1> QED
  BY <1>1, ManagerInvInit, PTL DEF ManagerSpec

(* An end row is never registered before a start row of its topic and      *)
(* partition, for any number of shards, however their calls interleave     *)
(* with each other and with changes of the default partition count.        *)
THEOREM EndAfterStartAlways == ManagerSpec => []EndAfterStart
<1>1. ManagerInv => EndAfterStart
  BY OrderedIsEndAfterStart DEF ManagerInv, ManagerTyped, ManagerTypeOK
<1> QED
  BY <1>1, ManagerInvariance, PTL

(* A stale write-back of a copied row lands on a row of the same topic,    *)
(* partition and type, whatever was inserted since the copy was taken; it  *)
(* never moves a row, and start rows stay at 0.                            *)
THEOREM RowsKeepTheirKeyAlways == ManagerSpec => RowsKeepTheirKey
<1> DEFINE Kept == \A i \in 1 .. Len(registry) :
                     /\ i \in 1 .. Len(registry')
                     /\ SameKey(registry'[i], registry[i])
                     /\ registry[i].type = "start" => registry'[i].offset = 0
<1>1. ManagerInv /\ [ManagerNext]_managerVars => [Kept]_managerVars
  <2> SUFFICES ASSUME ManagerInv, [ManagerNext]_managerVars PROVE Kept
    OBVIOUS
  <2>1. KeysStay /\ ManagerInv'
    BY ManagerInvNext
  <2>2. Len(registry) \in Nat /\ Len(registry') \in Nat
    BY <2>1 DEF ManagerInv, ManagerTyped, ManagerTypeOK
  <2>3. ASSUME NEW i \in 1 .. Len(registry)
        PROVE  /\ i \in 1 .. Len(registry')
               /\ SameKey(registry'[i], registry[i])
               /\ registry[i].type = "start" => registry'[i].offset = 0
    BY <2>1, <2>2 DEF KeysStay, ManagerInv, StartsAtZero
  <2> QED
    BY <2>3
<1>2. RowsKeepTheirKey <=> [][Kept]_managerVars
  BY DEF RowsKeepTheirKey
<1> HIDE DEF Kept
<1> QED
  BY <1>1, <1>2, ManagerInvariance, PTL DEF ManagerSpec

(* No end row is ever lost to the search of getNewestOffsetWithRoundRobin: *)
(* all rows being of one node, a search that compares the node id of one   *)
(* row only misses none, whatever node id is set or loaded later.          *)
THEOREM EndRowsAreFoundAlways == ManagerSpec => []EndRowsAreFound
<1>1. ManagerInv => EndRowsAreFound
  BY VectorSearchIsExact DEF ManagerInv, ManagerTyped, ManagerTypeOK, OneNode, nodeId,
     EndRowsAreFound
<1> QED
  BY <1>1, ManagerInvariance, PTL

=============================================================================
