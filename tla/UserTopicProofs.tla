-------------------------- MODULE UserTopicProofs --------------------------
(***************************************************************************)
(* Proofs about UserTopic, for any number of shards, accounts and users.   *)
(***************************************************************************)
EXTENDS UserTopic, TopicManagerProofs, TLAPS

-----------------------------------------------------------------------------
(* The settings in this program.                                           *)

LEMMA Uint16Type ==
  ASSUME NEW n \in Int
  PROVE  Uint16(n) \in Uint16s
  BY DEF Uint16, Uint16s

(* In this program only the load changes the settings. *)
LEMMA OnlyLoadConfigures == [Next]_vars => BootLoad \/ UNCHANGED configVars
<1> SUFFICES ASSUME [Next]_vars PROVE BootLoad \/ UNCHANGED configVars
  OBVIOUS
<1>1. CASE Boot
  BY <1>1 DEF Boot, BootWithoutConfig, BootCheck, BootChecked, BootCreate, BootCreated,
       BootAdmin, BootServe, userVars, managerVars, configVars
<1>2. ASSUME NEW s \in Shards, Work(s) PROVE UNCHANGED configVars
  BY <1>2 DEF Work, PostUserDone, GetUsersDone, userVars, configVars
<1>3. ASSUME NEW s \in Shards, \/ \E a \in Accounts : PostUser(s, a)
                              \/ GetUsers(s)
      PROVE  UNCHANGED configVars
  BY <1>3 DEF PostUser, GetUsers, configVars
<1>4. CASE UNCHANGED vars
  BY <1>4 DEF vars, userVars, configVars
<1> QED
  BY <1>1, <1>2, <1>3, <1>4 DEF Next

-----------------------------------------------------------------------------
(* Type correctness. TypeOK alone is not inductive: a shard in the middle  *)
(* of an operation has filled the locals the rest of the operation uses.   *)

Labels == PCs \cup {"listing"}

Typed == TypeOK /\ Filled

(* The types of what TopicManager's steps leave alone. *)
ProgramTypeOK ==
  /\ ConfigTypeOK
  /\ boot \in BootPhases
  /\ ports \in [Ports -> Uint16s]
  /\ users \in Seq(User)
  /\ account \in [Shards -> Accounts \cup {Admin}]
  /\ listed \in [Shards -> Seq(User)]

LEMMA TypeParts == TypeOK <=> OperationTypeOK(Labels) /\ ProgramTypeOK
  BY DEF TypeOK, OperationTypeOK, ProgramTypeOK, Labels

LEMMA ProgramTypeStays == TypeOK /\ UNCHANGED userVars => ProgramTypeOK'
<1> SUFFICES ASSUME TypeOK, UNCHANGED userVars PROVE ProgramTypeOK'
  OBVIOUS
<1>1. ConfigTypeOK'
  BY ConfigTypeStays DEF TypeOK, userVars
<1> QED
  BY <1>1 DEF TypeOK, ProgramTypeOK, userVars

LEMMA TypedInit == Init => Typed
<1> SUFFICES ASSUME Init PROVE Typed
  OBVIOUS
<1>1. ConfigTypeOK
  BY ConfigTypeInit DEF Init, ManagerInit
<1>2. OperationTypeOK(Labels)
  BY DEF Init, ManagerInit, OperationTypeOK, Labels, PCs, NotFound
<1>3. ports \in [Ports -> Uint16s]
  BY DEF Init, Uint16s
<1>4. ProgramTypeOK
  BY <1>1, <1>3 DEF Init, ProgramTypeOK, BootPhases
<1>5. Filled
  BY DEF Init, ManagerInit, Filled
<1> QED
  BY <1>2, <1>4, <1>5, TypeParts DEF Typed

LEMMA TypedManagerStep ==
  ASSUME Typed, NEW s \in Shards, ManagerStep(s), UNCHANGED userVars
  PROVE  Typed'
<1>1. OperationTypeOK(Labels) /\ ConfigTypeOK /\ Filled
  BY TypeParts DEF Typed, ProgramTypeOK
<1>2. ProgramTypeOK'
  BY ProgramTypeStays DEF Typed
<1>3. OperationTypeOK(Labels)' /\ Filled'
  BY <1>1, FilledManagerStep DEF Labels
<1>4. TypeOK'
  BY <1>2, <1>3 DEF TypeOK, OperationTypeOK, ProgramTypeOK, Labels
<1> QED
  BY <1>3, <1>4 DEF Typed

(* A call gives the operation its topic, whoever makes it. *)
LEMMA TypedCall ==
  ASSUME Typed, NEW s \in Shards, NEW t \in Topics,
         NEW label \in PCs \ {"createEnd", "index", "update"}, Call(s, label, t),
         ProgramTypeOK'
  PROVE  Typed'
<1>1. OperationTypeOK(Labels) /\ Filled
  BY TypeParts DEF Typed
<1>2. OperationTypeOK(Labels)' /\ Filled'
  BY <1>1, FilledCall DEF Labels
<1>3. TypeOK'
  BY <1>2 DEF TypeOK, OperationTypeOK, ProgramTypeOK, Labels
<1> QED
  BY <1>2, <1>3 DEF Typed

LEMMA TypedReturn ==
  ASSUME Typed, NEW s \in Shards, Return(s), ProgramTypeOK'
  PROVE  Typed'
<1>1. OperationTypeOK(Labels) /\ Filled
  BY TypeParts DEF Typed
<1>2. OperationTypeOK(Labels)' /\ Filled'
  BY <1>1, FilledReturn DEF Labels
<1>3. TypeOK'
  BY <1>2 DEF TypeOK, OperationTypeOK, ProgramTypeOK, Labels
<1> QED
  BY <1>2, <1>3 DEF Typed

LEMMA TypedBeginInsert ==
  ASSUME Typed, NEW s \in Shards, NEW a \in Accounts \cup {Admin}, BeginInsert(s, a),
         UNCHANGED <<configVars, boot, ports, users, listed>>
  PROVE  Typed'
<1>1. Call(s, "search", UserOffsets) /\ account' \in [Shards -> Accounts \cup {Admin}]
  BY DEF BeginInsert, Typed, TypeOK
<1>2. /\ UserOffsets \in Topics
      /\ "search" \in PCs \ {"createEnd", "index", "update"}
  BY UserTopicAssumption DEF PCs
<1>3. ConfigTypeOK'
  BY ConfigTypeStays DEF Typed, TypeOK
<1>4. ProgramTypeOK'
  BY <1>1, <1>3 DEF ProgramTypeOK, Typed, TypeOK
<1> QED
  BY <1>1, <1>2, <1>4, TypedCall

LEMMA TypedPushUser ==
  ASSUME Typed, NEW s \in Shards, PushUser(s), boot' \in BootPhases,
         ports' \in [Ports -> Uint16s], UNCHANGED <<configVars, listed>>
  PROVE  Typed'
<1>1. Return(s) /\ account' \in [Shards -> Accounts \cup {Admin}]
  BY DEF PushUser, Typed, TypeOK
<1>2. [offset |-> offset[s], message |-> account[s]] \in User
  BY DEF Typed, TypeOK, User
<1>3. users' \in Seq(User) /\ listed' \in [Shards -> Seq(User)]
  BY <1>2 DEF PushUser, Typed, TypeOK
<1>4. ConfigTypeOK'
  BY ConfigTypeStays DEF Typed, TypeOK
<1>5. ProgramTypeOK'
  BY <1>1, <1>3, <1>4 DEF ProgramTypeOK
<1> QED
  BY <1>1, <1>5, TypedReturn

LEMMA TypedBoot == Typed /\ Boot => Typed'
<1> SUFFICES ASSUME Typed, Boot PROVE Typed'
  OBVIOUS
<1>a. MainShard \in Shards /\ UsersTopic \in Topics
  BY UserTopicAssumption
<1>b. TypeOK
  BY DEF Typed
<1>c. {"exists", "createStart"} \subseteq PCs \ {"createEnd", "index", "update"}
  BY DEF PCs
<1>d. UNCHANGED configVars => ConfigTypeOK'
  BY <1>b, ConfigTypeStays DEF TypeOK
<1>e. PortsRead \in [Ports -> Uint16s]
  <2>1. \A p \in Ports : Uint16(config[p]) \in Uint16s
    BY <1>b, SettingTypes, Uint16Type DEF TypeOK
  <2> QED
    BY <2>1 DEF PortsRead
<1>0. CASE BootWithoutConfig
  <2>1. UNCHANGED <<configVars, registry, pc, topic, row, index, offset, exists,
                    ports, users, account, listed>>
    BY <1>0 DEF BootWithoutConfig, managerVars, configVars
  <2>2. boot' \in BootPhases
    BY <1>0 DEF BootWithoutConfig, BootPhases
  <2> QED
    BY <1>b, <1>d, <2>1, <2>2 DEF Typed, TypeOK, Filled
<1>1. CASE BootLoad
  <2>1. ConfigTypeOK'
    BY <1>1, <1>b, ConfigTypeLoad DEF BootLoad, TypeOK
  <2>2. boot' \in BootPhases
    BY <1>1 DEF BootLoad, BootPhases
  <2>3. UNCHANGED <<registry, pc, topic, row, index, offset, exists,
                    ports, users, account, listed>>
    BY <1>1 DEF BootLoad, locals
  <2> QED
    BY <2>1, <2>2, <2>3 DEF Typed, TypeOK, Filled
<1>2. CASE BootCheck
  BY <1>2, <1>a, <1>b, <1>c, ProgramTypeStays, TypedCall DEF BootCheck
<1>3. CASE BootChecked
  <2>1. boot' \in BootPhases
    BY <1>3 DEF BootChecked, BootPhases
  <2>2. ports' \in [Ports -> Uint16s]
    BY <1>3, <1>b, <1>e DEF BootChecked, TypeOK
  <2>3. ProgramTypeOK'
    BY <1>3, <1>b, <1>d, <2>1, <2>2 DEF BootChecked, ProgramTypeOK, TypeOK
  <2> QED
    BY <1>3, <1>a, <2>3, TypedReturn DEF BootChecked
<1>4. CASE BootCreate
  BY <1>4, <1>a, <1>b, <1>c, ProgramTypeStays, TypedCall DEF BootCreate
<1>5. CASE BootCreated
  <2>1. boot' \in BootPhases
    BY <1>5 DEF BootCreated, BootPhases
  <2>2. ProgramTypeOK'
    BY <1>5, <1>b, <1>d, <2>1 DEF BootCreated, ProgramTypeOK, TypeOK
  <2> QED
    BY <1>5, <1>a, <2>2, TypedReturn DEF BootCreated
<1>6. CASE BootAdmin
  BY <1>6, <1>a, TypedBeginInsert DEF BootAdmin
<1>7. CASE BootServe
  <2>1. boot' \in BootPhases
    BY <1>7 DEF BootServe, BootPhases
  <2>2. ports' \in [Ports -> Uint16s]
    BY <1>7, <1>e DEF BootServe
  <2> QED
    BY <1>7, <2>1, <2>2, <1>a, TypedPushUser DEF BootServe
<1> QED
  BY <1>0, <1>1, <1>2, <1>3, <1>4, <1>5, <1>6, <1>7 DEF Boot

LEMMA TypedRequest ==
  ASSUME Typed, NEW s \in Shards,
         \/ \E a \in Accounts : PostUser(s, a)
         \/ PostUserDone(s)
         \/ GetUsers(s)
         \/ GetUsersDone(s)
  PROVE  Typed'
<1>1. CASE \E a \in Accounts : PostUser(s, a)
  BY <1>1, TypedBeginInsert DEF PostUser
<1>2. CASE PostUserDone(s)
  <2>1. boot' \in BootPhases /\ ports' \in [Ports -> Uint16s]
    BY <1>2 DEF PostUserDone, Typed, TypeOK
  <2> QED
    BY <1>2, <2>1, TypedPushUser DEF PostUserDone
<1>3. CASE GetUsers(s)
  <2>1. ConfigTypeOK'
    BY <1>3, ConfigTypeStays DEF GetUsers, Typed, TypeOK
  <2> QED
    BY <1>3, <2>1 DEF GetUsers, GoTo, Typed, TypeOK, Filled, locals, PCs
<1>4. CASE GetUsersDone(s)
  <2>1. ConfigTypeOK'
    BY <1>4, ConfigTypeStays DEF GetUsersDone, Typed, TypeOK
  <2> QED
    BY <1>4, <2>1 DEF GetUsersDone, GoTo, Typed, TypeOK, Filled, locals, PCs
<1> QED
  BY <1>1, <1>2, <1>3, <1>4

LEMMA TypedNext == Typed /\ [Next]_vars => Typed'
<1> SUFFICES ASSUME Typed, [Next]_vars PROVE Typed'
  OBVIOUS
<1>1. CASE Boot
  BY <1>1, TypedBoot
<1>2. ASSUME NEW s \in Shards, Work(s) PROVE Typed'
  BY <1>2, TypedManagerStep, TypedRequest DEF Work
<1>3. ASSUME NEW s \in Shards, \/ \E a \in Accounts : PostUser(s, a)
                              \/ GetUsers(s)
      PROVE  Typed'
  BY <1>3, TypedRequest
<1>4. CASE UNCHANGED vars
  <2>1. ProgramTypeOK'
    BY <1>4, ProgramTypeStays DEF vars, Typed
  <2> QED
    BY <1>4, <2>1 DEF vars, managerVars, ProgramTypeOK, Typed, TypeOK, Filled
<1> QED
  BY <1>1, <1>2, <1>3, <1>4 DEF Next

(* Every variable has its type, an operation under way has its topic, and  *)
(* the row it is about to insert or to write back is one that was made or  *)
(* copied: no operation uses a topic or a row before it was given one.     *)
THEOREM TypeCorrect == Spec => [](TypeOK /\ Filled)
<1>1. Typed => TypeOK /\ Filled
  BY DEF Typed
<1> QED
  BY TypedInit, TypedNext, <1>1, PTL DEF Spec

-----------------------------------------------------------------------------
(* The shape of the registry. The four rows the program ever makes, in the *)
(* order in which start-up makes them: __users is created by initialize,   *)
(* __user by the insert of the first account.                              *)

Rows == <<NewRow(UsersTopic, "start", DefaultPartitionCount),
          NewRow(UsersTopic, "end", DefaultPartitionCount),
          NewRow(UserOffsets, "start", DefaultPartitionCount),
          NewRow(UserOffsets, "end", DefaultPartitionCount)>>

(* They are what they are from the moment the configuration is loaded.     *)
LEMMA RowsStay == UNCHANGED configVars => UNCHANGED Rows
  BY DEF Rows, NewRow, nodeId, DefaultPartitionCount, configVars

Registered ==
  \A i \in 1 .. Len(registry) : i <= 4 /\ SameKey(registry[i], Rows[i])

(* Where start-up has come to determines how many rows there are; a shard  *)
(* other than the main one does nothing before the servers listen, and     *)
(* from then on no operation creates a topic.                              *)
Quiet == \A s \in Shards \ {MainShard} : pc[s] = "idle"

LoadPhase ==
  /\ Quiet
  /\ Len(registry) = 0
  /\ pc[MainShard] = "idle"
  /\ ~exists[MainShard]

CheckPhase ==
  /\ Quiet
  /\ Len(registry) = 0
  /\ pc[MainShard] \in {"idle", "exists", "returned"}
  /\ pc[MainShard] # "idle" => topic[MainShard] = UsersTopic
  /\ ~exists[MainShard]

CreatePhase ==
  /\ Quiet
  /\ \/ Len(registry) = 0 /\ pc[MainShard] \in {"idle", "createStart"}
     \/ Len(registry) = 1 /\ pc[MainShard] = "createEnd" /\ row[MainShard] = Rows[2]
     \/ Len(registry) = 2 /\ pc[MainShard] = "returned"
  /\ pc[MainShard] # "idle" => topic[MainShard] = UsersTopic

AdminPhase ==
  /\ Quiet
  /\ \/ Len(registry) = 2 /\ pc[MainShard] \in {"idle", "search", "createStart"}
     \/ Len(registry) = 3 /\ pc[MainShard] = "createEnd" /\ row[MainShard] = Rows[4]
     \/ Len(registry) = 4 /\ pc[MainShard] = "returned"
  /\ pc[MainShard] # "idle" => topic[MainShard] = UserOffsets

ServingPhase ==
  /\ Len(registry) = 4
  /\ \A s \in Shards :
       /\ pc[s] \in {"idle", "listing", "search", "index", "update", "returned"}
       /\ pc[s] \notin {"idle", "listing"} => topic[s] = UserOffsets
       /\ pc[s] \in {"index", "update"} => SameKey(row[s], Rows[4])
       /\ pc[s] = "update" => index[s] = 4

Shape ==
  /\ Registered
  /\ boot \in {"load", "ended"} => LoadPhase
  /\ boot = "check" => CheckPhase
  /\ boot = "create" => CreatePhase
  /\ boot = "admin" => AdminPhase
  /\ boot = "serving" => ServingPhase

(* No two of the four rows have the same key. *)
LEMMA RowKeys ==
  /\ \A i \in 1 .. 4 : /\ Rows[i].nodeId = nodeId
                       /\ Rows[i].partition = Uint8(DefaultPartitionCount)
  /\ Rows[1].topic = UsersTopic /\ Rows[1].type = "start"
  /\ Rows[2].topic = UsersTopic /\ Rows[2].type = "end"
  /\ Rows[3].topic = UserOffsets /\ Rows[3].type = "start"
  /\ Rows[4].topic = UserOffsets /\ Rows[4].type = "end"
  /\ UsersTopic # UserOffsets
  BY UserTopicAssumption DEF Rows, NewRow

(* The keys, with the rows out of sight. *)
LEMMA RegisteredKeys ==
  ASSUME Registered, NEW i \in 1 .. Len(registry), registry \in Seq(OffsetRow)
  PROVE  /\ i \in 1 .. 4
         /\ i \in {1, 2} => registry[i].topic = UsersTopic
         /\ i \in {3, 4} => registry[i].topic = UserOffsets
         /\ i \in {1, 3} => registry[i].type = "start"
         /\ i \in {2, 4} => registry[i].type = "end"
         /\ registry[i].nodeId = nodeId
         /\ registry[i].partition = Uint8(DefaultPartitionCount)
<1>1. i \in 1 .. 4 /\ SameKey(registry[i], Rows[i])
  BY DEF Registered
<1>2. i = 1 \/ i = 2 \/ i = 3 \/ i = 4
  BY <1>1
<1> QED
  BY <1>1, <1>2, RowKeys DEF SameKey

LEMMA RegisteredOneRowPerKey ==
  ASSUME Registered, registry \in Seq(OffsetRow)
  PROVE  OneRowPerKey
<1> SUFFICES ASSUME NEW i \in 1 .. Len(registry), NEW j \in 1 .. Len(registry),
                    SameKey(registry[i], registry[j])
             PROVE  i = j
  BY DEF OneRowPerKey
<1>1. registry[i].topic = registry[j].topic /\ registry[i].type = registry[j].type
  BY DEF SameKey
<1>2. /\ i \in 1 .. 4 /\ j \in 1 .. 4
      /\ UsersTopic # UserOffsets
  BY RegisteredKeys, UserTopicAssumption
<1>3. (i \in {1, 2} /\ j \in {1, 2}) \/ (i \in {3, 4} /\ j \in {3, 4})
  BY <1>1, <1>2, RegisteredKeys
<1>4. (i \in {1, 3} /\ j \in {1, 3}) \/ (i \in {2, 4} /\ j \in {2, 4})
  BY <1>1, <1>2, RegisteredKeys
<1> QED
  BY <1>3, <1>4

(* What the searches find in a registry of that shape. *)
LEMMA SearchBeforeCreation ==
  ASSUME Registered, registry \in Seq(OffsetRow), Len(registry) = 2
  PROVE  SearchByCriteriaVector(UserOffsets, nodeId, "end") = {}
<1>1. \A i \in 1 .. Len(registry) : registry[i].topic # UserOffsets
  <2> SUFFICES ASSUME NEW i \in 1 .. Len(registry) PROVE registry[i].topic # UserOffsets
    OBVIOUS
  <2>1. i \in {1, 2}
    OBVIOUS
  <2> QED
    BY <2>1, RegisteredKeys, UserTopicAssumption
<1>2. \A i \in 1 .. Len(registry) : registry[i].nodeId = nodeId
  BY RegisteredKeys
<1> QED
  BY <1>1, <1>2, VectorSearchIsExact

LEMMA SearchAfterCreation ==
  ASSUME Registered, registry \in Seq(OffsetRow), Len(registry) = 4
  PROVE  /\ SearchByCriteriaVector(UserOffsets, nodeId, "end") = {4}
         /\ Max({4}) = 4
<1>1. \A i \in 1 .. Len(registry) :
        (registry[i].topic = UserOffsets /\ registry[i].type = "end") <=> i = 4
  <2> SUFFICES ASSUME NEW i \in 1 .. Len(registry)
               PROVE  (registry[i].topic = UserOffsets /\ registry[i].type = "end") <=> i = 4
    OBVIOUS
  <2>1. i = 1 \/ i = 2 \/ i = 3 \/ i = 4
    OBVIOUS
  <2> QED
    BY <2>1, RegisteredKeys, UserTopicAssumption
<1>2. \A i \in 1 .. Len(registry) : registry[i].nodeId = nodeId
  BY RegisteredKeys
<1>3. SearchByCriteriaVector(UserOffsets, nodeId, "end") = {4}
  BY <1>1, <1>2, VectorSearchIsExact
<1>4. Max({4}) = 4
  BY MaxIsGreatest, {4} \in SUBSET (0 .. 4), 4 \in Nat
<1> QED
  BY <1>3, <1>4

LEMMA IndexOfCopy ==
  ASSUME Registered, registry \in Seq(OffsetRow), Len(registry) = 4,
         NEW r, SameKey(r, Rows[4])
  PROVE  SearchForIndex(r) = 4
<1>1. SameKey(registry[4], Rows[4])
  BY DEF Registered
<1>2. SameKey(registry[4], r)
  BY <1>1 DEF SameKey
<1>3. SearchForIndex(r) # NotFound
  BY <1>2, SearchForIndexIsFirst
<1>4. SearchForIndex(r) \in 1 .. Len(registry) /\ SameKey(registry[SearchForIndex(r)], r)
  BY <1>3, SearchForIndexIsFirst DEF NotFound
<1>5. SameKey(registry[SearchForIndex(r)], registry[4])
  BY <1>2, <1>4 DEF SameKey
<1> QED
  BY <1>4, <1>5, RegisteredOneRowPerKey DEF OneRowPerKey

-----------------------------------------------------------------------------
(* The invariant, and that every step keeps it.                            *)

IInv == Typed /\ Shape

LEMMA ShapeInit == Init => Shape
  BY UserTopicAssumption
     DEF Init, ManagerInit, Shape, Registered, LoadPhase, Quiet

LEMMA AppendedRow ==
  ASSUME registry \in Seq(OffsetRow), NEW r
  PROVE  /\ Len(Append(registry, r)) = Len(registry) + 1
         /\ Append(registry, r)[Len(registry) + 1] = r
<1> DEFINE longer == Append(registry, r)
<1>1. Len(longer) = Len(registry) + 1
  OBVIOUS
<1>2. \A i \in 1 .. Len(longer) :
        longer[i] = IF i = Len(registry) + 1 THEN r ELSE registry[i]
  OBVIOUS
<1> QED
  BY <1>1, <1>2

(* A row inserted by start-up is the next of the four. *)
LEMMA InsertNextRow ==
  ASSUME Registered, registry \in Seq(OffsetRow), NEW r, Insert(r),
         UNCHANGED configVars, Len(registry) < 4, r = Rows[Len(registry) + 1]
  PROVE  Registered' /\ Len(registry)' = Len(registry) + 1
<1>1. registry' = Append(registry, r)
  BY DEF Insert
<1>2. Len(registry') = Len(registry) + 1
  BY <1>1
<1>3. \A i \in 1 .. Len(registry') :
        registry'[i] = IF i = Len(registry) + 1 THEN r ELSE registry[i]
  BY <1>1
<1>4. \A i \in 1 .. Len(registry') : i <= 4 /\ SameKey(registry'[i], Rows[i])
  <2> SUFFICES ASSUME NEW i \in 1 .. Len(registry')
               PROVE  i <= 4 /\ SameKey(registry'[i], Rows[i])
    OBVIOUS
  <2>1. CASE i = Len(registry) + 1
    BY <1>2, <1>3, <2>1 DEF SameKey
  <2>2. CASE i # Len(registry) + 1
    BY <1>2, <1>3, <2>2 DEF Registered
  <2> QED
    BY <2>1, <2>2
<1>5. Rows' = Rows
  BY RowsStay
<1> QED
  BY <1>2, <1>4, <1>5 DEF Registered, SameKey

(* The main shard on the way to serving. *)
LEMMA ShapeMainStep ==
  ASSUME IInv, boot # "serving", ManagerStep(MainShard), UNCHANGED userVars
  PROVE  Shape'
<1>a. /\ registry \in Seq(OffsetRow) /\ pc \in [Shards -> PCs \cup {"listing"}]
      /\ exists \in [Shards -> BOOLEAN] /\ row \in [Shards -> OffsetRow \cup {NoRow}]
      /\ boot \in BootPhases /\ boot' = boot /\ MainShard \in Shards
  BY UserTopicAssumption DEF IInv, Typed, TypeOK, userVars
<1>b. Registered /\ Quiet
  BY <1>a DEF IInv, Shape, LoadPhase, CheckPhase, CreatePhase, AdminPhase, BootPhases
<1>c. UNCHANGED configVars /\ Rows' = Rows
  BY RowsStay DEF userVars
<1>d. boot \in {"load", "ended"} => pc[MainShard] = "idle"
  BY DEF IInv, Shape, LoadPhase
<1>1. CASE CheckTopicExists(MainShard)
  <2>1. boot = "check" /\ Len(registry) = 0
    BY <1>1, <1>a, <1>d DEF CheckTopicExists, IInv, Shape, CheckPhase,
                          CreatePhase, AdminPhase, BootPhases
  <2>2. SearchByName(topic[MainShard]) = {}
    BY <2>1, <1>a DEF SearchByName
  <2>3. /\ exists' = [exists EXCEPT ![MainShard] = FALSE]
        /\ pc' = [pc EXCEPT ![MainShard] = "returned"]
        /\ UNCHANGED <<registry, topic>>
    BY <1>1, <2>2 DEF CheckTopicExists, GoTo
  <2>t. topic[MainShard] = UsersTopic
    BY <1>1, <2>1 DEF CheckTopicExists, IInv, Shape, CheckPhase
  <2>4. CheckPhase' /\ Registered'
    BY <1>a, <1>b, <1>c, <2>1, <2>3, <2>t DEF CheckPhase, Quiet, Registered, SameKey
  <2> QED
    BY <1>a, <2>1, <2>4 DEF Shape
<1>2. CASE CreateStart(MainShard)
  <2>1. /\ pc[MainShard] = "createStart"
        /\ Insert(NewRow(topic[MainShard], "start", DefaultPartitionCount))
        /\ row' = [row EXCEPT ![MainShard] =
                     NewRow(topic[MainShard], "end", DefaultPartitionCount)]
        /\ pc' = [pc EXCEPT ![MainShard] = "createEnd"]
        /\ topic' = topic
    BY <1>2 DEF CreateStart, GoTo
  <2>2. \/ boot = "create" /\ Len(registry) = 0 /\ topic[MainShard] = UsersTopic
        \/ boot = "admin" /\ Len(registry) = 2 /\ topic[MainShard] = UserOffsets
    BY <2>1, <1>a, <1>d DEF IInv, Shape, CheckPhase, CreatePhase, AdminPhase, BootPhases
  <2>3. /\ NewRow(topic[MainShard], "start", DefaultPartitionCount) = Rows[Len(registry) + 1]
        /\ NewRow(topic[MainShard], "end", DefaultPartitionCount) = Rows[Len(registry) + 2]
        /\ Len(registry) < 4
    <3>1. CASE Len(registry) = 0 /\ topic[MainShard] = UsersTopic
      BY <3>1 DEF Rows
    <3>2. CASE Len(registry) = 2 /\ topic[MainShard] = UserOffsets
      BY <3>2 DEF Rows
    <3> QED
      BY <2>2, <3>1, <3>2
  <2>4. Registered' /\ Len(registry)' = Len(registry) + 1
    BY <1>a, <1>b, <1>c, <2>1, <2>3, InsertNextRow
  <2>5. Quiet' /\ pc'[MainShard] = "createEnd" /\ topic' = topic
    BY <1>a, <1>b, <2>1 DEF Quiet
  <2>r. row'[MainShard] = Rows[Len(registry) + 2]
    BY <1>a, <2>1, <2>3
  <2>6. CASE boot = "create"
    <3>1. Len(registry) = 0
      BY <2>2, <2>6
    <3>2. Len(registry)' = 1
      BY <1>a, <2>4, <3>1
    <3>3. topic[MainShard] = UsersTopic
      BY <2>2, <2>6
    <3>r. row'[MainShard] = Rows'[2]
      <4>1. Len(registry) + 2 = 2
        BY <3>1
      <4> QED
        BY <1>c, <2>r, <4>1, Zenon
    <3>4. CreatePhase'
      BY <2>5, <3>2, <3>3, <3>r DEF CreatePhase
    <3> QED
      BY <1>a, <2>4, <2>6, <3>4 DEF Shape
  <2>7. CASE boot = "admin"
    <3>1. Len(registry) = 2
      BY <2>2, <2>7
    <3>2. Len(registry)' = 3
      BY <1>a, <2>4, <3>1
    <3>3. topic[MainShard] = UserOffsets
      BY <2>2, <2>7
    <3>r. row'[MainShard] = Rows'[4]
      <4>1. Len(registry) + 2 = 4
        BY <3>1
      <4> QED
        BY <1>c, <2>r, <4>1, Zenon
    <3>4. AdminPhase'
      BY <2>5, <3>2, <3>3, <3>r DEF AdminPhase
    <3> QED
      BY <1>a, <2>4, <2>7, <3>4 DEF Shape
  <2> QED
    BY <2>2, <2>6, <2>7
<1>3. CASE CreateEnd(MainShard)
  <2>1. /\ pc[MainShard] = "createEnd"
        /\ Insert(row[MainShard])
        /\ pc' = [pc EXCEPT ![MainShard] = "returned"]
        /\ UNCHANGED locals
    BY <1>3 DEF CreateEnd, GoTo
  <2>2. \/ /\ boot = "create" /\ Len(registry) = 1
           /\ topic[MainShard] = UsersTopic /\ row[MainShard] = Rows[2]
        \/ /\ boot = "admin" /\ Len(registry) = 3
           /\ topic[MainShard] = UserOffsets /\ row[MainShard] = Rows[4]
    BY <2>1, <1>a, <1>d DEF IInv, Shape, CheckPhase, CreatePhase, AdminPhase, BootPhases
  <2>3. row[MainShard] = Rows[Len(registry) + 1] /\ Len(registry) < 4
    <3>1. CASE Len(registry) = 1 /\ row[MainShard] = Rows[2]
      BY <3>1
    <3>2. CASE Len(registry) = 3 /\ row[MainShard] = Rows[4]
      BY <3>2
    <3> QED
      BY <2>2, <3>1, <3>2
  <2>4. Registered' /\ Len(registry)' = Len(registry) + 1
    BY <1>a, <1>b, <1>c, <2>1, <2>3, InsertNextRow
  <2>5. Quiet' /\ pc'[MainShard] = "returned" /\ topic' = topic
    BY <1>a, <1>b, <2>1 DEF Quiet, locals
  <2>6. CASE boot = "create"
    <3>1. Len(registry) = 1
      BY <2>2, <2>6
    <3>2. Len(registry)' = 2
      BY <1>a, <2>4, <3>1
    <3>3. topic[MainShard] = UsersTopic
      BY <2>2, <2>6
    <3>4. CreatePhase'
      BY <2>5, <3>2, <3>3 DEF CreatePhase
    <3> QED
      BY <1>a, <2>4, <2>6, <3>4 DEF Shape
  <2>7. CASE boot = "admin"
    <3>1. Len(registry) = 3
      BY <2>2, <2>7
    <3>2. Len(registry)' = 4
      BY <1>a, <2>4, <3>1
    <3>3. topic[MainShard] = UserOffsets
      BY <2>2, <2>7
    <3>4. AdminPhase'
      BY <2>5, <3>2, <3>3 DEF AdminPhase
    <3> QED
      BY <1>a, <2>4, <2>7, <3>4 DEF Shape
  <2> QED
    BY <2>2, <2>6, <2>7
<1>4. CASE SearchEnd(MainShard)
  <2>1. pc[MainShard] = "search"
    BY <1>4 DEF SearchEnd
  <2>2. boot = "admin" /\ Len(registry) = 2 /\ topic[MainShard] = UserOffsets
    BY <2>1, <1>a, <1>d DEF IInv, Shape, CheckPhase, CreatePhase, AdminPhase, BootPhases
  <2>3. SearchByCriteriaVector(topic[MainShard], nodeId, "end") = {}
    BY <1>a, <1>b, <2>2, SearchBeforeCreation
  <2>4. /\ pc' = [pc EXCEPT ![MainShard] = "createStart"]
        /\ UNCHANGED <<registry, topic>>
    BY <1>4, <2>3 DEF SearchEnd, GoTo
  <2>5. AdminPhase' /\ Registered'
    BY <1>a, <1>b, <1>c, <2>2, <2>4 DEF AdminPhase, Quiet, Registered, SameKey
  <2> QED
    BY <1>a, <2>2, <2>5 DEF Shape
<1>5. CASE FindIndex(MainShard) \/ UpdateEnd(MainShard)
  <2>1. pc[MainShard] \in {"index", "update"}
    BY <1>5 DEF FindIndex, UpdateEnd
  <2> QED
    BY <2>1, <1>a, <1>d DEF IInv, Shape, CheckPhase, CreatePhase, AdminPhase, BootPhases
<1> QED
  BY <1>1, <1>2, <1>3, <1>4, <1>5 DEF ManagerStep

(* The other steps of start-up. *)
LEMMA ShapeBoot == IInv /\ Boot => Shape'
<1> SUFFICES ASSUME IInv, Boot PROVE Shape'
  OBVIOUS
<1>a. /\ pc \in [Shards -> PCs \cup {"listing"}] /\ topic \in [Shards -> Topics \cup {NoTopic}]
      /\ exists \in [Shards -> BOOLEAN] /\ MainShard \in Shards
  BY UserTopicAssumption DEF IInv, Typed, TypeOK
<1>b. UNCHANGED <<configVars, registry>> => (Registered => Registered')
  BY RowsStay DEF Registered, SameKey
<1>e. CASE BootWithoutConfig
  <2>1. /\ boot = "load" /\ boot' = "ended"
        /\ UNCHANGED <<configVars, registry, pc, exists>>
    BY <1>e DEF BootWithoutConfig, managerVars
  <2>2. LoadPhase'
    BY <2>1 DEF IInv, Shape, LoadPhase, Quiet
  <2> QED
    BY <1>b, <2>1, <2>2 DEF IInv, Shape
<1>0. CASE BootLoad
  <2>1. /\ boot = "load" /\ boot' = "check"
        /\ UNCHANGED <<registry, pc, exists>>
    BY <1>0 DEF BootLoad, locals
  <2>2. LoadPhase /\ Len(registry') = 0
    BY <2>1 DEF IInv, Shape, LoadPhase
  <2>3. CheckPhase' /\ Registered'
    BY <2>1, <2>2 DEF LoadPhase, CheckPhase, Quiet, Registered
  <2> QED
    BY <2>1, <2>3 DEF Shape
<1>1. CASE BootCheck
  <2>1. /\ boot = "check" /\ boot' = "check"
        /\ pc' = [pc EXCEPT ![MainShard] = "exists"]
        /\ topic' = [topic EXCEPT ![MainShard] = UsersTopic]
        /\ UNCHANGED <<configVars, registry, exists>>
    BY <1>1 DEF BootCheck, Call, GoTo, userVars
  <2>2. CheckPhase'
    BY <1>a, <2>1 DEF IInv, Shape, CheckPhase, Quiet
  <2> QED
    BY <1>b, <2>1, <2>2 DEF IInv, Shape
<1>2. CASE BootChecked
  <2>1. /\ boot = "check"
        /\ pc' = [pc EXCEPT ![MainShard] = "idle"]
        /\ boot' = IF exists[MainShard] THEN "serving" ELSE "create"
        /\ UNCHANGED <<configVars, registry>>
    BY <1>2 DEF BootChecked, Return, GoTo
  <2>2. boot' = "create" /\ CreatePhase'
    BY <1>a, <2>1 DEF IInv, Shape, CheckPhase, CreatePhase, Quiet
  <2> QED
    BY <1>b, <2>1, <2>2 DEF IInv, Shape
<1>3. CASE BootCreate
  <2>1. /\ boot = "create" /\ boot' = "create" /\ pc[MainShard] = "idle"
        /\ pc' = [pc EXCEPT ![MainShard] = "createStart"]
        /\ topic' = [topic EXCEPT ![MainShard] = UsersTopic]
        /\ UNCHANGED <<configVars, registry>>
    BY <1>3 DEF BootCreate, Call, GoTo, userVars
  <2>2. CreatePhase'
    BY <1>a, <2>1 DEF IInv, Shape, CreatePhase, Quiet
  <2> QED
    BY <1>b, <2>1, <2>2 DEF IInv, Shape
<1>4. CASE BootCreated
  <2>1. /\ boot = "create" /\ boot' = "admin" /\ pc[MainShard] = "returned"
        /\ pc' = [pc EXCEPT ![MainShard] = "idle"]
        /\ UNCHANGED <<configVars, registry>>
    BY <1>4 DEF BootCreated, Return, GoTo
  <2>2. AdminPhase'
    BY <1>a, <2>1 DEF IInv, Shape, CreatePhase, AdminPhase, Quiet
  <2> QED
    BY <1>b, <2>1, <2>2 DEF IInv, Shape
<1>5. CASE BootAdmin
  <2>1. /\ boot = "admin" /\ boot' = "admin" /\ pc[MainShard] = "idle"
        /\ pc' = [pc EXCEPT ![MainShard] = "search"]
        /\ topic' = [topic EXCEPT ![MainShard] = UserOffsets]
        /\ UNCHANGED <<configVars, registry>>
    BY <1>5 DEF BootAdmin, BeginInsert, Call, GoTo
  <2>2. AdminPhase'
    BY <1>a, <2>1 DEF IInv, Shape, AdminPhase, Quiet
  <2> QED
    BY <1>b, <2>1, <2>2 DEF IInv, Shape
<1>6. CASE BootServe
  <2>1. /\ boot = "admin" /\ boot' = "serving" /\ pc[MainShard] = "returned"
        /\ pc' = [pc EXCEPT ![MainShard] = "idle"]
        /\ UNCHANGED <<configVars, registry>>
    BY <1>6 DEF BootServe, PushUser, Return, GoTo
  <2>2. Len(registry) = 4 /\ \A s \in Shards : pc'[s] = "idle"
    BY <1>a, <2>1 DEF IInv, Shape, AdminPhase, Quiet
  <2>3. ServingPhase'
    BY <2>1, <2>2 DEF ServingPhase
  <2> QED
    BY <1>b, <2>1, <2>3 DEF IInv, Shape
<1> QED
  BY <1>e, <1>0, <1>1, <1>2, <1>3, <1>4, <1>5, <1>6 DEF Boot

(* Once the servers listen: no step makes a row, and each shard keeps its  *)
(* copy of the end row, and the position it writes it back to, right.      *)
LEMMA ShapeServing ==
  ASSUME IInv, boot = "serving", NEW s \in Shards,
         \/ ManagerStep(s) /\ UNCHANGED userVars
         \/ \E a \in Accounts : PostUser(s, a)
         \/ PostUserDone(s) \/ GetUsers(s) \/ GetUsersDone(s)
  PROVE  Shape'
<1>a. /\ registry \in Seq(OffsetRow) /\ pc \in [Shards -> PCs \cup {"listing"}]
      /\ topic \in [Shards -> Topics \cup {NoTopic}] /\ row \in [Shards -> OffsetRow \cup {NoRow}]
      /\ index \in [Shards -> Nat]
  BY DEF IInv, Typed, TypeOK
<1>b. Registered /\ ServingPhase
  BY DEF IInv, Shape
<1>c. boot' = "serving"
  BY DEF userVars, PostUser, PostUserDone, GetUsers, GetUsersDone
<1>d. Rows' = Rows
  BY RowsStay DEF userVars, PostUser, PostUserDone, GetUsers, GetUsersDone
<1>e. registry' = registry => Registered'
  BY <1>b, <1>d DEF Registered, SameKey
<1>f. SameKey(registry[4], Rows[4]) /\ Len(registry) = 4
  BY <1>b DEF Registered, ServingPhase
<1>1. CASE CheckTopicExists(s) \/ CreateStart(s) \/ CreateEnd(s)
  BY <1>1, <1>b DEF CheckTopicExists, CreateStart, CreateEnd, ServingPhase
<1>2. CASE SearchEnd(s)
  <2> DEFINE copy == [registry[4] EXCEPT !.offset = @ + 1]
  <2>1. pc[s] = "search" /\ topic[s] = UserOffsets
    BY <1>2, <1>b DEF SearchEnd, ServingPhase
  <2>2. /\ SearchByCriteriaVector(topic[s], nodeId, "end") = {4}
        /\ Max(SearchByCriteriaVector(topic[s], nodeId, "end")) = 4
    BY <1>a, <1>b, <1>f, <2>1, SearchAfterCreation
  <2>3. /\ row' = [row EXCEPT ![s] = copy]
        /\ pc' = [pc EXCEPT ![s] = "index"]
        /\ UNCHANGED <<registry, topic, index>>
    BY <1>2, <2>2 DEF SearchEnd, GoTo
  <2>4. registry[4] \in OffsetRow
    <3>1. 4 \in 1 .. Len(registry)
      BY <1>f
    <3> QED
      BY <1>a, <3>1
  <2>5. SameKey(copy, Rows[4])
    BY <1>f, <2>4 DEF SameKey, OffsetRow
  <2> HIDE DEF copy
  <2>6. ServingPhase'
    BY <1>a, <1>b, <1>d, <2>1, <2>3, <2>5 DEF ServingPhase, SameKey
  <2> QED
    BY <1>c, <1>e, <2>3, <2>6 DEF Shape
<1>3. CASE FindIndex(s)
  <2>1. pc[s] = "index" /\ SameKey(row[s], Rows[4])
    BY <1>3, <1>b DEF FindIndex, ServingPhase
  <2>2. SearchForIndex(row[s]) = 4
    BY <1>a, <1>b, <1>f, <2>1, IndexOfCopy
  <2>3. /\ index' = [index EXCEPT ![s] = 4]
        /\ pc' = [pc EXCEPT ![s] = "update"]
        /\ UNCHANGED <<registry, topic, row>>
    BY <1>3, <2>2 DEF FindIndex, GoTo
  <2>4. ServingPhase'
    BY <1>a, <1>b, <1>d, <2>1, <2>3 DEF ServingPhase, SameKey
  <2> QED
    BY <1>c, <1>e, <2>3, <2>4 DEF Shape
<1>4. CASE UpdateEnd(s)
  <2>1. pc[s] = "update" /\ SameKey(row[s], Rows[4]) /\ index[s] = 4
    BY <1>4, <1>b DEF UpdateEnd, ServingPhase
  <2>2. /\ registry' = [registry EXCEPT ![4] = row[s]]
        /\ pc' = [pc EXCEPT ![s] = "returned"]
        /\ UNCHANGED <<topic, row, index>>
    BY <1>4, <1>f, <2>1 DEF UpdateEnd, Update, GoTo
  <2>3. Len(registry') = 4
    BY <1>a, <1>f, <2>2
  <2>4. \A i \in 1 .. Len(registry') : i <= 4 /\ SameKey(registry'[i], Rows[i])
    <3> SUFFICES ASSUME NEW i \in 1 .. Len(registry')
                 PROVE  i <= 4 /\ SameKey(registry'[i], Rows[i])
      OBVIOUS
    <3>1. i \in 1 .. Len(registry) /\ i <= 4
      BY <1>f, <2>3
    <3>2. registry'[i] = IF i = 4 THEN row[s] ELSE registry[i]
      BY <1>a, <2>2, <3>1
    <3>3. CASE i = 4
      BY <2>1, <3>1, <3>2, <3>3
    <3>4. CASE i # 4
      BY <1>b, <3>1, <3>2, <3>4 DEF Registered
    <3> QED
      BY <3>3, <3>4
  <2>5. Registered'
    BY <1>d, <2>4 DEF Registered, SameKey
  <2>6. ServingPhase'
    BY <1>a, <1>b, <1>d, <2>1, <2>2, <2>3 DEF ServingPhase, SameKey
  <2> QED
    BY <1>c, <2>5, <2>6 DEF Shape
<1>5. CASE \E a \in Accounts : PostUser(s, a)
  <2>1. /\ pc[s] = "idle"
        /\ pc' = [pc EXCEPT ![s] = "search"]
        /\ topic' = [topic EXCEPT ![s] = UserOffsets]
        /\ UNCHANGED <<registry, row, index>>
    BY <1>5 DEF PostUser, BeginInsert, Call, GoTo
  <2>2. ServingPhase'
    BY <1>a, <1>b, <1>d, <2>1 DEF ServingPhase, SameKey
  <2> QED
    BY <1>c, <1>e, <2>1, <2>2 DEF Shape
<1>6. CASE PostUserDone(s)
  <2>1. /\ pc[s] = "returned"
        /\ pc' = [pc EXCEPT ![s] = "idle"]
        /\ topic' = [topic EXCEPT ![s] = NoTopic]
        /\ row' = [row EXCEPT ![s] = NoRow]
        /\ index' = [index EXCEPT ![s] = NotFound]
        /\ UNCHANGED registry
    BY <1>6 DEF PostUserDone, PushUser, Return, GoTo
  <2>2. ServingPhase'
    BY <1>a, <1>b, <1>d, <2>1 DEF ServingPhase, SameKey
  <2> QED
    BY <1>c, <1>e, <2>1, <2>2 DEF Shape
<1>7. CASE GetUsers(s) \/ GetUsersDone(s)
  <2>1. /\ pc' \in {[pc EXCEPT ![s] = "listing"], [pc EXCEPT ![s] = "idle"]}
        /\ UNCHANGED <<registry, topic, row, index>>
    BY <1>7 DEF GetUsers, GetUsersDone, GoTo, locals
  <2>2. ServingPhase'
    BY <1>a, <1>b, <1>d, <2>1 DEF ServingPhase, SameKey
  <2> QED
    BY <1>c, <1>e, <2>1, <2>2 DEF Shape
<1> QED
  BY <1>1, <1>2, <1>3, <1>4, <1>5, <1>6, <1>7 DEF ManagerStep

LEMMA IInvNext == IInv /\ [Next]_vars => IInv'
<1> SUFFICES ASSUME IInv, [Next]_vars PROVE Shape'
  BY TypedNext DEF IInv
<1>a. boot \in BootPhases /\ MainShard \in Shards
  BY UserTopicAssumption DEF IInv, Typed, TypeOK
<1>1. CASE Boot
  BY <1>1, ShapeBoot
<1>2. ASSUME NEW s \in Shards, Work(s) PROVE Shape'
  <2>1. CASE boot = "serving"
    BY <1>2, <2>1, ShapeServing DEF Work
  <2>2. CASE boot # "serving" /\ s = MainShard
    <3>1. pc[MainShard] # "listing"
      BY <1>a, <2>2 DEF IInv, Shape, LoadPhase, CheckPhase, CreatePhase, AdminPhase,
           BootPhases
    <3>2. ManagerStep(MainShard) /\ UNCHANGED userVars
      BY <1>2, <2>2, <3>1 DEF Work, PostUserDone, GetUsersDone
    <3> QED
      BY <2>2, <3>2, ShapeMainStep
  <2>3. CASE boot # "serving" /\ s # MainShard
    <3>1. pc[s] = "idle"
      BY <1>a, <2>3 DEF IInv, Shape, LoadPhase, CheckPhase, CreatePhase, AdminPhase, Quiet,
           BootPhases
    <3> QED
      BY <1>2, <3>1 DEF Work, ManagerStep, CheckTopicExists, CreateStart, CreateEnd,
           SearchEnd, FindIndex, UpdateEnd, PostUserDone, GetUsersDone
  <2> QED
    BY <2>1, <2>2, <2>3
<1>3. ASSUME NEW s \in Shards, \/ \E a \in Accounts : PostUser(s, a)
                              \/ GetUsers(s)
      PROVE  Shape'
  BY <1>3, ShapeServing DEF PostUser, GetUsers
<1>4. CASE UNCHANGED vars
  <2>1. Rows' = Rows
    BY <1>4, RowsStay DEF vars, userVars
  <2> QED
    BY <1>4, <2>1 DEF vars, managerVars, userVars, IInv, Shape, Registered, LoadPhase,
         CheckPhase, CreatePhase, AdminPhase, ServingPhase, Quiet, SameKey
<1> QED
  BY <1>1, <1>2, <1>3, <1>4 DEF Next

LEMMA Invariance == Spec => []IInv
<1>1. Init => IInv
  BY TypedInit, ShapeInit DEF IInv
<1> QED
  BY <1>1, IInvNext, PTL DEF Spec

(* However many shards there are and however their requests interleave,    *)
(* no topic is registered twice: createTopic's missing check is made up    *)
(* for by the order of start-up, which creates both topics before any      *)
(* server listens.                                                         *)
THEOREM OneRowPerKeyAlways == Spec => []OneRowPerKey
<1>1. IInv => OneRowPerKey
  BY RegisteredOneRowPerKey DEF IInv, Typed, TypeOK, Shape
<1> QED
  BY Invariance, <1>1, PTL

-----------------------------------------------------------------------------
(* The configuration the servers run on. After the load each setting that  *)
(* the file could give is what the file says, the default partition count  *)
(* is otherwise what the constructor made it, and nothing changes either.  *)

AsLoaded ==
  /\ config["defaultPartitionCount"] =
       IF "defaultPartitionCount" \in Loaded THEN configFile["defaultPartitionCount"] ELSE 0
  /\ \A p \in Ports \cap Loaded : config[p] = configFile[p]

Configured ==
  /\ boot = "load" => config["defaultPartitionCount"] = 0
  /\ boot \notin {"load", "ended"} => AsLoaded
  /\ boot = "serving" => ports = PortsRead

(* A step that is not start-up's. *)
LEMMA RequestsLeaveBoot ==
  ASSUME [Next]_vars, ~Boot
  PROVE  UNCHANGED <<boot, ports>>
<1>1. ASSUME NEW s \in Shards, Work(s) PROVE UNCHANGED <<boot, ports>>
  BY <1>1 DEF Work, PostUserDone, GetUsersDone, userVars
<1>2. ASSUME NEW s \in Shards, \/ \E a \in Accounts : PostUser(s, a)
                              \/ GetUsers(s)
      PROVE  UNCHANGED <<boot, ports>>
  BY <1>2 DEF PostUser, GetUsers
<1>3. CASE UNCHANGED vars
  BY <1>3 DEF vars, userVars
<1> QED
  BY <1>1, <1>2, <1>3 DEF Next

LEMMA ConfiguredInit == Init => Configured
<1> SUFFICES ASSUME Init PROVE Configured
  OBVIOUS
<1>1. boot = "load" /\ ConfigInit
  BY DEF Init, ManagerInit
<1>2. config["defaultPartitionCount"] = 0
  BY <1>1, FieldNames DEF ConfigInit, Ports
<1> QED
  BY <1>1, <1>2 DEF Configured

(* Start-up reaches "serving" only by reading the ports. *)
LEMMA ConfiguredNext == Configured /\ [Next]_vars => Configured'
<1> SUFFICES ASSUME Configured, [Next]_vars PROVE Configured'
  OBVIOUS
<1>1. CASE BootLoad
  <2>1. /\ boot = "load" /\ boot' = "check"
        /\ config' = [f \in Fields |-> IF f \in Loaded THEN configFile[f] ELSE config[f]]
        /\ configFile' = configFile
    BY <1>1 DEF BootLoad, LoadConfig
  <2>2. Loaded' = Loaded
    BY <2>1 DEF Loaded
  <2>3. AsLoaded'
    BY <2>1, <2>2, FieldNames DEF Configured, AsLoaded, Ports
  <2> QED
    BY <2>1, <2>3 DEF Configured
<1>0. CASE boot' = "ended"
  BY <1>0 DEF Configured
<1>e. CASE boot = "ended"
  <2>1. ~Boot
    BY <1>e DEF Boot, BootWithoutConfig, BootLoad, BootCheck, BootChecked, BootCreate,
         BootCreated, BootAdmin, BootServe
  <2>2. boot' = "ended"
    BY <1>e, <2>1, RequestsLeaveBoot
  <2> QED
    BY <1>0, <2>2
<1>2. CASE boot \notin {"load", "ended"}
  <2>1. UNCHANGED configVars
    BY <1>2, OnlyLoadConfigures DEF BootLoad
  <2>2. AsLoaded' /\ PortsRead' = PortsRead
    BY <1>2, <2>1 DEF Configured, AsLoaded, Loaded, PortsRead, configVars
  <2>3. /\ boot' \notin {"load", "ended"}
        /\ \/ ports' = PortsRead
           \/ UNCHANGED <<boot, ports>>
           \/ boot' # "serving"
    <3>1. CASE Boot
      BY <1>2, <3>1 DEF Boot, BootWithoutConfig, BootLoad, BootCheck, BootChecked,
           BootCreate, BootCreated, BootAdmin, BootServe, userVars
    <3>2. CASE ~Boot
      BY <1>2, <3>2, RequestsLeaveBoot
    <3> QED
      BY <3>1, <3>2
  <2> QED
    BY <2>2, <2>3 DEF Configured
<1>3. CASE boot = "load" /\ ~BootLoad /\ ~BootWithoutConfig
  <2>1. UNCHANGED configVars
    BY <1>3, OnlyLoadConfigures
  <2>2. ~Boot
    BY <1>3 DEF Boot, BootCheck, BootChecked, BootCreate, BootCreated, BootAdmin, BootServe
  <2>3. UNCHANGED boot
    BY <2>2, RequestsLeaveBoot
  <2> QED
    BY <1>3, <2>1, <2>3 DEF Configured, configVars
<1>4. BootWithoutConfig => boot' = "ended"
  BY DEF BootWithoutConfig
<1> QED
  BY <1>0, <1>1, <1>2, <1>3, <1>4, <1>e

(* A number that fits its use is not changed by it. *)
LEMMA FittingNumbers ==
  /\ \A n \in 0 .. 255 : Uint8(n) = n
  /\ \A n \in Uint16s : Uint16(n) = n
  BY DEF Uint8, Uint16, Uint16s

(* However many shards there are, and whichever other settings the file    *)
(* lacks: when the servers listen, the partition count the file gives is   *)
(* that of every row and the ports it gives are those served, if the       *)
(* numbers fit.                                                            *)
THEOREM ServesAsConfiguredAlways == Spec => []ServesAsConfigured
<1>1. IInv /\ Configured => ServesAsConfigured
  <2> SUFFICES ASSUME IInv, Configured, boot = "serving"
               PROVE  ServesAsConfigured
    BY DEF ServesAsConfigured
  <2>1. AsLoaded /\ ports = PortsRead
    BY DEF Configured
  <2>2. \A i \in 1 .. Len(registry) : registry[i].partition = Uint8(DefaultPartitionCount)
    BY RegisteredKeys DEF IInv, Shape, Typed, TypeOK
  <2>3. ASSUME "defaultPartitionCount" \in Loaded,
               configFile["defaultPartitionCount"] \in 0 .. 255
        PROVE  Uint8(DefaultPartitionCount) = configFile["defaultPartitionCount"]
    <3>1. DefaultPartitionCount = configFile["defaultPartitionCount"]
      BY <2>1, <2>3, Zenon DEF AsLoaded, DefaultPartitionCount
    <3> QED
      BY <2>3, <3>1, FittingNumbers, Zenon
  <2>4. ASSUME NEW p \in Ports \cap Loaded, configFile[p] \in Uint16s
        PROVE  ports[p] = configFile[p]
    <3>1. ports[p] = Uint16(config[p]) /\ configFile[p] = config[p]
      BY <2>1 DEF AsLoaded, PortsRead
    <3> QED
      BY <2>4, <3>1, FittingNumbers, Zenon
  <2> QED
    BY <2>2, <2>3, <2>4 DEF ServesAsConfigured
<1>2. Init /\ [][Next]_vars => [](IInv /\ Configured)
  <2>1. Init => IInv
    BY TypedInit, ShapeInit DEF IInv
  <2> QED
    BY <2>1, IInvNext, ConfiguredInit, ConfiguredNext, PTL
<1> QED
  BY <1>1, <1>2, PTL DEF Spec

-----------------------------------------------------------------------------
(* Listings.                                                               *)

LEMMA ListingNext == Typed /\ ListingIsPrefix /\ [Next]_vars => ListingIsPrefix'
<1> SUFFICES ASSUME Typed, ListingIsPrefix, [Next]_vars PROVE ListingIsPrefix'
  OBVIOUS
<1>a. users \in Seq(User) /\ listed \in [Shards -> Seq(User)]
  BY DEF Typed, TypeOK
<1>1. CASE UNCHANGED listed /\ \E u : users' = Append(users, u)
  <2>1. PICK u : users' = Append(users, u)
    BY <1>1
  <2>2. \A s \in Shards : listed'[s] = listed[s] /\ Len(listed[s]) \in Nat
    BY <1>1, <1>a
  <2>3. Len(users') = Len(users) + 1 /\ \A i \in 1 .. Len(users) : users'[i] = users[i]
    BY <2>1, <1>a
  <2> QED
    BY <1>a, <2>2, <2>3 DEF ListingIsPrefix
<1>2. CASE UNCHANGED <<users, listed>>
  BY <1>2 DEF ListingIsPrefix
<1>3. ASSUME NEW s \in Shards, GetUsers(s) PROVE ListingIsPrefix'
  BY <1>3, <1>a DEF GetUsers, ListingIsPrefix
<1>4. ASSUME NEW s \in Shards, GetUsersDone(s) PROVE ListingIsPrefix'
  BY <1>4, <1>a DEF GetUsersDone, ListingIsPrefix
<1>5. CASE Boot
  BY <1>1, <1>2, <1>5 DEF Boot, BootWithoutConfig, BootLoad, BootCheck, BootChecked, BootCreate, BootCreated, BootAdmin,
       BootServe, PushUser, userVars
<1>6. ASSUME NEW s \in Shards, \/ ManagerStep(s) /\ UNCHANGED userVars
                              \/ PostUserDone(s)
                              \/ \E a \in Accounts : PostUser(s, a)
      PROVE  ListingIsPrefix'
  BY <1>1, <1>2, <1>6 DEF PostUserDone, PushUser, PostUser, userVars
<1>7. CASE UNCHANGED vars
  BY <1>2, <1>7 DEF vars, userVars
<1> QED
  BY <1>3, <1>4, <1>5, <1>6, <1>7 DEF Next, Work

(* What GET /users sends is a state the users were in, and stays the start *)
(* of what they become, for any number of shards inserting meanwhile.      *)
THEOREM ListingCorrect == Spec => []ListingIsPrefix
<1>1. Init => ListingIsPrefix
  BY DEF Init, ListingIsPrefix
<1> QED
  BY <1>1, TypedInit, TypedNext, ListingNext, PTL DEF Spec

-----------------------------------------------------------------------------
(* What the steps of an insert do to the offsets. Above, the steps and the *)
(* phases were about the keys of the rows; here, what is left to know of   *)
(* each is the offset it moves.                                            *)

Elsewhere(s) ==
  \A x \in Shards \ {s} :
    /\ pc'[x] = pc[x] /\ topic'[x] = topic[x]
    /\ row'[x] = row[x] /\ offset'[x] = offset[x]

(* A shard between two inserts. *)
Rests(s) ==
  /\ pc[s] \in {"idle", "listing"}
  /\ pc'[s] \in {"idle", "listing", "search"}
  /\ UNCHANGED <<registry, users>>

Copies(s) ==
  /\ pc[s] = "search" /\ pc'[s] = "index"
  /\ row'[s].offset = registry[4].offset + 1
  /\ UNCHANGED <<registry, users>>

Finds(s) ==
  /\ pc[s] = "index" /\ pc'[s] = "update"
  /\ row'[s] = row[s]
  /\ UNCHANGED <<registry, users>>

Writes(s) ==
  /\ pc[s] = "update" /\ pc'[s] = "returned"
  /\ topic'[s] = UserOffsets
  /\ offset'[s] = row[s].offset
  /\ Len(registry') = 4 /\ registry'[4].offset = row[s].offset
  /\ UNCHANGED users

Pushes(s) ==
  /\ pc[s] = "returned" /\ pc'[s] = "idle"
  /\ topic[s] = UserOffsets
  /\ users' = Append(users, [offset |-> offset[s], message |-> account[s]])
  /\ UNCHANGED registry

InsertStep(s) == Rests(s) \/ Copies(s) \/ Finds(s) \/ Writes(s) \/ Pushes(s)

LEMMA ServingEffects ==
  ASSUME IInv, boot = "serving", NEW s \in Shards,
         \/ ManagerStep(s) /\ UNCHANGED userVars
         \/ \E a \in Accounts : PostUser(s, a)
         \/ PostUserDone(s) \/ GetUsers(s) \/ GetUsersDone(s)
  PROVE  boot' = "serving" /\ Elsewhere(s) /\ InsertStep(s)
<1>a. /\ registry \in Seq(OffsetRow) /\ pc \in [Shards -> PCs \cup {"listing"}]
      /\ topic \in [Shards -> Topics \cup {NoTopic}] /\ row \in [Shards -> OffsetRow \cup {NoRow}]
      /\ index \in [Shards -> Nat] /\ offset \in [Shards -> Nat]
  BY DEF IInv, Typed, TypeOK
<1>b. Registered /\ ServingPhase
  BY DEF IInv, Shape
<1>c. boot' = "serving"
  BY DEF userVars, PostUser, PostUserDone, GetUsers, GetUsersDone
<1>1. CASE CheckTopicExists(s) \/ CreateStart(s) \/ CreateEnd(s)
  BY <1>1, <1>b DEF CheckTopicExists, CreateStart, CreateEnd, ServingPhase
<1>2. CASE SearchEnd(s) /\ UNCHANGED userVars
  <2> DEFINE copy == [registry[4] EXCEPT !.offset = @ + 1]
  <2>1. pc[s] = "search" /\ topic[s] = UserOffsets /\ Len(registry) = 4
    BY <1>2, <1>b DEF SearchEnd, ServingPhase
  <2>2. /\ SearchByCriteriaVector(topic[s], nodeId, "end") = {4}
        /\ Max(SearchByCriteriaVector(topic[s], nodeId, "end")) = 4
    BY <1>a, <1>b, <2>1, SearchAfterCreation
  <2>3. /\ row' = [row EXCEPT ![s] = copy]
        /\ pc' = [pc EXCEPT ![s] = "index"]
        /\ UNCHANGED <<registry, topic, offset>>
    BY <1>2, <2>2 DEF SearchEnd, GoTo
  <2>4. registry[4] \in OffsetRow
    <3>1. 4 \in 1 .. Len(registry)
      BY <2>1
    <3> QED
      BY <1>a, <3>1
  <2>5. copy.offset = registry[4].offset + 1
    BY <2>4 DEF OffsetRow
  <2> HIDE DEF copy
  <2>6. Copies(s) /\ Elsewhere(s)
    BY <1>2, <1>a, <2>1, <2>3, <2>5 DEF Copies, Elsewhere, userVars
  <2> QED
    BY <1>c, <2>6 DEF InsertStep
<1>3. CASE FindIndex(s) /\ UNCHANGED userVars
  <2>1. Finds(s) /\ Elsewhere(s)
    BY <1>3, <1>a DEF FindIndex, GoTo, Finds, Elsewhere, userVars
  <2> QED
    BY <1>c, <2>1 DEF InsertStep
<1>4. CASE UpdateEnd(s) /\ UNCHANGED userVars
  <2>1. pc[s] = "update" /\ index[s] = 4 /\ Len(registry) = 4 /\ topic[s] = UserOffsets
    BY <1>4, <1>b DEF UpdateEnd, ServingPhase
  <2>2. registry' = [registry EXCEPT ![4] = row[s]]
    BY <1>4, <2>1 DEF UpdateEnd, Update
  <2>3. Len(registry') = 4 /\ registry'[4] = row[s]
    BY <1>a, <2>1, <2>2
  <2>4. /\ pc' = [pc EXCEPT ![s] = "returned"]
        /\ offset' = [offset EXCEPT ![s] = row[s].offset]
        /\ UNCHANGED <<topic, row, users>>
    BY <1>4 DEF UpdateEnd, GoTo, userVars
  <2>5. Writes(s) /\ Elsewhere(s)
    BY <1>a, <2>1, <2>3, <2>4 DEF Writes, Elsewhere
  <2> QED
    BY <1>c, <2>5 DEF InsertStep
<1>5. CASE \E a \in Accounts : PostUser(s, a)
  <2>1. Rests(s) /\ Elsewhere(s)
    BY <1>5, <1>a DEF PostUser, BeginInsert, Call, GoTo, Rests, Elsewhere
  <2> QED
    BY <1>c, <2>1 DEF InsertStep
<1>6. CASE PostUserDone(s)
  <2>1. pc[s] = "returned" /\ topic[s] = UserOffsets
    BY <1>6, <1>b DEF PostUserDone, ServingPhase
  <2>2. Pushes(s) /\ Elsewhere(s)
    BY <1>6, <1>a, <2>1 DEF PostUserDone, PushUser, Return, GoTo, Pushes, Elsewhere
  <2> QED
    BY <1>c, <2>2 DEF InsertStep
<1>7. CASE GetUsers(s) \/ GetUsersDone(s)
  <2>1. Rests(s) /\ Elsewhere(s)
    BY <1>7, <1>a DEF GetUsers, GetUsersDone, GoTo, Rests, Elsewhere, locals
  <2> QED
    BY <1>c, <2>1 DEF InsertStep
<1> QED
  BY <1>1, <1>2, <1>3, <1>4, <1>5, <1>6, <1>7 DEF ManagerStep

(* Start-up: the administrator is inserted into a topic that has just been *)
(* created, which gives the offset 0, and it is the first user.            *)
Starting ==
  /\ boot # "serving" => users = << >>
  /\ boot = "admin" =>
       /\ pc[MainShard] \in {"createStart", "createEnd", "returned"} => offset[MainShard] = 0
       /\ Len(registry) = 4 => registry[4].offset = 0

(* Before the administrator's insert nothing is handed out. *)
Unprepared ==
  /\ pc[MainShard] # "idle" => topic[MainShard] = UsersTopic
  /\ pc[MainShard] \notin {"index", "update"}
  /\ Len(registry) # 4

Prepares ==
  /\ boot \in {"load", "check", "create"}
  /\ boot' \in {"load", "ended", "check", "create", "admin"}
  /\ boot' = "admin" => pc'[MainShard] = "idle"
  /\ Unprepared /\ Unprepared'
  /\ UNCHANGED users

AdminCalls ==
  /\ boot = "admin" /\ boot' = "admin"
  /\ pc[MainShard] = "idle" /\ pc'[MainShard] = "search"
  /\ Len(registry) # 4
  /\ UNCHANGED <<registry, users>>

AdminCreates ==
  /\ boot = "admin" /\ boot' = "admin"
  /\ pc[MainShard] = "search" /\ pc'[MainShard] = "createStart"
  /\ topic'[MainShard] = UserOffsets /\ offset'[MainShard] = 0
  /\ Len(registry) # 4
  /\ UNCHANGED <<registry, users>>

AdminInserts ==
  /\ boot = "admin" /\ boot' = "admin"
  /\ pc[MainShard] \in {"createStart", "createEnd"}
  /\ \/ pc'[MainShard] = "createEnd" /\ Len(registry') # 4
     \/ pc'[MainShard] = "returned" /\ Len(registry') = 4 /\ registry'[4].offset = 0
  /\ Len(registry) # 4
  /\ topic[MainShard] = UserOffsets /\ UNCHANGED <<topic, offset, users>>

AdminDone ==
  /\ boot = "admin" /\ boot' = "serving" /\ Len(registry) = 4
  /\ Pushes(MainShard)

StartStep == Prepares \/ AdminCalls \/ AdminCreates \/ AdminInserts \/ AdminDone

(* Which steps start-up takes in which phase follows from where the shape  *)
(* before and the shape after the step agree.                              *)
LEMMA StartEffects ==
  ASSUME IInv, IInv', boot # "serving",
         Boot \/ (ManagerStep(MainShard) /\ UNCHANGED userVars)
  PROVE  Elsewhere(MainShard) /\ StartStep
<1>a. /\ registry \in Seq(OffsetRow) /\ pc \in [Shards -> PCs \cup {"listing"}]
      /\ topic \in [Shards -> Topics \cup {NoTopic}] /\ row \in [Shards -> OffsetRow \cup {NoRow}]
      /\ offset \in [Shards -> Nat] /\ MainShard \in Shards
      /\ boot \in BootPhases /\ boot' \in BootPhases
  BY UserTopicAssumption DEF IInv, Typed, TypeOK
<1>b. Elsewhere(MainShard)
  <2>0. CASE BootWithoutConfig
    BY <2>0 DEF BootWithoutConfig, managerVars, Elsewhere
  <2>1. CASE BootLoad
    BY <2>1 DEF BootLoad, locals, Elsewhere
  <2>2. CASE BootCheck \/ BootCreate \/ BootAdmin
    BY <2>2, <1>a DEF BootCheck, BootCreate, BootAdmin, BeginInsert, Call, GoTo, Elsewhere
  <2>3. CASE BootChecked \/ BootCreated \/ BootServe
    BY <2>3, <1>a DEF BootChecked, BootCreated, BootServe, PushUser, Return, GoTo, Elsewhere
  <2>4. CASE CheckTopicExists(MainShard) \/ CreateStart(MainShard) \/ CreateEnd(MainShard)
    BY <2>4, <1>a DEF CheckTopicExists, CreateStart, CreateEnd, GoTo, locals, Elsewhere
  <2>5. CASE FindIndex(MainShard) \/ UpdateEnd(MainShard)
    BY <2>5, <1>a DEF FindIndex, UpdateEnd, GoTo, Elsewhere
  <2>6. CASE SearchEnd(MainShard)
    <3>1. /\ \E label : pc' = [pc EXCEPT ![MainShard] = label]
          /\ \E r : row' = [row EXCEPT ![MainShard] = r]
          /\ \E n : offset' = [offset EXCEPT ![MainShard] = n]
          /\ topic' = topic
      <4>1. row = [row EXCEPT ![MainShard] = row[MainShard]]
        BY <1>a
      <4>2. offset = [offset EXCEPT ![MainShard] = offset[MainShard]]
        BY <1>a
      <4> QED
        BY <2>6, <4>1, <4>2, Zenon DEF SearchEnd, GoTo
    <3> QED
      BY <1>a, <3>1 DEF Elsewhere
  <2> QED
    BY <2>0, <2>1, <2>2, <2>3, <2>4, <2>5, <2>6 DEF Boot, ManagerStep
<1>c. boot \in {"load", "check", "create"} => Unprepared
  <2>1. CASE boot = "load"
    BY <2>1 DEF IInv, Shape, LoadPhase, Unprepared
  <2>2. CASE boot = "check"
    BY <2>2 DEF IInv, Shape, CheckPhase, Unprepared
  <2>3. CASE boot = "create"
    <3>1. CreatePhase
      BY <2>3 DEF IInv, Shape
    <3>2. Len(registry) = 0 \/ Len(registry) = 1 \/ Len(registry) = 2
      BY <3>1 DEF CreatePhase
    <3>3. Len(registry) # 4
      <4>1. Len(registry) = 0 => Len(registry) # 4
        OBVIOUS
      <4>2. Len(registry) = 1 => Len(registry) # 4
        OBVIOUS
      <4>3. Len(registry) = 2 => Len(registry) # 4
        OBVIOUS
      <4> QED
        BY <3>2, <4>1, <4>2, <4>3
    <3> QED
      BY <3>1, <3>3 DEF CreatePhase, Unprepared
  <2> QED
    BY <2>1, <2>2, <2>3
<1>d. boot' \in {"load", "ended", "check", "create"} => Unprepared'
  <2>1. CASE boot' \in {"load", "ended"}
    BY <2>1 DEF IInv, Shape, LoadPhase, Unprepared
  <2>2. CASE boot' = "check"
    BY <2>2 DEF IInv, Shape, CheckPhase, Unprepared
  <2>3. CASE boot' = "create"
    <3>1. CreatePhase'
      BY <2>3 DEF IInv, Shape
    <3>2. Len(registry') = 0 \/ Len(registry') = 1 \/ Len(registry') = 2
      BY <3>1 DEF CreatePhase
    <3>3. Len(registry') # 4
      <4>1. Len(registry') = 0 => Len(registry') # 4
        OBVIOUS
      <4>2. Len(registry') = 1 => Len(registry') # 4
        OBVIOUS
      <4>3. Len(registry') = 2 => Len(registry') # 4
        OBVIOUS
      <4> QED
        BY <3>2, <4>1, <4>2, <4>3
    <3> QED
      BY <3>1, <3>3 DEF CreatePhase, Unprepared
  <2> QED
    BY <2>1, <2>2, <2>3
<1>e. boot' = "admin" /\ pc'[MainShard] = "idle" => Unprepared'
  <2> SUFFICES ASSUME boot' = "admin", pc'[MainShard] = "idle" PROVE Unprepared'
    OBVIOUS
  <2>1. AdminPhase'
    BY DEF IInv, Shape
  <2>2. Len(registry') = 2
    BY <2>1 DEF AdminPhase
  <2> QED
    BY <2>2 DEF Unprepared
<1>1. CASE boot \in {"load", "check", "create"}
  <2>1. /\ boot' \in {"load", "ended", "check", "create", "admin"}
        /\ boot' = "admin" => pc'[MainShard] = "idle"
        /\ UNCHANGED users
    <3>1. CASE BootChecked
      <4>1. boot' = "create"
        BY <3>1, <1>1 DEF BootChecked, IInv, Shape, CheckPhase
      <4> QED
        BY <3>1, <4>1 DEF BootChecked
    <3>2. CASE BootCreated
      BY <3>2, <1>a DEF BootCreated, Return, GoTo
    <3>3. CASE BootWithoutConfig \/ BootLoad \/ BootCheck \/ BootCreate \/ UNCHANGED userVars
      BY <3>3, <1>1 DEF BootWithoutConfig, BootLoad, BootCheck, BootCreate, userVars
    <3>4. CASE BootAdmin \/ BootServe
      BY <3>4, <1>1 DEF BootAdmin, BootServe
    <3> QED
      BY <3>1, <3>2, <3>3, <3>4 DEF Boot
  <2>2. Prepares
    BY <1>1, <1>c, <1>d, <1>e, <2>1 DEF Prepares
  <2> QED
    BY <1>b, <2>2 DEF StartStep
<1>2. CASE boot = "admin"
  <2>a. AdminPhase /\ Registered
    BY <1>2 DEF IInv, Shape
  <2>1. CASE BootAdmin
    <3>1. /\ pc[MainShard] = "idle" /\ pc' = [pc EXCEPT ![MainShard] = "search"]
          /\ UNCHANGED <<registry, users, boot>>
      BY <2>1 DEF BootAdmin, BeginInsert, Call, GoTo
    <3>2. Len(registry) = 2
      BY <2>a, <3>1 DEF AdminPhase
    <3>3. AdminCalls
      BY <1>2, <1>a, <3>1, <3>2 DEF AdminCalls
    <3> QED
      BY <1>b, <3>3 DEF StartStep
  <2>2. CASE BootServe
    <3>1. AdminDone
      BY <2>2, <2>a, <1>a DEF BootServe, PushUser, Return, GoTo, AdminPhase, AdminDone, Pushes
    <3> QED
      BY <1>b, <3>1 DEF StartStep
  <2>3. CASE BootWithoutConfig \/ BootLoad \/ BootCheck \/ BootChecked \/ BootCreate
             \/ BootCreated
    BY <1>2, <2>3 DEF BootWithoutConfig, BootLoad, BootCheck, BootChecked, BootCreate, BootCreated
  <2>4. CASE SearchEnd(MainShard) /\ UNCHANGED userVars
    <3>1. pc[MainShard] = "search" /\ Len(registry) = 2 /\ topic[MainShard] = UserOffsets
      BY <2>4, <2>a DEF SearchEnd, AdminPhase
    <3>2. SearchByCriteriaVector(topic[MainShard], nodeId, "end") = {}
      BY <1>a, <2>a, <3>1, SearchBeforeCreation
    <3>3. /\ pc' = [pc EXCEPT ![MainShard] = "createStart"]
          /\ offset' = [offset EXCEPT ![MainShard] = 0]
          /\ UNCHANGED <<registry, topic, users, boot>>
      BY <2>4, <3>2 DEF SearchEnd, GoTo, userVars
    <3>4. AdminCreates
      BY <1>2, <1>a, <3>1, <3>3 DEF AdminCreates
    <3> QED
      BY <1>b, <3>4 DEF StartStep
  <2>5. CASE CreateStart(MainShard) /\ UNCHANGED userVars
    <3>1. /\ pc[MainShard] = "createStart" /\ pc' = [pc EXCEPT ![MainShard] = "createEnd"]
          /\ UNCHANGED <<topic, offset, users, boot>>
      BY <2>5 DEF CreateStart, GoTo, userVars
    <3>2. Len(registry) = 2 /\ topic[MainShard] = UserOffsets
      BY <2>a, <3>1 DEF AdminPhase
    <3>3. pc'[MainShard] = "createEnd"
      BY <1>a, <3>1
    <3>4. Len(registry') = 3
      BY <1>2, <3>1, <3>3 DEF IInv, Shape, AdminPhase
    <3>5. AdminInserts
      BY <1>2, <3>1, <3>2, <3>3, <3>4 DEF AdminInserts
    <3> QED
      BY <1>b, <3>5 DEF StartStep
  <2>6. CASE CreateEnd(MainShard) /\ UNCHANGED userVars
    <3>1. /\ pc[MainShard] = "createEnd" /\ pc' = [pc EXCEPT ![MainShard] = "returned"]
          /\ registry' = Append(registry, row[MainShard])
          /\ UNCHANGED <<topic, offset, users, boot>>
      BY <2>6 DEF CreateEnd, Insert, GoTo, locals, userVars
    <3>2. Len(registry) = 3 /\ topic[MainShard] = UserOffsets /\ row[MainShard] = Rows[4]
      BY <2>a, <3>1 DEF AdminPhase
    <3>3. Rows[4].offset = 0
      BY DEF Rows, NewRow
    <3>4. Len(registry') = 4 /\ registry'[4] = row[MainShard]
      <4>1. Len(registry) = 3 /\ registry \in Seq(OffsetRow)
        BY <1>a, <3>2
      <4>2. registry' = Append(registry, row[MainShard])
        BY <3>1
      <4>3. Len(Append(registry, row[MainShard])) = 4
            /\ Append(registry, row[MainShard])[4] = row[MainShard]
        BY <4>1, AppendedRow
      <4> QED
        BY <4>2, <4>3
    <3>5. registry'[4].offset = 0
      BY <3>2, <3>3, <3>4
    <3>6. AdminInserts
      BY <1>2, <1>a, <3>1, <3>2, <3>4, <3>5 DEF AdminInserts
    <3> QED
      BY <1>b, <3>6 DEF StartStep
  <2>7. CASE CheckTopicExists(MainShard) \/ FindIndex(MainShard) \/ UpdateEnd(MainShard)
    BY <2>7, <2>a DEF CheckTopicExists, FindIndex, UpdateEnd, AdminPhase
  <2> QED
    BY <2>1, <2>2, <2>3, <2>4, <2>5, <2>6, <2>7 DEF Boot, ManagerStep
<1>3. CASE boot = "ended"
  <2>1. pc[MainShard] = "idle"
    BY <1>3 DEF IInv, Shape, LoadPhase
  <2>2. ~Boot
    BY <1>3 DEF Boot, BootWithoutConfig, BootLoad, BootCheck, BootChecked, BootCreate,
         BootCreated, BootAdmin, BootServe
  <2> QED
    BY <2>1, <2>2 DEF ManagerStep, CheckTopicExists, CreateStart, CreateEnd, SearchEnd,
         FindIndex, UpdateEnd
<1> QED
  BY <1>1, <1>2, <1>3, <1>a DEF BootPhases

(* Every step is one of these, or leaves all they speak of as it is.       *)
Idles == UNCHANGED <<boot, registry, pc, topic, row, offset, users>>

LEMMA Effects ==
  ASSUME IInv, [Next]_vars
  PROVE  \/ Idles
         \/ boot # "serving" /\ Elsewhere(MainShard) /\ StartStep
         \/ boot = "serving" /\ boot' = "serving" /\ \E s \in Shards : Elsewhere(s) /\ InsertStep(s)
<1>a. IInv'
  BY IInvNext
<1>b. boot \in BootPhases /\ MainShard \in Shards
  BY UserTopicAssumption DEF IInv, Typed, TypeOK
<1>1. CASE Boot
  <2>1. boot # "serving"
    BY <1>1 DEF Boot, BootWithoutConfig, BootLoad, BootCheck, BootChecked, BootCreate,
         BootCreated, BootAdmin, BootServe
  <2> QED
    BY <1>1, <1>a, <2>1, StartEffects
<1>2. ASSUME NEW s \in Shards, Work(s), boot = "serving"
      PROVE  boot' = "serving" /\ Elsewhere(s) /\ InsertStep(s)
  BY <1>2, ServingEffects DEF Work
<1>3. ASSUME NEW s \in Shards, Work(s), boot # "serving"
      PROVE  Elsewhere(MainShard) /\ StartStep
  <2>1. s = MainShard /\ pc[s] # "listing"
    BY <1>3, <1>b DEF Work, ManagerStep, CheckTopicExists, CreateStart, CreateEnd,
         SearchEnd, FindIndex, UpdateEnd, PostUserDone, GetUsersDone,
         IInv, Shape, LoadPhase, CheckPhase, CreatePhase, AdminPhase, Quiet, BootPhases
  <2>2. ManagerStep(MainShard) /\ UNCHANGED userVars
    BY <1>3, <2>1 DEF Work, PostUserDone, GetUsersDone
  <2> QED
    BY <1>3, <1>a, <2>2, StartEffects
<1>4. ASSUME NEW s \in Shards, \/ \E a \in Accounts : PostUser(s, a)
                              \/ GetUsers(s)
      PROVE  boot = "serving" /\ boot' = "serving" /\ Elsewhere(s) /\ InsertStep(s)
  <2>1. boot = "serving"
    BY <1>4 DEF PostUser, GetUsers
  <2> QED
    BY <1>4, <2>1, ServingEffects
<1>5. CASE UNCHANGED vars
  BY <1>5 DEF vars, managerVars, userVars, Idles
<1> QED
  BY <1>1, <1>2, <1>3, <1>4, <1>5 DEF Next

LEMMA StartingInit == Init => Starting
  BY DEF Init, ManagerInit, Starting

LEMMA StartingNext == IInv /\ Starting /\ [Next]_vars => Starting'
<1> SUFFICES ASSUME IInv, Starting, [Next]_vars PROVE Starting'
  OBVIOUS
<1>1. CASE Idles
  BY <1>1 DEF Idles, Starting
<1>2. CASE boot' = "serving"
  BY <1>2 DEF Starting
<1>3. CASE boot # "serving" /\ Prepares
  <2>1. Len(registry') # 4
    BY <1>3 DEF Prepares, Unprepared
  <2> QED
    BY <1>3, <2>1 DEF Prepares, Starting
<1>4. CASE boot # "serving" /\ (AdminCalls \/ AdminCreates)
  <2>1. Len(registry) # 4 /\ registry' = registry
    BY <1>4 DEF AdminCalls, AdminCreates
  <2> QED
    BY <1>4, <2>1 DEF AdminCalls, AdminCreates, Starting
<1>5. CASE boot # "serving" /\ AdminInserts
  <2>1. Len(registry') = 4 => registry'[4].offset = 0
    BY <1>5 DEF AdminInserts
  <2> QED
    BY <1>5, <2>1 DEF AdminInserts, Starting
<1> QED
  BY <1>1, <1>2, <1>3, <1>4, <1>5, Effects DEF StartStep, AdminDone

-----------------------------------------------------------------------------
(* No offset is ever skipped. Issued is not easy to follow from step to    *)
(* step; what each shard has of it is.                                     *)

HeldBy(s) ==
  IF topic[s] = UserOffsets /\ pc[s] \in {"createStart", "createEnd", "returned"}
  THEN {offset[s]}
  ELSE IF pc[s] \in {"index", "update"} THEN {row[s].offset} ELSE {}

IssuedByHolder == Issued = StoredOffsets \cup UNION {HeldBy(s) : s \in Shards}

LEMMA IssuedIsHeld == IssuedByHolder
<1> DEFINE held == UNION {HeldBy(s) : s \in Shards}
<1>1. ASSUME NEW n, n \in ReturnedOffsets \cup CandidateOffsets PROVE n \in held
  BY <1>1 DEF ReturnedOffsets, CandidateOffsets, HeldBy
<1>2. ASSUME NEW n, n \in held PROVE n \in ReturnedOffsets \cup CandidateOffsets
  <2>1. PICK s \in Shards : n \in HeldBy(s)
    BY <1>2
  <2>2. CASE topic[s] = UserOffsets /\ pc[s] \in {"createStart", "createEnd", "returned"}
    BY <2>1, <2>2 DEF HeldBy, ReturnedOffsets
  <2>3. CASE ~(topic[s] = UserOffsets /\ pc[s] \in {"createStart", "createEnd", "returned"})
    BY <2>1, <2>3 DEF HeldBy, CandidateOffsets
  <2> QED
    BY <2>2, <2>3
<1> QED
  BY <1>1, <1>2 DEF Issued, IssuedByHolder

(* A step of one shard changes what that shard holds and what is stored.   *)
LEMMA IssuedStep ==
  ASSUME NEW s \in Shards, Elsewhere(s), NEW more,
         StoredOffsets' \cup HeldBy(s)' = (StoredOffsets \cup HeldBy(s)) \cup more
  PROVE  Issued' = Issued \cup more
<1>1. \A x \in Shards \ {s} : HeldBy(x)' = HeldBy(x)
  BY DEF Elsewhere, HeldBy
<1>2. IssuedByHolder /\ IssuedByHolder'
  BY IssuedIsHeld, PTL
<1>3. \A n : n \in Issued <=> \/ n \in StoredOffsets \cup HeldBy(s)
                              \/ \E x \in Shards \ {s} : n \in HeldBy(x)
  BY <1>2 DEF IssuedByHolder
<1>4. \A n : n \in Issued' <=> \/ n \in StoredOffsets' \cup HeldBy(s)'
                               \/ \E x \in Shards \ {s} : n \in HeldBy(x)'
  BY <1>2 DEF IssuedByHolder
<1>5. \A n : n \in Issued' <=> n \in Issued \/ n \in more
  BY <1>1, <1>3, <1>4
<1> QED
  BY <1>5

(* The offsets issued, stored or held by an insert, have no gap, and the   *)
(* end row, which a stale write-back may set back, holds one of them.      *)
Gapless ==
  /\ Issued \subseteq Nat
  /\ \A n \in Issued : \A m \in 0 .. n : m \in Issued
  /\ Len(registry) = 4 => registry[4].offset \in Issued

LEMMA GaplessInit == Init => Gapless
<1> SUFFICES ASSUME Init PROVE Gapless
  OBVIOUS
<1>1. StoredOffsets = {}
  BY DEF Init, StoredOffsets
<1>2. \A s \in Shards : HeldBy(s) = {}
  BY DEF Init, ManagerInit, HeldBy
<1>3. Issued = {}
  BY <1>1, <1>2, IssuedIsHeld DEF IssuedByHolder
<1>4. Len(registry) # 4
  BY DEF Init, ManagerInit
<1> QED
  BY <1>3, <1>4 DEF Gapless

(* The offset of a user is stored by the push that makes the user.         *)
LEMMA PushStores ==
  ASSUME IInv, NEW s \in Shards, Pushes(s), Elsewhere(s)
  PROVE  Issued' = Issued /\ registry' = registry
<1>a. users \in Seq(User) /\ users' = Append(users, [offset |-> offset[s], message |-> account[s]])
  BY DEF IInv, Typed, TypeOK, Pushes
<1>1. StoredOffsets' = StoredOffsets \cup {offset[s]}
  <2> DEFINE u == [offset |-> offset[s], message |-> account[s]]
  <2>1. u.offset = offset[s]
    OBVIOUS
  <2>2. users' = Append(users, u)
    BY <1>a
  <2> HIDE DEF u
  <2>3. Len(users) \in Nat /\ Len(users') = Len(users) + 1
    BY <1>a, <2>2
  <2>4. \A i \in 1 .. Len(users') : users'[i] = IF i = Len(users) + 1 THEN u ELSE users[i]
    BY <1>a, <2>2
  <2>5. ASSUME NEW n, n \in StoredOffsets' PROVE n \in StoredOffsets \cup {offset[s]}
    <3>1. PICK i \in 1 .. Len(users') : n = users'[i].offset
      BY <2>5 DEF StoredOffsets
    <3>2. CASE i = Len(users) + 1
      BY <2>1, <2>4, <3>1, <3>2
    <3>3. CASE i # Len(users) + 1
      <4>1. i \in 1 .. Len(users)
        BY <2>3, <3>3
      <4> QED
        BY <2>4, <3>1, <3>3, <4>1 DEF StoredOffsets
    <3> QED
      BY <3>2, <3>3
  <2>6. ASSUME NEW n, n \in StoredOffsets PROVE n \in StoredOffsets'
    <3>1. PICK i \in 1 .. Len(users) : n = users[i].offset
      BY <2>6 DEF StoredOffsets
    <3>2. i \in 1 .. Len(users') /\ users'[i] = users[i]
      BY <2>3, <2>4
    <3> QED
      BY <3>1, <3>2 DEF StoredOffsets
  <2>7. offset[s] \in StoredOffsets'
    <3>1. Len(users) + 1 \in 1 .. Len(users') /\ users'[Len(users) + 1].offset = offset[s]
      BY <2>1, <2>3, <2>4
    <3> QED
      BY <3>1 DEF StoredOffsets
  <2> QED
    BY <2>5, <2>6, <2>7
<1>2. HeldBy(s) = {offset[s]} /\ HeldBy(s)' = {}
  BY DEF Pushes, HeldBy
<1>3. StoredOffsets' \cup HeldBy(s)' = (StoredOffsets \cup HeldBy(s)) \cup {}
  BY <1>1, <1>2
<1>4. Issued' = Issued \cup {}
  BY <1>3, IssuedStep
<1> QED
  BY <1>4 DEF Pushes

LEMMA StoredStays == UNCHANGED users => UNCHANGED StoredOffsets
  BY DEF StoredOffsets

(* What was read from the end row may be handed out twice, but always is   *)
(* one more than an offset that was handed out.                            *)
LEMMA GaplessNext == IInv /\ Starting /\ Gapless /\ [Next]_vars => Gapless'
<1> SUFFICES ASSUME IInv, Starting, Gapless, [Next]_vars PROVE Gapless'
  OBVIOUS
<1>m. MainShard \in Shards /\ registry \in Seq(OffsetRow)
  BY UserTopicAssumption DEF IInv, Typed, TypeOK
<1>same. Issued' = Issued /\ (Len(registry') = 4 => registry' = registry) => Gapless'
  BY DEF Gapless
<1>1. CASE Idles
  <2>1. Issued' = Issued
    BY <1>1 DEF Idles, Issued, StoredOffsets, ReturnedOffsets, CandidateOffsets
  <2> QED
    BY <1>1, <1>same, <2>1 DEF Idles
<1>2. CASE boot # "serving" /\ Elsewhere(MainShard) /\ Prepares
  <2>1. HeldBy(MainShard) = {} /\ HeldBy(MainShard)' = {}
    BY <1>2, UserTopicAssumption DEF Prepares, Unprepared, HeldBy
  <2>2. StoredOffsets' \cup HeldBy(MainShard)' = (StoredOffsets \cup HeldBy(MainShard)) \cup {}
    BY <1>2, <2>1, StoredStays DEF Prepares
  <2>3. Issued' = Issued \cup {}
    BY <1>m, <1>2, <2>2, IssuedStep
  <2> QED
    BY <1>2, <1>same, <2>3 DEF Prepares, Unprepared
<1>3. CASE boot # "serving" /\ Elsewhere(MainShard) /\ AdminCalls
  <2>1. HeldBy(MainShard) = {} /\ HeldBy(MainShard)' = {}
    BY <1>3 DEF AdminCalls, HeldBy
  <2>2. StoredOffsets' \cup HeldBy(MainShard)' = (StoredOffsets \cup HeldBy(MainShard)) \cup {}
    BY <1>3, <2>1, StoredStays DEF AdminCalls
  <2>3. Issued' = Issued \cup {}
    BY <1>m, <1>3, <2>2, IssuedStep
  <2> QED
    BY <1>3, <1>same, <2>3 DEF AdminCalls
<1>4. CASE boot # "serving" /\ Elsewhere(MainShard) /\ AdminCreates
  <2>1. HeldBy(MainShard) = {} /\ HeldBy(MainShard)' = {0}
    BY <1>4 DEF AdminCreates, HeldBy
  <2>2. StoredOffsets' \cup HeldBy(MainShard)' = (StoredOffsets \cup HeldBy(MainShard)) \cup {0}
    BY <1>4, <2>1, StoredStays DEF AdminCreates
  <2>3. Issued' = Issued \cup {0}
    BY <1>m, <1>4, <2>2, IssuedStep
  <2>4. \A n \in Issued' : \A m \in 0 .. n : m \in Issued'
    <3>1. \A m \in 0 .. 0 : m \in {0}
      OBVIOUS
    <3> QED
      BY <2>3, <3>1 DEF Gapless
  <2> QED
    BY <1>4, <2>3, <2>4 DEF Gapless, AdminCreates
<1>5. CASE boot # "serving" /\ Elsewhere(MainShard) /\ AdminInserts
  <2>1. HeldBy(MainShard)' = HeldBy(MainShard) /\ HeldBy(MainShard)' = {0}
    BY <1>5 DEF AdminInserts, HeldBy, Starting
  <2>2. StoredOffsets' \cup HeldBy(MainShard)' = (StoredOffsets \cup HeldBy(MainShard)) \cup {}
    BY <1>5, <2>1, StoredStays DEF AdminInserts
  <2>3. Issued' = Issued \cup {}
    BY <1>m, <1>5, <2>2, IssuedStep
  <2>4. 0 \in Issued'
    BY <1>m, <2>1, <2>3, IssuedIsHeld DEF IssuedByHolder
  <2>5. Len(registry') = 4 => registry'[4].offset \in Issued'
    BY <1>5, <2>4 DEF AdminInserts
  <2> QED
    BY <2>3, <2>5 DEF Gapless
<1>6. CASE boot # "serving" /\ Elsewhere(MainShard) /\ AdminDone
  <2>1. Issued' = Issued /\ registry' = registry
    BY <1>m, <1>6, PushStores DEF AdminDone
  <2> QED
    BY <1>same, <2>1
<1>7. ASSUME NEW s \in Shards, boot = "serving", Elsewhere(s), InsertStep(s)
      PROVE  Gapless'
  <2>a. Len(registry) = 4
    BY <1>7 DEF IInv, Shape, ServingPhase
  <2>b. registry[4].offset \in Issued /\ registry[4].offset \in Nat
    BY <2>a DEF Gapless
  <2>1. CASE Rests(s)
    <3>1. HeldBy(s) = {} /\ HeldBy(s)' = {}
      BY <2>1 DEF Rests, HeldBy
    <3>2. StoredOffsets' \cup HeldBy(s)' = (StoredOffsets \cup HeldBy(s)) \cup {}
      BY <2>1, <3>1, StoredStays DEF Rests
    <3>3. Issued' = Issued \cup {}
      BY <1>7, <3>2, IssuedStep
    <3> QED
      BY <2>1, <1>same, <3>3 DEF Rests
  <2>2. CASE Copies(s)
    <3> DEFINE last == registry[4].offset
    <3>1. HeldBy(s) = {} /\ HeldBy(s)' = {last + 1}
      BY <2>2 DEF Copies, HeldBy
    <3>2. StoredOffsets' \cup HeldBy(s)' = (StoredOffsets \cup HeldBy(s)) \cup {last + 1}
      BY <2>2, <3>1, StoredStays DEF Copies
    <3>3. Issued' = Issued \cup {last + 1}
      BY <1>7, <3>2, IssuedStep
    <3>4. last \in Issued /\ last \in Nat
      BY <2>b
    <3>5. last' = last
      BY <2>2 DEF Copies
    <3> HIDE DEF last
    <3>6. \A m \in 0 .. (last + 1) : m \in 0 .. last \/ m = last + 1
      BY <3>4
    <3>7. \A m \in 0 .. (last + 1) : m \in Issued'
      BY <3>3, <3>4, <3>6 DEF Gapless
    <3>8. \A n \in Issued' : \A m \in 0 .. n : m \in Issued'
      BY <3>3, <3>7 DEF Gapless
    <3>9. Issued' \subseteq Nat
      BY <3>3, <3>4 DEF Gapless
    <3>10. Len(registry') = 4 => registry'[4].offset \in Issued'
      BY <3>3, <3>4, <3>5 DEF last
    <3> QED
      BY <3>8, <3>9, <3>10 DEF Gapless
  <2>3. CASE Finds(s)
    <3>1. HeldBy(s)' = HeldBy(s)
      BY <2>3 DEF Finds, HeldBy
    <3>2. StoredOffsets' \cup HeldBy(s)' = (StoredOffsets \cup HeldBy(s)) \cup {}
      BY <2>3, <3>1, StoredStays DEF Finds
    <3>3. Issued' = Issued \cup {}
      BY <1>7, <3>2, IssuedStep
    <3> QED
      BY <2>3, <1>same, <3>3 DEF Finds
  <2>4. CASE Writes(s)
    <3>1. HeldBy(s) = {row[s].offset} /\ HeldBy(s)' = {row[s].offset}
      BY <2>4 DEF Writes, HeldBy
    <3>2. StoredOffsets' \cup HeldBy(s)' = (StoredOffsets \cup HeldBy(s)) \cup {}
      BY <2>4, <3>1, StoredStays DEF Writes
    <3>3. Issued' = Issued \cup {}
      BY <1>7, <3>2, IssuedStep
    <3>4. row[s].offset \in Issued'
      BY <1>7, <3>1, <3>3, IssuedIsHeld DEF IssuedByHolder
    <3>5. registry'[4].offset \in Issued'
      BY <2>4, <3>4 DEF Writes
    <3> QED
      BY <3>3, <3>5 DEF Gapless
  <2>5. CASE Pushes(s)
    <3>1. Issued' = Issued /\ registry' = registry
      BY <1>7, <2>5, PushStores
    <3> QED
      BY <1>same, <3>1
  <2> QED
    BY <1>7, <2>1, <2>2, <2>3, <2>4, <2>5 DEF InsertStep
<1> QED
  BY <1>1, <1>2, <1>3, <1>4, <1>5, <1>6, <1>7, Effects DEF StartStep

(* However many shards insert at once, and however their lost updates      *)
(* repeat offsets: none is skipped. Below every offset a user has, or an   *)
(* insert under way will give, all are taken, and the end row never runs   *)
(* ahead of the users.                                                     *)
THEOREM NoGapsAlways == Spec => []NoGaps
<1>1. IInv /\ Gapless => NoGaps
  <2> SUFFICES ASSUME IInv, Gapless,
                      NEW i \in 1 .. Len(registry), IsUserEnd(registry[i])
               PROVE  registry[i].offset \in Issued
    BY DEF NoGaps, Gapless
  <2>1. registry \in Seq(OffsetRow) /\ Registered
    BY DEF IInv, Typed, TypeOK, Shape
  <2>2. i = 1 \/ i = 2 \/ i = 3 \/ i = 4
    BY <2>1, RegisteredKeys
  <2>3. i = 4
    BY <2>1, <2>2, RegisteredKeys, UserTopicAssumption DEF IsUserEnd
  <2>4. Len(registry) = 4
    <3> DEFINE rows == Len(registry)
    <3>1. rows \in Nat /\ rows >= 4
      BY <2>1, <2>3
    <3>2. rows \in 1 .. rows
      BY <3>1
    <3>3. rows <= 4
      BY <2>1, <3>2 DEF Registered
    <3> HIDE DEF rows
    <3>4. rows = 4
      BY <3>1, <3>3
    <3> QED
      BY <3>4 DEF rows
  <2> QED
    BY <2>3, <2>4 DEF Gapless
<1>2. Init /\ [][Next]_vars => [](IInv /\ Starting /\ Gapless)
  <2>1. Init => IInv
    BY TypedInit, ShapeInit DEF IInv
  <2> QED
    BY <2>1, IInvNext, StartingInit, StartingNext, GaplessInit, GaplessNext, PTL
<1> QED
  BY <1>1, <1>2, PTL DEF Spec

-----------------------------------------------------------------------------
(* With one shard inserts do not overlap, and the end row counts the users:*)
(* it is one behind their number, except between the write of the row and  *)
(* the push of the user.                                                   *)

OneShard == Shards = {MainShard}

Counted ==
  /\ \A i \in 1 .. Len(users) : users[i].offset = i - 1
  /\ boot = "serving" =>
       /\ Len(users) > 0
       /\ pc[MainShard] = "returned" =>
            offset[MainShard] = Len(users) /\ registry[4].offset = Len(users)
       /\ pc[MainShard] # "returned" => registry[4].offset = Len(users) - 1
       /\ pc[MainShard] \in {"index", "update"} => row[MainShard].offset = Len(users)

LEMMA CountedInit == Init => Counted
  BY DEF Init, Counted

(* The push of a user with the next offset. *)
PushesNext ==
  users' = Append(users, [offset |-> Len(users), message |-> account[MainShard]])

LEMMA CountedPush ==
  ASSUME IInv, Counted, PushesNext
  PROVE  /\ Len(users') = Len(users) + 1
         /\ \A i \in 1 .. Len(users') : users'[i].offset = i - 1
<1> DEFINE u == [offset |-> Len(users), message |-> account[MainShard]]
<1>1. u.offset = Len(users)
  OBVIOUS
<1>2. users \in Seq(User) /\ users' = Append(users, u)
  BY DEF IInv, Typed, TypeOK, PushesNext
<1> HIDE DEF u
<1>3. Len(users) \in Nat /\ Len(users') = Len(users) + 1
  BY <1>2
<1>4. \A i \in 1 .. Len(users') : users'[i] = IF i = Len(users) + 1 THEN u ELSE users[i]
  BY <1>2
<1>5. ASSUME NEW i \in 1 .. Len(users') PROVE users'[i].offset = i - 1
  <2>1. CASE i = Len(users) + 1
    BY <1>1, <1>3, <1>4, <2>1
  <2>2. CASE i # Len(users) + 1
    BY <1>3, <1>4, <2>2 DEF Counted
  <2> QED
    BY <2>1, <2>2
<1> QED
  BY <1>3, <1>5

(* The only steps that change the users push one with the next offset. *)
LEMMA PushesOnlyNext ==
  ASSUME OneShard, IInv, Starting, Counted, [Next]_vars
  PROVE  UNCHANGED users \/ PushesNext
<1>1. CASE Idles
  BY <1>1 DEF Idles
<1>2. CASE boot # "serving" /\ StartStep
  <2>1. CASE AdminDone
    <3>1. users = << >> /\ offset[MainShard] = 0
      BY <2>1 DEF AdminDone, Pushes, Starting
    <3>2. Len(users) = 0
      BY <3>1
    <3> QED
      BY <2>1, <3>1, <3>2 DEF AdminDone, Pushes, PushesNext
  <2>2. CASE ~AdminDone
    BY <1>2, <2>2 DEF StartStep, Prepares, AdminCalls, AdminCreates, AdminInserts
  <2> QED
    BY <2>1, <2>2
<1>3. CASE boot = "serving" /\ InsertStep(MainShard)
  <2>1. CASE Pushes(MainShard)
    <3>1. offset[MainShard] = Len(users)
      BY <1>3, <2>1 DEF Pushes, Counted
    <3> QED
      BY <2>1, <3>1 DEF Pushes, PushesNext
  <2>2. CASE ~Pushes(MainShard)
    BY <1>3, <2>2 DEF InsertStep, Rests, Copies, Finds, Writes
  <2> QED
    BY <2>1, <2>2
<1> QED
  BY <1>1, <1>2, <1>3, Effects DEF OneShard

LEMMA CountedNext == OneShard /\ IInv /\ Starting /\ Counted /\ [Next]_vars => Counted'
<1> SUFFICES ASSUME OneShard, IInv, Starting, Counted, [Next]_vars PROVE Counted'
  OBVIOUS
<1>a. users \in Seq(User) /\ Len(users) \in Nat
  BY DEF IInv, Typed, TypeOK
<1>b. UNCHANGED users => \A i \in 1 .. Len(users') : users'[i].offset = i - 1
  BY DEF Counted
<1>1. CASE Idles
  BY <1>1 DEF Idles, Counted
<1>2. CASE boot # "serving" /\ StartStep
  <2>1. CASE AdminDone
    <3>1. PushesNext /\ pc'[MainShard] = "idle" /\ registry' = registry
      <4>1. users = << >> /\ offset[MainShard] = 0
        BY <2>1 DEF AdminDone, Pushes, Starting
      <4>2. Len(users) = 0
        BY <4>1
      <4> QED
        BY <2>1, <4>1, <4>2 DEF AdminDone, Pushes, PushesNext
    <3>2. registry[4].offset = 0 /\ users = << >>
      BY <2>1 DEF AdminDone, Starting
    <3>3. Len(users') = 1
      BY <1>a, <3>1, <3>2, CountedPush
    <3>4. \A i \in 1 .. Len(users') : users'[i].offset = i - 1
      BY <3>1, CountedPush
    <3>5. registry'[4].offset = Len(users') - 1 /\ Len(users') > 0
      BY <3>1, <3>2, <3>3
    <3> QED
      BY <3>1, <3>4, <3>5 DEF Counted
  <2>2. CASE ~AdminDone
    <3>1. boot' # "serving" /\ UNCHANGED users
      BY <1>2, <2>2 DEF StartStep, Prepares, AdminCalls, AdminCreates, AdminInserts
    <3> QED
      BY <1>b, <3>1 DEF Counted
  <2> QED
    BY <2>1, <2>2
<1>3. CASE boot = "serving" /\ InsertStep(MainShard)
  <2>1. CASE Rests(MainShard)
    BY <1>3, <1>b, <2>1 DEF Rests, Counted
  <2>2. CASE Copies(MainShard)
    <3>1. registry[4].offset = Len(users) - 1
      BY <1>3, <2>2 DEF Copies, Counted
    <3>2. row'[MainShard].offset = registry[4].offset + 1
      BY <2>2 DEF Copies
    <3>3. row'[MainShard].offset = Len(users)
      BY <1>a, <3>1, <3>2
    <3> QED
      BY <1>3, <1>b, <2>2, <3>3 DEF Copies, Counted
  <2>3. CASE Finds(MainShard)
    BY <1>3, <1>b, <2>3 DEF Finds, Counted
  <2>4. CASE Writes(MainShard)
    BY <1>3, <1>b, <2>4 DEF Writes, Counted
  <2>5. CASE Pushes(MainShard)
    <3>1. offset[MainShard] = Len(users) /\ registry[4].offset = Len(users)
      BY <1>3, <2>5 DEF Pushes, Counted
    <3>2. PushesNext /\ pc'[MainShard] = "idle" /\ registry' = registry
      BY <2>5, <3>1 DEF Pushes, PushesNext
    <3>3. Len(users') = Len(users) + 1
      BY <3>2, CountedPush
    <3>4. \A i \in 1 .. Len(users') : users'[i].offset = i - 1
      BY <3>2, CountedPush
    <3>5. registry'[4].offset = Len(users') - 1 /\ Len(users') > 0
      BY <1>a, <3>1, <3>2, <3>3
    <3> QED
      BY <3>2, <3>4, <3>5 DEF Counted
  <2> QED
    BY <1>3, <2>1, <2>2, <2>3, <2>4, <2>5 DEF InsertStep
<1> QED
  BY <1>1, <1>2, <1>3, Effects DEF OneShard

LEMMA CountedInvariance ==
  ASSUME OneShard
  PROVE  Spec => [](IInv /\ Starting /\ Counted)
<1>1. Init => IInv
  BY TypedInit, ShapeInit DEF IInv
<1>2. IInv /\ Starting /\ Counted /\ [Next]_vars => Counted'
  BY CountedNext
<1> QED
  BY <1>1, <1>2, IInvNext, StartingInit, StartingNext, CountedInit, PTL DEF Spec

(* With one shard the end row holds the offset of the last user whenever   *)
(* no insert is under way: the next insert gets the following offset.      *)
THEOREM EndRowIsLastOffsetOnOneShard ==
  ASSUME Shards = {MainShard}
  PROVE  Spec => []EndRowIsLastOffset
<1>o. OneShard
  BY DEF OneShard
<1>1. IInv /\ Counted => EndRowIsLastOffset
  <2> SUFFICES ASSUME IInv, Counted, boot = "serving",
                      \A s \in Shards : pc[s] \in {"idle", "listing"}
               PROVE  \E i \in 1 .. Len(registry) :
                        /\ IsUserEnd(registry[i])
                        /\ registry[i].offset = users[Len(users)].offset
    BY DEF EndRowIsLastOffset
  <2>1. registry \in Seq(OffsetRow) /\ users \in Seq(User)
        /\ Registered /\ Len(registry) = 4
    BY DEF IInv, Typed, TypeOK, Shape, ServingPhase
  <2>2. IsUserEnd(registry[4])
    BY <2>1, RegisteredKeys DEF IsUserEnd
  <2>3. pc[MainShard] # "returned"
    BY <1>o DEF OneShard
  <2>4. Len(users) > 0 /\ registry[4].offset = Len(users) - 1
    BY <2>3 DEF Counted
  <2>5. users[Len(users)].offset = Len(users) - 1
    BY <2>1, <2>4 DEF Counted
  <2>6. registry[4].offset = users[Len(users)].offset /\ 4 \in 1 .. Len(registry)
    BY <2>1, <2>4, <2>5
  <2> QED
    BY <2>2, <2>6
<1> QED
  BY <1>o, <1>1, CountedInvariance, PTL

(* With one shard the users are an append-only log: every insert, the      *)
(* administrator's included, appends a record whose offset is its place,   *)
(* and no other step of start-up, of an insert or of a listing changes     *)
(* them. The run of three shards shows why one is needed: lost updates     *)
(* give two users one offset.                                              *)
THEOREM UsersAreAppendLog ==
  ASSUME Shards = {MainShard}
  PROVE  Spec => ImplementsAppendLog
<1> DEFINE LogInit == UserLog!Init
           LogNext == UserLog!Next
<1>o. OneShard
  BY DEF OneShard
<1>1. Init => LogInit
  BY DEF Init, UserLog!Init
<1>2. IInv /\ Starting /\ Counted /\ [Next]_vars => [LogNext]_users
  <2> SUFFICES ASSUME IInv, Starting, Counted, [Next]_vars
               PROVE  [LogNext]_users
    OBVIOUS
  <2>1. account[MainShard] \in Accounts \cup {Admin}
    BY UserTopicAssumption DEF IInv, Typed, TypeOK
  <2>2. PushesNext => UserLog!Append1(account[MainShard])
    BY DEF PushesNext, UserLog!Append1
  <2> QED
    BY <1>o, <2>1, <2>2, PushesOnlyNext DEF UserLog!Next
<1>3. ImplementsAppendLog <=> LogInit /\ [][LogNext]_users
  BY DEF ImplementsAppendLog, UserLog!Spec
<1> HIDE DEF LogInit, LogNext
<1> QED
  BY <1>o, <1>1, <1>2, <1>3, CountedInvariance, PTL DEF Spec

=============================================================================
