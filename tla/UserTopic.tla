----------------------------- MODULE UserTopic -----------------------------
(***************************************************************************)
(* TopicPrivateUserDefinition together with its callers: the start-up of   *)
(* the process (InitializationManager::initialize, run by main on one      *)
(* shard before any server listens), and POST /user and GET /users, which  *)
(* the HTTP server runs on every shard.                                    *)
(*                                                                         *)
(* An insert is the sequence of registry calls of                          *)
(* getNewestOffsetWithRoundRobin, made with no lock held in between, then  *)
(* one push on the user vector under the user topic's own lock. Nothing is *)
(* persisted: a process that restarts is a new behaviour from Init.        *)
(***************************************************************************)
EXTENDS TopicManager

CONSTANTS
  UsersTopic,   \* "__users", the topic initialize looks for and creates
  UserOffsets,  \* "__user", the topic insert takes its offsets from
  MainShard,    \* the shard main runs on
  Accounts,     \* what requests may ask for: username, password and email
  Admin,        \* the account initialize inserts
  MaxUsers      \* bound: no insert starts once this many users are stored

ASSUME UserTopicAssumption ==
  /\ UsersTopic \in Topics
  /\ UserOffsets \in Topics
  /\ UsersTopic # UserOffsets
  /\ MainShard \in Shards
  /\ MaxUsers \in Nat

VARIABLES
  boot,     \* how far initialize has come
  ports,    \* restPort and tcpPort of main
  users,    \* privateUserStructure
  account,  \* the arguments of the insert a shard executes
  listed    \* the copy of the users a shard is about to send as a listing

userVars == <<configVars, boot, ports, users, account, listed>>
vars == <<managerVars, userVars>>

BootPhases == {"load", "ended", "check", "create", "admin", "serving"}

(* timestamp is left out, and deleted is FALSE in every user inserted.     *)
User == [offset : Nat, message : Accounts \cup {Admin}]

Init ==
  /\ ManagerInit
  /\ boot = "load"
  /\ ports = [p \in Ports |-> 0]
  /\ users = << >>
  /\ account = [s \in Shards |-> Admin]
  /\ listed = [s \in Shards |-> << >>]

-----------------------------------------------------------------------------
(* insert: the offset first, by TopicManager's steps ...                   *)

BeginInsert(s, a) ==
  /\ Call(s, "search", UserOffsets)
  /\ account' = [account EXCEPT ![s] = a]

(* Mutant: the newest user put first. *)
PushUser_in_front(s) ==
  /\ users' = <<[offset |-> offset[s], message |-> account[s]]>> \o users
  /\ account' = [account EXCEPT ![s] = Admin]
  /\ Return(s)

(* ... then the push. No test that the user is already there.              *)
PushUser(s) ==
  /\ users' = Append(users, [offset |-> offset[s], message |-> account[s]])
  /\ account' = [account EXCEPT ![s] = Admin]
  /\ Return(s)

-----------------------------------------------------------------------------
(* initialize, on the main shard.                                          *)

(* Without --config on the command line main throws, and the process ends  *)
(* before it has read or created anything.                                 *)
BootWithoutConfig ==
  /\ boot = "load"
  /\ boot' = "ended"
  /\ UNCHANGED <<managerVars, ports, users, account, listed>>

BootLoad ==
  /\ boot = "load"
  /\ LoadConfig
  /\ boot' = "check"
  /\ UNCHANGED <<registry, pc, locals, ports, users, account, listed>>

(* A port is passed as a uint16_t. *)
Uint16(n) == n % 65536

Uint16s == 0 .. (65536 - 1)

(* initialize has returned: main reads the ports and starts the servers.   *)
PortsRead == [p \in Ports |-> Uint16(config[p])]

BootCheck ==
  /\ boot = "check"
  /\ Call(MainShard, "exists", UsersTopic)
  /\ UNCHANGED userVars

BootChecked ==
  /\ boot = "check"
  /\ Return(MainShard)
  /\ boot' = IF exists[MainShard] THEN "serving" ELSE "create"
  /\ ports' = IF exists[MainShard] THEN PortsRead ELSE ports
  /\ UNCHANGED <<configVars, users, account, listed>>

BootCreate ==
  /\ boot = "create"
  /\ Call(MainShard, "createStart", UsersTopic)
  /\ UNCHANGED userVars

BootCreated ==
  /\ boot = "create"
  /\ Return(MainShard)
  /\ boot' = "admin"
  /\ UNCHANGED <<configVars, ports, users, account, listed>>

BootAdmin ==
  /\ boot = "admin"
  /\ BeginInsert(MainShard, Admin)
  /\ UNCHANGED <<configVars, boot, ports, users, listed>>

(* The insert of the administrator is done, and initialize with it. *)
BootServe ==
  /\ boot = "admin"
  /\ pc[MainShard] = "returned"
  /\ PushUser(MainShard)
  /\ boot' = "serving"
  /\ ports' = PortsRead
  /\ UNCHANGED <<configVars, listed>>

-----------------------------------------------------------------------------
(* The two handlers. A body that does not parse is answered with an error  *)
(* and changes nothing.                                                    *)

(* Mutant: the servers are started before initialize has returned. *)
PostUser_before_boot(s, a) ==
  /\ Len(users) < MaxUsers
  /\ BeginInsert(s, a)
  /\ UNCHANGED <<configVars, boot, ports, users, listed>>

PostUser(s, a) ==
  /\ boot = "serving"
  /\ Len(users) < MaxUsers
  /\ BeginInsert(s, a)
  /\ UNCHANGED <<configVars, boot, ports, users, listed>>

PostUserDone(s) ==
  /\ boot = "serving"
  /\ pc[s] = "returned"
  /\ PushUser(s)
  /\ UNCHANGED <<configVars, boot, ports, listed>>

(* getAllUsers copies the vector under the lock; the handler then formats  *)
(* the copy while other shards insert.                                     *)
GetUsers(s) ==
  /\ boot = "serving"
  /\ pc[s] = "idle"
  /\ listed' = [listed EXCEPT ![s] = users]
  /\ GoTo(s, "listing")
  /\ UNCHANGED <<configVars, registry, locals, boot, ports, users, account>>

GetUsersDone(s) ==
  /\ pc[s] = "listing"
  /\ listed' = [listed EXCEPT ![s] = << >>]
  /\ GoTo(s, "idle")
  /\ UNCHANGED <<configVars, registry, locals, boot, ports, users, account>>

Boot ==
  \/ BootWithoutConfig
  \/ BootLoad
  \/ BootCheck
  \/ BootChecked
  \/ BootCreate
  \/ BootCreated
  \/ BootAdmin
  \/ BootServe

(* What a shard does by itself once a request has been handed to it.       *)
Work(s) ==
  \/ ManagerStep(s) /\ UNCHANGED userVars
  \/ PostUserDone(s)
  \/ GetUsersDone(s)

Next ==
  \/ Boot
  \/ \E s \in Shards :
       \/ Work(s)
       \/ \E a \in Accounts : PostUser(s, a)
       \/ GetUsers(s)

Spec == Init /\ [][Next]_vars

(* A reactor thread runs the code it has started, and the short critical   *)
(* sections it waits for end; nothing obliges a client to send a request.  *)
Fairness ==
  /\ WF_vars(Boot)
  /\ \A s \in Shards : WF_vars(Work(s))

FairSpec == Spec /\ Fairness

-----------------------------------------------------------------------------

TypeOK ==
  /\ ConfigTypeOK
  /\ registry \in Seq(OffsetRow)
  /\ pc \in [Shards -> PCs \cup {"listing"}]
  /\ topic \in [Shards -> Topics \cup {NoTopic}]
  /\ row \in [Shards -> OffsetRow \cup {NoRow}]
  /\ index \in [Shards -> Nat]
  /\ offset \in [Shards -> Nat]
  /\ exists \in [Shards -> BOOLEAN]
  /\ boot \in BootPhases
  /\ ports \in [Ports -> Uint16s]
  /\ users \in Seq(User)
  /\ account \in [Shards -> Accounts \cup {Admin}]
  /\ listed \in [Shards -> Seq(User)]

(* The row insert counts with.                                             *)
IsUserEnd(r) == r.topic = UserOffsets /\ r.type = "end"

(* createTopic does not test that the topic is there, and two shards that  *)
(* both find none would both create it. In the program every topic in use  *)
(* is created by initialize before a server listens, so no key ever has    *)
(* two rows.                                                               *)
OneRowPerKey ==
  \A i, j \in 1 .. Len(registry) : SameKey(registry[i], registry[j]) => i = j

(* The offsets handed out: to users stored, and to inserts under way.      *)
StoredOffsets == {users[i].offset : i \in 1 .. Len(users)}
ReturnedOffsets ==
  {offset[s] : s \in {x \in Shards : topic[x] = UserOffsets
                                       /\ pc[x] \in {"createStart", "createEnd", "returned"}}}
CandidateOffsets ==
  {row[s].offset : s \in {x \in Shards : pc[x] \in {"index", "update"}}}
Issued == StoredOffsets \cup ReturnedOffsets \cup CandidateOffsets

(* Lost updates may repeat an offset, but never skip one: below an offset  *)
(* that was handed out every offset was handed out, and what the end row   *)
(* holds was handed out.                                                   *)
NoGaps ==
  /\ \A n \in Issued : \A m \in 0 .. n : m \in Issued
  /\ \A i \in 1 .. Len(registry) :
       IsUserEnd(registry[i]) /\ users # << >> => registry[i].offset \in Issued

(* A listing is a state the users really were in: users are neither        *)
(* changed nor reordered while a shard formats its copy.                   *)
ListingIsPrefix ==
  \A s \in Shards :
    /\ Len(listed[s]) <= Len(users)
    /\ \A i \in 1 .. Len(listed[s]) : listed[s][i] = users[i]

(* With one shard, whenever no insert is under way the end row holds the   *)
(* offset of the last user: the next one gets the following offset.        *)
EndRowIsLastOffset ==
  (boot = "serving" /\ \A s \in Shards : pc[s] \in {"idle", "listing"}) =>
    \E i \in 1 .. Len(registry) :
      /\ IsUserEnd(registry[i])
      /\ registry[i].offset = users[Len(users)].offset

(* "Offset should be incremented on the insert time automatically": no two *)
(* users have the same offset.                                             *)
UserOffsetsUnique ==
  \A i, j \in 1 .. Len(users) : users[i].offset = users[j].offset => i = j

(* What the file says reaches its use, whatever other setting it lacks: a  *)
(* partition count of one byte is that of every row, a port of two bytes   *)
(* the one served, all being settled before the first row is made. Nothing *)
(* is said of a wider number, which the code truncates, nor of a port the  *)
(* file lacks, which keeps what the memory held.                           *)
ServesAsConfigured ==
  boot = "serving" =>
    /\ "defaultPartitionCount" \in Loaded /\ configFile["defaultPartitionCount"] \in 0 .. 255 =>
         \A i \in 1 .. Len(registry) :
           registry[i].partition = configFile["defaultPartitionCount"]
    /\ \A p \in Ports \cap Loaded :
         configFile[p] \in Uint16s => ports[p] = configFile[p]

(* The users as an append-only log with automatic offsets.                 *)
UserLog == INSTANCE AppendLog WITH Messages <- Accounts \cup {Admin}, log <- users
ImplementsAppendLog == UserLog!Spec

(* Every request a shard has taken is answered, as is every call start-up  *)
(* makes: no operation waits for a state of the registry that another      *)
(* shard's write, or its own lost one, has undone. (A locked call is one   *)
(* step here: that the locks themselves are released is not at issue.)     *)
RequestsAnswered == \A s \in Shards : pc[s] # "idle" ~> pc[s] = "idle"

=============================================================================
