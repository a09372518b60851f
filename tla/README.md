# Googom in TLA+

Googom is a message broker in the making: a C++ process on seastar that serves
HTTP and TCP, keeps internal topics (offsets, users) in memory and has a library
component that keeps a public topic in a file. These modules model the parts of
it that carry state, TLC checks them on small instances, and TLAPS proves what
matters most for every size.

## The system

| Component | Source | State | Operations |
|---|---|---|---|
| Offset registry | `topics/topic_private/topic_offset` | one vector of rows (offset, topic, node, partition, start/end), shared by all reactor threads, one `shared_mutex` | `insert`, `update` by index, three searches |
| Topic manager | `managers/topic_manager` | `nodeId` | `checkTopicExists`, `createTopic`, `getNewestOffsetWithRoundRobin` |
| User topic | `topics/topic_private/topic_user` | one vector of users, its own mutex | `insert`, `update`, searches, `getAllUsers` |
| Start-up | `managers/initialization_manager`, `main.cpp` | the two ports | load the configuration, create `__users`, insert the administrator, start the servers |
| Topic file | `topics/topic_io` | the file; an open stream; a cache of read records | open on first write, append one archive per record, read all / from the head / from the tail |
| Public topic | `topics/topic_public` | a buffer of recent records, a buffer of oldest records | constructor, `insert`; printing reads the file through a `TopicIO` of its own |
| Message store | `communication/temp_store` | a map from id to message, the next id | store, get, update, delete |
| REST server | `communication/http` | none of its own | `/message` (GET, POST, DELETE), POST `/user`, GET `/users` |
| TCP server | `communication/tcp` | the connection being served | accept, read, store, reply |
| Configuration | `managers/config_manager` | node id, counts, ports; the file they come from | load, set, save |

How they interact. `main` runs start-up on one reactor thread, then starts the
two servers. The HTTP server runs its handlers on every reactor thread (shard);
`POST /user` calls the user topic, which calls the topic manager for an offset,
which calls the registry. Each registry call locks for its own duration only.
The message routes and the TCP server share the message store, with no lock. The
public topic owns its file; `main` does not construct one yet. The settings are read
without a lock by start-up and by every call that makes a row.

What is hard, and what would make each part correct:

- **Offsets of the internal topics.** One increment is three locked calls
  (search, index, update) on a copied row. Correct: offsets are unique, without
  gaps, and a stale write-back never damages another row. The first is false
  with two shards.
- **Creating topics.** `createTopic` does not look whether the topic is there
  and is two inserts. Correct: one start and one end row per topic.
- **Start-up.** Nothing but the order of statements keeps requests out before
  the topics exist. Correct: requests are served only after it, on the rows it made.
- **Configuration.** A load stops at the first setting that is missing, the ports
  have no default, a save that fails leaves an empty file, ports and counts are
  narrowed where they are used, and the node id is copied before anything is loaded.
  Correct: the settings a file gives, and that fit, are the ones used; no process
  leaves half a file behind; and every row made is found again under the node id in use.
- **The file of a public topic.** Crashes between offset, open, write and push;
  torn frames; opens, writes and flushes that fail, again and again, some of them
  unnoticed; restarts that rebuild the buffers. Correct: what was acknowledged is in
  the file, the file is a log with offsets 0, 1, 2, ..., and the buffers agree with it
  (each of the three false under some failure or restart; the runs say which).
- **Readers of that file.** What a reader has read it never reads again, and never
  drops. Correct: it sees what the file began with.
- **Messages.** Ids from a counter and a map that every thread uses unlocked, one
  TCP connection at a time, chunks taken for messages, ids that wrap around.
  Correct: what was stored is found under its id until deleted (false with two
  shards), a stream is stored whole however it is cut, and clients that wait get
  their turn, if their connection falls to the one thread that accepts.

`PROJECT.json` lists the hazards line by line with the properties that cover
them.

## Modules

| Module | Models | Notes |
|---|---|---|
| `AppendLog` | what a topic promises: records are appended, and the offset of a record is its position | abstract specification |
| `ConfigManager` | `ConfigManager` | a file is the function of the settings it holds; a load takes those before the first that is missing |
| `OffsetRegistry` | `TopicPrivateOffsetDefinition` | extends `ConfigManager`, whose node ids rows carry; one operator per locked call; `Uint8` is the narrowing of the partition count |
| `TopicManager` | `TopicManager` | `pc[s]` is the next locked call of the operation shard `s` executes; `ManagerSpec` lets any shard call any operation, and `Reconfigure` set, load and save in between |
| `UserTopic` | `TopicPrivateUserDefinition`, `InitializationManager::initialize`, `POST /user`, `GET /users` | reuses the steps of `TopicManager`; `Spec` is the program's own use of them |
| `TopicFile` | `TopicIO` | frames on disk, `Torn` frames, what reading returns, the cache of a reader |
| `TopicPublic` | `TopicPublicDefinition` | construction, `insert` step by step, destruction, crashes, I/O failures; a reader beside it |
| `MessageStore` | `message_store` | `next_id++` is a load and a store; an access to the map has a beginning and an end, so that two can overlap |
| `TcpServer` | `TcpServer` and its clients | the accept loop and the loop of one connection, as tasks of the main shard |
| `MessageServers` | the three `/message` routes of `RestServer`; composes the two modules above | `Spec`, fairness, properties |
| `MCTopicManager`, `MCUserTopic`, `MCTopicPublic`, `MCMessageServers` | instances for TLC | symmetry, and the configuration files |
| `OffsetRegistryProofs`, `TopicManagerProofs`, `UserTopicProofs` | theorems about the registry, its callers, the users | each builds on the one before |
| `TopicFileProofs`, `TopicPublicProofs` | theorems about the public topic | `TopicFileProofs` has the lemmas about reading and writing a file |
| `MessageServersProofs` | theorems about the message store and the TCP server | |

Correspondence. `config` holds the members of `ConfigManager`, `configFile` the JSON
file; `ports` are `restPort` and `tcpPort` as the servers are given them. What the
constructor does not set, the two ports, may hold any of `Leftovers`. The settings
are plain members without a lock; an access to one is taken to be atomic. `nodeId`
is the empty string, `NoNode`, because `TopicManager::nodeId` is a copy made during
static initialisation, before any load.

One atomic step is one critical section of the code, or one
stretch between two points at which another thread may run or the process may
die with a different state on disk. `registry` is `privateOffsetStructure`,
`users` is `privateUserStructure`; `topic`, `row`, `index`, `offset`, `exists`,
`account` and `listed` are the locals of the operation in progress, reset when
it returns. Positions count from 1, so `NotFound == 0` is the code's `-1`.
`file`, `exists` and `opened` are the file and `sharedFile`; `recent`, `oldest`
and `pending` are the two buffers and the record being inserted, `bufferSize` what
the topic was constructed with, `cache` is `vectorAllData` of a reader. `acked`,
`born` and `failed` are history variables that properties read: `failed` records which
kinds of failure have happened, and forbids none. `Faults` says which a model has, each
any number of times.

In the message modules `at[s]` is what the method shard `s` has entered does
next, `id` and `msg` are its locals, `messages` and `next_id` the two fields.
`conn`, `loop` and `backlog` are the TCP loop's captured state and the listening
socket's queue; `unread` is what the kernel holds for a client. `stored`, `sent`
and `kept` are history variables; `stored` goes back as many entries as there are
ids, so these runs bound neither the number of messages nor of requests.
Overlapping accesses to the map, one of them a write, are undefined: afterwards
(`broken`) an access may drop any messages, and nothing has to happen any more. An
exception that leaves the loop of a connection, and an accept that fails, leave
`keep_doing` and the future `main` returns; seastar then ends the process (`running`).
Seastar spreads the connections of a listening socket over the reactor threads, and only
the main shard accepts: one that falls to another thread leaves the queue and is never
served (`Accept`, second case). `Spare` are threads that take no part otherwise, so that
the run with one shard, where ids and streams are checked, has such connections too.

Without `--config`, `main` throws before it reads or creates anything, and the process
ends (`BootWithoutConfig`).

Abstracted: timestamps, keys, headers and values (a message is a model value),
logging, the text of JSON, and base64. Listening on the ports is taken to succeed. Offsets are unbounded
naturals: 2^128 inserts do not happen.

What a torn frame does to a reader is modelled from the reading loop and from
what the archive library does with it: at the end of the file the loop ends;
inside the file the frame behind the tear is lost, and the reader may stop,
return one record that was never written, or find its way back into step
further on.

A write has four outcomes. It succeeds (`Write`); the process dies in it
(`CrashInWrite`); it throws out of `insert` (`WriteThrows`), which is how a record
larger than the buffer of the stream fails; or it fails unnoticed (`FlushFails`): a
smaller record only leaves the buffer when the archive is destroyed, what that flush
returns is dropped, `writeToDisk` returns, and `insert` pushes and acknowledges a record
the file lacks. All but the first leave nothing or a torn frame. What later writes do
to a stream whose flush failed is left open: any of the four may come next. The loss
of what the operating system holds in its cache is not modelled.

## Runs

| Run | Instance | What it shows |
|---|---|---|
| `topic_manager` | 2 shards, 2 topics, at most 4 rows when a call starts, offsets to 2, 257 partitions; settings set, loaded and saved at any moment | `EndAfterStart`, `RowsKeepTheirKey`: any interleaving of any calls, `createTopic` twice on one topic included, keeps start rows before end rows and never moves a row to another key, even when the partition count changes in between. `EndRowsAreFound`: whatever node id is set or loaded, the search by node id, which compares that of one row only, finds every end row. `SavedLoadsWhole`: however saves fail, the file loads whole or not at all. 257 partitions make the narrowing to 8 bits matter. |
| `user_one_shard` | 1 shard, 2 accounts, 6 users; a file that is whole, empty, lacks any one setting, or has a count beyond 8 and a port beyond 16 bits | `ServesAsConfigured`: a count and a port that the file gives, and that fit, are the ones used, whatever else is missing. `ImplementsAppendLog`: on one thread the users are the abstract log. `EndRowIsLastOffset`: between requests the end row holds the last offset. |
| `user_shards` | 3 shards, 1 account, 4 users; a file without the ports | what remains with several threads: `OneRowPerKey`, `NoGaps`, `ListingIsPrefix`; and `RequestsAnswered`: no operation waits for a state of the registry that another shard has undone. |
| `user_offsets_unique` | 2 shards | **violated**: two users with the same offset |
| `messages` | 1 shard and a thread that does not accept, ids of 1 bit (0 and -1), 2 TCP clients of up to 2 bytes each, any number of HTTP requests | `StoredIsConsumable`, `FoundIsLatest` across wrap-around and deletions; `StreamIsStored`; `WaitingIsAccepted` |
| `messages_shards` | 2 shards | **violated**: two messages with one id |
| `topic_public_restarts` | buffer of 0, 1 or 2 for a new file, 0 or 1 for one that is there, 4 records, any number of stops and crashes, a reader at any moment | `FileImplementsLog` across restarts; `RecentIsEndOfFile`, `RefusedOnlyWhenEmpty` (a buffer of 0 refuses the second insert), `OldestHoldsStart`; `ReaderSeesStart` |
| `topic_public_faults` | buffer of 1, 3 records, no reader, with crashes and all five failures, each any number of times and in any order | `AckedOnDiskIfWritten`: only an open for writing or a flush that fails loses an acknowledged record; `WholePrefixDense`; `PrefixIncreases`: lost records leave gaps in the offsets, never repeat one; `ConsecutiveInLife` |
| `topic_public_offsets` | buffer of 2, restart | **violated**: an offset given twice after a restart |
| `topic_public_acked` | an open that fails | **violated**: an acknowledged record that is nowhere on disk (with `"flush"` for `"open"` in `Faults` it is violated too) |
| `topic_public_oldest` | buffer of 1, nothing fails | **violated**: an oldest buffer that is empty while the file is not |
| `topic_public_reopened` | buffer of 1, a file that is there and does not open for `fileExists` or a read | **violated**: an offset given twice, because the topic was taken for a new one |

Why the bounds are enough. Two shards make every pairwise race and three let one
shard write back a copy two updates old; a fourth adds no new kind of step, and
the users beyond the fourth repeat the same cycle. In the file models four
frames are a record, a tear, the record the tear swallows, and one found again;
`topic_public_faults` has three, with every kind of failure at every step: what it checks
is about the file up to the first tear and about acknowledged records, and a failure
before, at and after a record fit in three. A buffer of two is the smallest that can be in
the wrong order. It is given to new files only: after a restart it is in the wrong
order, which is what `topic_public_offsets` shows. A configuration file is whole,
empty, or lacks one setting: a load stops at the first one missing, so a file that
lacks more is loaded like one of these. For messages, two ids are
enough to reuse one and to go negative, two clients to make one wait, and two bytes to be cut. Every bound is a named
constant: `MaxRows`, `MaxOffset`, `MaxUsers`, `MaxRecords` and `MaxSent`; `ConfigFiles`, `Leftovers`, `Changes`, `NewSizes` and
`ReloadSizes` are the inputs tried. The process may end in `messages` and
`messages_shards` (a failed connection or accept) and in the `user_...` runs (no
`--config`): these do not check for deadlock.

Fairness (`UserTopic`). Weak fairness of start-up and of each shard's own work:
a reactor thread runs the code it has entered, and the critical sections it
waits for are short and nest nothing. (A locked call is one step, so that the locks
themselves are released is taken from the code and not checked.) No fairness on requests: no client is
obliged to send one. `MessageServers` adds strong fairness of the TCP loop's
tasks: HTTP handlers run in between, but a reactor runs the tasks that are ready
in turn. That clients close their end is not assumed of them: it is the premise
of `WaitingIsAccepted`, and without it one client that stays keeps all others
waiting. What stops the loop is listed in the property: an accept that fails, a failure
of the very connection being served, a damaged map.

The mutants named `..._...` beside the definitions they replace are plausible
slips (a dropped guard, a swapped order, an off-by-one); each shows that one
property can fail.

## Findings

1. *Duplicate user offsets.* `getNewestOffsetWithRoundRobin` reads, increments a
   copy and writes back in three separately locked calls. (`user_offsets_unique`)
2. *Duplicate record offsets after a restart.* `readRecordsFromTail` returns the
   newest record first, `recentBuffer.back()` is then the oldest of them.
   (`topic_public_offsets`)
3. *Duplicate record offsets after a failed open.* `fileExists` takes a file that does
   not open for one that is not there; the topic starts again at 0 and appends.
   (`topic_public_reopened`)
4. *A failed open is not reported*, nor is a failed flush. `insert` returns normally.
   (`topic_public_acked`)
5. *The oldest buffer is not kept.* `insert` updates the recent buffer only; a new topic
   has no oldest records until it is constructed again. (`topic_public_oldest`)
6. *Duplicate message ids.* `next_id++` and the map are shared by all shards
   without a lock. (`messages_shards`)

Three more are visible in the modules and need no model checker, because one step of one
actor shows them. The header names the user topic `__users` and start-up creates it, but
`insert` counts in `__user` (`UserOffsets`). `TopicManager::nodeId` is initialised before
`main` loads the configuration, so that every row carries the empty node id (`nodeId`).
A TCP connection that falls to a reactor thread other than the main one is never
served (`Accept`).

## Proofs

Every theorem holds for any sets of shards, accounts, topics, messages and clients,
and for registries, files, histories and ids of any size, except for what its row
says. The runs check the same properties on the instances above; the inductive
invariants were given to TLC before they were proved.

| Module | Theorem | States | Under |
|---|---|---|---|
| `OffsetRegistryProofs` | `SearchForIndexIsFirst`, `VectorSearchIsExact`, `VectorSearchLast` | what the searches return | any registry; the second, rows of one node |
| `TopicManagerProofs` | `ManagerTypeCorrect` | `[]ManagerTypeOK` | |
| | `EndAfterStartAlways`, `EndRowsAreFoundAlways`, `RowsKeepTheirKeyAlways` | `[]EndAfterStart`, `[]EndRowsAreFound`, `RowsKeepTheirKey` | |
| | `SavedFileLoadsWhole` | `[]SavedLoadsWhole` | a first file that loads whole or not at all |
| `UserTopicProofs` | `TypeCorrect` | `[]TypeOK`, and `[]Filled`: an operation under way has its topic, a row about to be looked for or written back was copied first | |
| | `OneRowPerKeyAlways`, `ListingCorrect`, `ServesAsConfiguredAlways`, `NoGapsAlways` | `[]` of `OneRowPerKey`, `ListingIsPrefix`, `ServesAsConfigured`, `NoGaps` | |
| | `EndRowIsLastOffsetOnOneShard`, `UsersAreAppendLog` | `[]EndRowIsLastOffset`, `ImplementsAppendLog` | one shard |
| `TopicPublicProofs` | `TypeCorrect`, `AckedStaysOnDisk` | `[]TypeOK`, `[]AckedOnDiskIfWritten` | any failures, any buffers |
| | `ConsecutiveWithinLife` | `[]ConsecutiveInLife` | any failures; no buffer of 0, or a file that is found and opens |
| | `DenseUntilTorn`, `IncreasingUntilTorn` | `[]WholePrefixDense`, `[]PrefixIncreases` | any failures; one record or none loaded |
| | `OldestStartsUntilTorn`, `ReaderSeesStartUntilTorn` | `OldestStartsFile`, `ReaderSeesStart` | until a write is cut short, throws or is lost; any buffers |
| | `RefusedOnlyWhenEmptyUntilFailure`, `OldestHoldsUntilFailure` | `RefusedOnlyWhenEmpty`, `OldestHoldsStart` | until something but a crash fails; any buffers |
| | `RecentIsEndUntilFailure`, `OffsetsUniqueUntilTorn` | `RecentIsEndOfFile`, `FileOffsetsUnique` | the same; one record or none loaded |
| | `FileIsAppendLog` | `FileImplementsLog` | crashes only; one record or none loaded |
| `MessageServersProofs` | `TypeCorrect`, `StreamIsStoredAlways` | `[]TypeOK` with `[]Serving`: the TCP loop reads, stores and replies only while it has a client; `[]StreamIsStored` | |
| | `StoredIsConsumableOnOneShard`, `FoundIsLatestOnOneShard` | `[]StoredIsConsumable`, `[]FoundIsLatest` | one shard |

**Why the conditions are there.** Each marks where the code stops doing what the
property says. *One shard*: with two the offsets of users collide
(`user_offsets_unique`), a stale row is written back over a newer one, and the
accesses to the map overlap (`messages_shards`). *One record or none loaded*
(`ReloadSizes \subseteq {0, 1}`): the recent buffer is filled newest first, so a
restart that loads two counts from the wrong one (`topic_public_offsets`). *Until a
write is cut short*, *until something fails*: a reader of a torn file may return a
record that was never written, and a file that does not open has none of what the
buffers hold. *No buffer of 0, or a file that is found and opens*: a topic without room
for its newest record refuses a second insert because the file exists; when the
file did not open, or is taken for missing, it is not refused, and the second record gets
offset 0 again. *A first file that loads whole or not at all*: nothing repairs a file
that was started with half of the settings.

**The inductive invariants.** None of the properties is inductive as it stands: a
step in the middle of an operation uses locals that an earlier step filled.

- `TopicManager`. `ManagerTyped` adds what a shard has filled when it reaches each
  `pc`. `ManagerInv` adds that a row in hand (`Hand`) is an end row whose start row is
  registered, or a copy of the row at the index it is to be written back to; that
  every end row comes after its start row (`Ordered`); that all rows are of one
  node (`OneNode`), without which a search that compares one node id would miss some.
  `SavedLoadsWhole` rests on one fact about a save: it writes every setting, since
  the members always have a value, or leaves the file empty.
- `UserTopic`. `IInv` is `Typed` and `Shape`: each phase of start-up determines how many
  of the four rows exist, all shards but the main one are idle until the servers listen,
  and from then on every copy of a row is a copy of the fourth, to be written back
  there. `Configured` says what each phase has loaded. For `NoGaps`, `Gapless` follows
  the offsets issued, stored or held by an insert under way, and adds that the end
  row holds one of them: a write-back may move the row backwards, to an offset issued
  before, and the next increment then issues one again or one beyond. `Starting` is the
  base case, the administrator, whose offset is that of the topic just created. On one
  shard, `Counted` ties the end row to the number of users at each step of an insert,
  and the refinement maps the push to the step of the abstract log and every other
  step to a stutter.
- `TopicPublic`. `FileInv` says where tears can come from; `AckedInv` that a record
  about to be acknowledged is in the file; `LifeInv` what the next offset is counted
  from, through any failures; `GrowInv` that the next offset is above all of the file
  (`Above`) while there is no tear; `HoldsInv` that no more is acknowledged than the file
  has; `DenseInv` that before the first tear offsets are positions
  and, while there is no tear, that the newest offset in the buffer is that of the last
  record; `RecentInv` that the buffer is the end of the file, one record behind while
  one is written and not yet pushed. A crash loses the buffers and not the file; the
  lemmas of `TopicFileProofs` say what reading a file without tears gives back to the
  next life, so that each invariant survives it.
- `MessageServers`. `StreamIsStored` needs `Typed` only: which shard takes which step
  does not matter to a stream, because one loop reads it. For the map, the ids are a
  counter that wraps around. `InTurn` says that entry *i* of the history lags the next
  id by as many ids as there are entries behind it, up to one turn (`Apart`); since the
  history is no longer than a turn, two of its entries never share an id, and a put
  never hits the id of a message still in it. `Counting` says that an id is bumped
  and put before the next is taken; `Consumable` and `Found` then relate map and
  history in both directions. `ToIntOfUnsigned` and `NextInt`, about the
  conversions between `int` and `unsigned int`, are proved from the remainder.

They assume what the modules assume of their constants: `ConfigAssumption` (the
settings in a file have their types), `RegistryAssumption`, `ManagerAssumption` (the
settings tried by `Reconfigure` have theirs), `UserTopicAssumption` (the two topic
names differ and are topics; the main shard is a shard), `TopicPublicAssumption`
and the assumptions of the message modules. TLC evaluates all of these in the runs.

Only model-checked: the liveness properties `RequestsAnswered` and `WaitingIsAccepted`, since fairness and `ENABLED` are beyond this prover. Of the file
properties, what happens after the conditions above end (two records loaded, after a
tear) is either refuted by a violation run or not stated.

## Not modelled

Printing, debugging output and the clock have no state. `update` of the user topic
and its searches, the `searchByCriteria` methods, `update_message` and the setters of
the buffers have no caller: what they would be called with, and between what, is not
in the code. This is why the user topic and the message store are only partly
modelled. The setters and the save of the configuration have no caller either, but
need none to be judged by: `ManagerSpec` calls them at any moment. The future of
`listen` that the REST server drops, and with it a port that is taken, is left out:
listening succeeds. Seastar, the archive library and the file system are environment.

## Plan

Every safety property that a passing run checks is stated by a theorem, under the
conditions given above. Left, in this order:

1. The public topic for any number of records loaded at start-up: what a restart
   that counts from the wrong record keeps, as a property of `topic_public_offsets`'
   instance (no offset ahead of its position, no gap), checked and then proved.
2. The users on several shards: an offset is never ahead of the number of users
   inserted and being inserted, and what order the vector keeps when pushes overtake
   each other.
3. The public topic after a tear: what one life of the process appended stays
   consecutive in the file.
