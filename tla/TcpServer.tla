----------------------------- MODULE TcpServer -----------------------------
(***************************************************************************)
(* TcpServer: one loop, on the main shard, that accepts a connection,      *)
(* serves it until the client closes its end, and accepts the next.        *)
(*                                                                         *)
(* Whatever one read returns is stored as one message: where the stream of *)
(* a client is cut is up to the network. An exception of an accept, a read *)
(* or a write leaves the loop, main returns, and the process ends.         *)
(***************************************************************************)
EXTENDS MessageStore

CONSTANTS
  MainShard,
  Spare,      \* the reactor threads that execute no request
  Clients,    \* each connects at most once
  NoClient,
  MaxSent     \* bound: how many bytes a client sends

ASSUME TcpAssumption ==
  /\ MainShard \in Shards
  /\ NoClient \notin Clients
  /\ MaxSent \in Nat

VARIABLES
  running,   \* whether the process is
  loop,      \* what the loop does next: "accept", "read", "store", "reply";
             \* "failed" if an accept has failed
  conn,      \* the client being served
  backlog,   \* the connected clients it has not accepted, first come first
  peer,      \* how each client is: "away", "open", "ended" (it has closed its
             \* end), "reset" (its connection has failed) or "over" (served)
  unread,    \* the bytes a client has sent and the server has not read
  sent,      \* history: all the bytes a client has sent
  kept       \* history: those that were stored

networkVars == <<backlog, peer, unread, sent>>
tcpVars == <<running, loop, conn, kept, networkVars>>

TcpInit ==
  /\ running = TRUE
  /\ loop = "accept"
  /\ conn = NoClient
  /\ backlog = << >>
  /\ peer = [c \in Clients |-> "away"]
  /\ unread = [c \in Clients |-> << >>]
  /\ sent = [c \in Clients |-> << >>]
  /\ kept = [c \in Clients |-> << >>]

-----------------------------------------------------------------------------
(* The clients. What they send waits for the server to read it.            *)

Connect(c) ==
  /\ peer[c] = "away"
  /\ peer' = [peer EXCEPT ![c] = "open"]
  /\ backlog' = Append(backlog, c)
  /\ UNCHANGED <<unread, sent>>

Send(c, b) ==
  /\ peer[c] = "open"
  /\ Len(sent[c]) < MaxSent
  /\ unread' = [unread EXCEPT ![c] = Append(@, b)]
  /\ sent' = [sent EXCEPT ![c] = Append(@, b)]
  /\ UNCHANGED <<backlog, peer>>

CloseEnd(c) ==
  /\ peer[c] = "open"
  /\ peer' = [peer EXCEPT ![c] = "ended"]
  /\ UNCHANGED <<backlog, unread, sent>>

Reset(c) ==
  /\ peer[c] \in {"open", "ended"}
  /\ peer' = [peer EXCEPT ![c] = "reset"]
  /\ UNCHANGED <<backlog, unread, sent>>

Network ==
  /\ \E c \in Clients :
       \/ Connect(c)
       \/ \E b \in Bytes : Send(c, b)
       \/ CloseEnd(c)
       \/ Reset(c)
  /\ UNCHANGED <<running, loop, conn, kept>>

-----------------------------------------------------------------------------
(* The loop. Its steps are tasks of the main shard's reactor, which runs   *)
(* them when no other method is on.                                        *)

Task(label) ==
  /\ loop = label
  /\ at[MainShard] = "idle"

(* Connections are spread over the reactor threads of the process, and     *)
(* accept waits for one that falls to the main shard. One that falls to    *)
(* another stays in the queue of that shard, where nobody accepts.         *)
Accept ==
  /\ Task("accept")
  /\ backlog # << >>
  /\ backlog' = Tail(backlog)
  /\ \/ /\ conn' = Head(backlog)
        /\ loop' = "read"
     \/ /\ Shards \cup Spare # {MainShard}
        /\ UNCHANGED <<conn, loop>>
  /\ UNCHANGED <<running, kept, peer, unread, sent, storeVars>>

(* An accept may fail for want of descriptors, for instance.               *)
AcceptFails ==
  /\ Task("accept")
  /\ running' = FALSE
  /\ loop' = "failed"
  /\ UNCHANGED <<conn, kept, networkVars, storeVars>>

(* Mutant: the last byte taken for a line end. *)
MessageOf_trimmed(chunk) == SubSeq(chunk, 1, Len(chunk) - 1)

(* The string made of a chunk: all of its bytes.                           *)
MessageOf(chunk) == chunk

ReadChunk ==
  /\ Task("read")
  /\ \E n \in 1 .. Len(unread[conn]) :
       /\ CallStore(MainShard, MessageOf(SubSeq(unread[conn], 1, n)))
       /\ unread' = [unread EXCEPT ![conn] = SubSeq(@, n + 1, Len(@))]
  /\ loop' = "store"
  /\ UNCHANGED <<running, conn, kept, backlog, peer, sent>>

Stored ==
  /\ loop = "store"
  /\ kept' = [kept EXCEPT ![conn] = @ \o msg[MainShard]]
  /\ Put(MainShard)
  /\ loop' = "reply"
  /\ UNCHANGED <<running, conn, networkVars>>

(* "Stored message with ID: ", written and flushed.                        *)
Reply ==
  /\ Task("reply")
  /\ loop' = "read"
  /\ UNCHANGED <<running, conn, kept, networkVars, storeVars>>

(* Mutant: an empty buffer does not stop the iteration. *)
ReadEnd_goes_on ==
  /\ Task("read")
  /\ unread[conn] = << >>
  /\ peer[conn] = "ended"
  /\ UNCHANGED <<tcpVars, storeVars>>

(* An empty buffer: the client has closed its end, and so does the server. *)
ReadEnd ==
  /\ Task("read")
  /\ unread[conn] = << >>
  /\ peer[conn] = "ended"
  /\ peer' = [peer EXCEPT ![conn] = "over"]
  /\ conn' = NoClient
  /\ loop' = "accept"
  /\ UNCHANGED <<running, kept, backlog, unread, sent, storeVars>>

(* A read, a write or the close fails: the exception leaves handle_tcp_-   *)
(* connection, keep_doing and main, and the process ends.                  *)
ConnectionFails ==
  /\ \E label \in {"read", "reply"} : Task(label)
  /\ peer[conn] = "reset"
  /\ running' = FALSE
  /\ UNCHANGED <<loop, conn, kept, networkVars, storeVars>>

TcpTask == Accept \/ AcceptFails \/ ReadChunk \/ Reply \/ ReadEnd \/ ConnectionFails

-----------------------------------------------------------------------------

TcpTypeOK ==
  /\ running \in BOOLEAN
  /\ loop \in {"accept", "read", "store", "reply", "failed"}
  /\ conn \in Clients \cup {NoClient}
  /\ backlog \in Seq(Clients)
  /\ peer \in [Clients -> {"away", "open", "ended", "reset", "over"}]
  /\ unread \in [Clients -> Seq(Bytes)]
  /\ sent \in [Clients -> Seq(Bytes)]
  /\ kept \in [Clients -> Seq(Bytes)]

=============================================================================
