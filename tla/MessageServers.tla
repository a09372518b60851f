--------------------------- MODULE MessageServers ---------------------------
(***************************************************************************)
(* The message routes of RestServer, on every shard, and TcpServer, on the *)
(* main one, over the one message store that main gives both.              *)
(***************************************************************************)
EXTENDS TcpServer

vars == <<storeVars, tcpVars>>

Init == StoreInit /\ TcpInit

-----------------------------------------------------------------------------
(* The routes. A GET without credentials, and a GET or a DELETE whose id   *)
(* does not parse as an int, are answered without a call.                  *)

PostMessage(s) ==
  /\ \E b \in Bytes : CallStore(s, <<b>>)
  /\ UNCHANGED tcpVars

GetMessage(s) == CallGet(s) /\ UNCHANGED tcpVars

DeleteMessage(s) ==
  /\ \E i \in Ints : CallErase(s, i)
  /\ UNCHANGED tcpVars

(* The method a handler has called goes on, and with it the handler. *)
Method(s) ==
  \/ LoadNextId(s) /\ UNCHANGED tcpVars
  \/ BumpNextId(s) /\ UNCHANGED tcpVars
  \/ Put(s) /\ ~(s = MainShard /\ loop = "store") /\ UNCHANGED tcpVars
  \/ Get(s) /\ UNCHANGED tcpVars
  \/ Erase(s) /\ UNCHANGED tcpVars
  \/ s = MainShard /\ Stored

Next ==
  /\ running
  /\ \/ Network /\ UNCHANGED storeVars
     \/ TcpTask
     \/ \E s \in Shards :
          \/ PostMessage(s)
          \/ GetMessage(s)
          \/ DeleteMessage(s)
          \/ Method(s)

Spec == Init /\ [][Next]_vars

(* A reactor finishes the method it is in, and runs the tasks that are     *)
(* ready in the order they became so: requests do not keep the loop from   *)
(* its turn. Nothing is promised of a broken map; what clients do is up to *)
(* them.                                                                   *)
Works == running /\ ~broken

Fairness ==
  /\ SF_vars(Works /\ TcpTask)
  /\ \A s \in Shards : WF_vars(Works /\ Method(s))

FairSpec == Spec /\ Fairness

-----------------------------------------------------------------------------

TypeOK == StoreTypeOK /\ TcpTypeOK

(* A message whose id was given to a client is found under that id until   *)
(* it is deleted, or as many messages have been stored since as there are  *)
(* ids: "End users can produce and consume data via TCP or REST            *)
(* endpoints". It is so on one shard, across the wrap-around of ids and    *)
(* for TCP and HTTP clients alike; on two not even with the map intact.    *)
StoredIsConsumable ==
  \A i \in DOMAIN stored :
    ~stored[i].deleted /\ ~broken =>
      /\ stored[i].id \in DOMAIN messages
      /\ messages[stored[i].id] = stored[i].msg

(* On one shard what is found under an id is the latest message stored     *)
(* under it, and that was not deleted. (After a turn of ids one that comes *)
(* round again replaces the message that has it, deleted or not.)          *)
FoundIsLatest ==
  \A k \in DOMAIN messages :
    \E i \in DOMAIN stored :
      /\ stored[i].id = k /\ stored[i].msg = messages[k] /\ ~stored[i].deleted
      /\ \A j \in DOMAIN stored : j > i => stored[j].id # k

(* However the network cuts the stream of a client, the messages made of   *)
(* it are the stream: no byte is lost, doubled or moved on the way from    *)
(* the socket to the store.                                                *)
StreamIsStored ==
  \A c \in Clients :
    sent[c] = kept[c] \o (IF loop = "store" /\ conn = c THEN msg[MainShard] ELSE << >>)
                      \o unread[c]

(* One connection is served at a time. If every client that is served      *)
(* closes its end sooner or later, every client that waits leaves the      *)
(* backlog: it is served, or falls to a shard where nobody serves it. A    *)
(* client that closes its end never stops the server: only an accept that  *)
(* fails does, or the connection being served, or a damaged map.           *)
WaitingIsAccepted ==
  (\A c \in Clients : conn = c ~> peer[c] # "open") =>
    \A c \in Clients :
      (\E i \in DOMAIN backlog : backlog[i] = c) ~>
        \/ \A i \in DOMAIN backlog : backlog[i] # c
        \/ loop = "failed"
        \/ ~running /\ \E d \in Clients : conn = d /\ peer[d] = "reset"
        \/ broken

=============================================================================
