-------------------------- MODULE MCMessageServers --------------------------
(* The message store with its servers on small instances. *)
EXTENDS MessageServers
=============================================================================
