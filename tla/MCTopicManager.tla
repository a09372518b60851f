--------------------------- MODULE MCTopicManager ---------------------------
(* TopicManager under any caller, on a small instance. *)
EXTENDS TopicManager, TLC

CONSTANT Node

(* Nothing, or a whole file. *)
MCConfigFiles ==
  {<< >>, [nodeId |-> Node, defaultPartitionCount |-> 257, defaultReplicationCount |-> 3,
           defaultISRCount |-> 2, webPort |-> 8598, tcpPort |-> 9599]}

MCChanges == {<<"nodeId", Node>>, <<"defaultPartitionCount", 2>>}

Symmetry == Permutations(Shards) \cup Permutations(Topics)

=============================================================================
