---------------------------- MODULE MCUserTopic ----------------------------
(* The user topic and its start-up on small instances. *)
EXTENDS UserTopic, TLC

CONSTANT Node

WholeFile ==
  [nodeId |-> Node, defaultPartitionCount |-> 4, defaultReplicationCount |-> 3,
   defaultISRCount |-> 2, webPort |-> 8598, tcpPort |-> 9599]

(* A count and a port that are wider than their use. *)
WideFile == [WholeFile EXCEPT !["defaultPartitionCount"] = 257, !["webPort"] = 70000]

(* The whole file, what is left of it without any one setting, nothing,    *)
(* and the numbers that are too wide.                                      *)
AnyFile ==
  {WholeFile, WideFile, << >>}
    \cup {[f \in Fields \ {g} |-> WholeFile[f]] : g \in Fields}

OneFile == {WholeFile}

(* Without the ports, the counts are loaded. *)
FileWithoutPorts == {[f \in Fields \ Ports |-> WholeFile[f]]}

Symmetry == Permutations(Shards \ {MainShard}) \cup Permutations(Accounts)

=============================================================================
