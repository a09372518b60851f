--------------------------- MODULE MCTopicPublic ---------------------------
(* A public topic on small instances. *)
EXTENDS TopicPublic, TLC

Symmetry == Permutations(Messages)

=============================================================================
