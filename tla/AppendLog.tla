----------------------------- MODULE AppendLog -----------------------------
(***************************************************************************)
(* What a topic promises its producers, abstracted from every data         *)
(* structure that implements it: an append-only log in which the offset of *)
(* a record is assigned when the record is inserted and is the position of *)
(* the record, counted from 0.                                             *)
(*                                                                         *)
(* It is the reading of "Offset(Auto-increment ...)" and "Offset should be *)
(* incremented on the insert time automatically" (REQUIREMENTS.md) that    *)
(* the code's getAutoIncrementedOffset and getNewestOffsetWithRoundRobin   *)
(* aim at.                                                                 *)
(***************************************************************************)
EXTENDS Naturals, Sequences

CONSTANT Messages   \* what a producer may insert

VARIABLE log

LogRecord == [offset : Nat, message : Messages]

Init == log = << >>

(* Nothing but this is ever done to the log: no record is changed, moved,  *)
(* or removed, and no offset is skipped or given twice.                    *)
Append1(m) == log' = Append(log, [offset |-> Len(log), message |-> m])

Next == \E m \in Messages : Append1(m)

Spec == Init /\ [][Next]_log

=============================================================================
