-------------------------- MODULE MCMessageOutbox --------------------------
(* Instances of MessageOutbox for TLC. *)
EXTENDS MessageOutbox

CONSTANTS meta, evo

(* Row 1 goes through Meta, the others through a channel without            *)
(* correlation ids.                                                         *)
MixedChannels == [i \in Items |-> IF i = 1 THEN meta ELSE evo]
=============================================================================
