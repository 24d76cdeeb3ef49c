--------------------------- MODULE MCMessageInbox --------------------------
(* Instances of MessageInbox for TLC. *)
EXTENDS MessageInbox

CONSTANT order

(* Both messages confirm the same order. *)
SameOrder == [m \in Messages |-> order]
=============================================================================
