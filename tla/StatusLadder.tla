---------------------------- MODULE StatusLadder ----------------------------
(***************************************************************************)
(* What the life cycle of a message promises (ADR-006): the status shown   *)
(* for it depends on which facts have been applied and not on the order    *)
(* they came in.  It is one of the applied facts of the highest rank, and  *)
(* it changes only when a fact of a higher rank is applied.                *)
(***************************************************************************)
EXTENDS Integers

CONSTANTS
    Facts,    (* the statuses a provider, or the sender itself, may report  *)
    Start,    (* the status of a message of which nothing is known          *)
    Rank      (* the rank of each status, a function                        *)

VARIABLES
    applied,  (* the facts applied so far *)
    current   (* the status shown         *)

Tops(A) == {s \in A \cup {Start} :
               \A t \in A \cup {Start} : Rank[t] <= Rank[s]}

Init == applied = {} /\ current = Start

Learn(A) ==
    /\ A # {}
    /\ applied' = applied \cup A
    /\ current' \in Tops(applied')
    /\ current' # current => Rank[current'] > Rank[current]

Next == \E A \in SUBSET Facts : Learn(A)

Spec == Init /\ [][Next]_<<applied, current>>

=============================================================================
