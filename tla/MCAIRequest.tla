---------------------------- MODULE MCAIRequest -----------------------------
(* Instances of AIRequest for TLC. *)
EXTENDS AIRequest, TLC

Symmetry == Permutations(Workers)
=============================================================================
