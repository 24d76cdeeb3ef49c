--------------------------- MODULE MCPersonalData ---------------------------
(* An instance of PersonalData for TLC. *)
EXTENDS PersonalData
=============================================================================
