-------------------------- MODULE MCStatusEvents ---------------------------
(* A small instance of StatusEvents for TLC: two webhook requests.          *)
EXTENDS StatusEvents

CONSTANTS h1, h2
=============================================================================
