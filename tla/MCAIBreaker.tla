---------------------------- MODULE MCAIBreaker ----------------------------
(* A small instance of AIBreaker for TLC: three callers.                    *)
EXTENDS AIBreaker

CONSTANTS w1, w2, w3
=============================================================================
