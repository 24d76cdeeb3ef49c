---------------------------- MODULE MCWooviPayment --------------------------
(* A small instance of WooviPayment for TLC: one process for the page and   *)
(* the webhook beside the two crons, h2 names the charge of somebody else.  *)
EXTENDS WooviPayment

CONSTANTS w1, h1, h2

=============================================================================
