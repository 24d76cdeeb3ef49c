---------------------------- MODULE PaymentLedger ----------------------------
(***************************************************************************)
(* What the shop may count on for a PIX payment, whatever delivers the     *)
(* answers of Woovi and in whatever order (payment_transaction.py:6,       *)
(* woovi_event.py:3): the payment is confirmed once and only when it was   *)
(* received with the right value; only the confirmation makes the          *)
(* transaction done; and a transaction that is closed stays closed.        *)
(* Webhooks, crons, locks, stored events and crashes are not seen here.    *)
(***************************************************************************)
EXTENDS Naturals

CONSTANT None

VARIABLES
    paid,          (* Woovi received the right value                        *)
    state,         (* the state of the transaction                          *)
    status,        (* what is known of the charge, or None                  *)
    confirmations  (* how often the payment was confirmed                   *)

States == {"draft", "pending", "cancel", "error", "done"}

Statuses == {"active", "error", "expired", "completed", "refunded", None}

(* Nothing but a refund is news after these. *)
Final == {"completed", "refunded"}

(* A transaction goes from one state to another, or stays: an error may     *)
(* still be paid, what is cancelled or done is over.                        *)
Leads(from, to) ==
    \/ from = to
    \/ from = "draft"
    \/ from = "pending" /\ to # "draft"
    \/ from = "error" /\ to = "done"

Init == paid = FALSE /\ state = "draft" /\ status = None /\ confirmations = 0

Move ==
    /\ state' \in States /\ status' \in Statuses
    /\ Leads(state, state')
    /\ UNCHANGED paid

Receive ==
    /\ ~paid /\ paid' = TRUE
    /\ UNCHANGED <<state, status, confirmations>>

(* The customer of a cancelled transaction has paid, and it is known. *)
Confirm ==
    /\ Move
    /\ paid /\ status \notin Final
    /\ status' \in Final /\ state' \in {"done", "cancel"}
    /\ confirmations' = confirmations + 1

Refund ==
    /\ Move
    /\ status # "refunded" /\ status' = "refunded"
    /\ state' = "done" <=> state = "done"
    /\ status = "completed" => state' = state
    /\ UNCHANGED confirmations

(* The charge is created, shown, refused, expires or is paid wrongly. *)
Report ==
    /\ Move
    /\ status \notin Final /\ status' \notin Final
    /\ state' # "done"
    /\ UNCHANGED confirmations

(* The page closes what was refunded and never confirmed. *)
Close ==
    /\ Move
    /\ status = "refunded" /\ UNCHANGED status
    /\ state' = "cancel"
    /\ UNCHANGED confirmations

Next == Receive \/ Confirm \/ Refund \/ Report \/ Close

Spec == Init /\ [][Next]_<<paid, state, status, confirmations>>

=============================================================================
