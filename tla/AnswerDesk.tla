----------------------------- MODULE AnswerDesk ------------------------------
(***************************************************************************)
(* What a customer and the attendants may count on when the robot answers  *)
(* texts with the AI (ADR-011, decisions 5 and 7): a text is heard only    *)
(* while the robot has the conversation, even if it is accepted later; it  *)
(* is closed once and for all, with one message to the customer, or in     *)
(* silence if somebody else has the conversation by then; and only an      *)
(* attendant gives a conversation back.                                    *)
(* Queues, leases, attempts, runs and their deaths are not seen here.      *)
(***************************************************************************)
EXTENDS Naturals

CONSTANTS
    Requests,   (* the texts of the customer that go to the AI              *)
    States,     (* the states of the conversation                           *)
    BotAllowed  (* those in which the robot has it                          *)

VARIABLES
    state,      (* the state of the conversation                            *)
    text,       (* of each request: "unknown", "heard", "open" or "closed"  *)
    said,       (* messages sent to the customer for each request           *)
    human       (* actions of attendants                                    *)

Init ==
    /\ state \in BotAllowed
    /\ text = [r \in Requests |-> "unknown"]
    /\ said = [r \in Requests |-> 0]
    /\ human = 0

Hear(r) ==
    /\ state \in BotAllowed
    /\ text[r] = "unknown"
    /\ text' = [text EXCEPT ![r] = "heard"]
    /\ UNCHANGED <<state, said, human>>

Accept(r) ==
    /\ text[r] = "heard" \/ (text[r] = "unknown" /\ state \in BotAllowed)
    /\ text' = [text EXCEPT ![r] = "open"]
    /\ UNCHANGED <<state, said, human>>

(* What heard the text is lost: it will be heard again.                     *)
Forget(r) ==
    /\ text[r] = "heard"
    /\ text' = [text EXCEPT ![r] = "unknown"]
    /\ UNCHANGED <<state, said, human>>

(* The customer, or the robot's rules, move the conversation. *)
Converse ==
    /\ state \in BotAllowed
    /\ state' \in States
    /\ UNCHANGED <<text, said, human>>

Attend ==
    /\ state' \in States
    /\ human' = human + 1
    /\ UNCHANGED <<text, said>>

(* The requests of S are answered, and the robot may hand over by that.     *)
Answer(S) ==
    /\ S # {} /\ \A r \in S : text[r] = "open"
    /\ text' = [r \in Requests |-> IF r \in S THEN "closed" ELSE text[r]]
    /\ said' = [r \in Requests |-> IF r \in S THEN said[r] + 1 ELSE said[r]]
    /\ \/ UNCHANGED state
       \/ state \in BotAllowed /\ state' = "waiting_internal"
    /\ UNCHANGED human

DropInSilence(r) ==
    /\ state \notin BotAllowed
    /\ text[r] = "open"
    /\ text' = [text EXCEPT ![r] = "closed"]
    /\ UNCHANGED <<state, said, human>>

Next ==
    \/ Converse \/ Attend
    \/ \E r \in Requests : Hear(r) \/ Accept(r) \/ Forget(r) \/ DropInSilence(r)
    \/ \E S \in SUBSET Requests : Answer(S)

Spec == Init /\ [][Next]_<<state, text, said, human>>

=============================================================================
