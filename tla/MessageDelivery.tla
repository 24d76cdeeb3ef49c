-------------------------- MODULE MessageDelivery ---------------------------
(***************************************************************************)
(* What the outbox promises about each message (header of                  *)
(* message_outbox.py).  A call to the provider is only begun for a message *)
(* whose acceptance is not on record, and two calls for one message are    *)
(* never in flight together unless a person asked for a resend.  The       *)
(* record of an acceptance is made once and never lost, and a message is   *)
(* given up only when no acceptance is on record and nobody is calling.    *)
(* Batches, leases, attempts, delays and transactions are not seen here.   *)
(***************************************************************************)
EXTENDS Naturals

CONSTANTS
    Messages,
    Senders,    (* those who call the provider                              *)
    None

VARIABLES
    stage,      (* of each message: "absent", "waiting", "sent" or "dead"   *)
    known,      (* is an acceptance of the message on record                *)
    accepted,   (* the messages the provider really accepted                *)
    acks,       (* acceptances recorded by senders, per message             *)
    sending,    (* the message each sender is calling the provider for      *)
    clicks      (* resends a person asked for                               *)

Init ==
    /\ stage = [m \in Messages |-> "absent"]
    /\ known = [m \in Messages |-> FALSE]
    /\ accepted = {}
    /\ acks = [m \in Messages |-> 0]
    /\ sending = [s \in Senders |-> None]
    /\ clicks = 0

InFlight(m) == \E s \in Senders : sending[s] = m

Submit(m) ==
    /\ stage[m] = "absent"
    /\ stage' = [stage EXCEPT ![m] = "waiting"]
    /\ UNCHANGED <<known, accepted, acks, sending, clicks>>

Begin(s, m) ==
    /\ sending[s] = None
    /\ stage[m] # "absent"
    /\ ~known[m]
    /\ clicks > 0 \/ (stage[m] = "waiting" /\ ~InFlight(m))
    /\ sending' = [sending EXCEPT ![s] = m]
    /\ UNCHANGED <<stage, known, accepted, acks, clicks>>

Accept(s) ==
    /\ sending[s] # None
    /\ accepted' = accepted \cup {sending[s]}
    /\ UNCHANGED <<stage, known, acks, sending, clicks>>

(* The call of s is over: its outcome is written, or s died with it.        *)
Done(s) == sending[s] # None /\ sending' = [sending EXCEPT ![s] = None]

Acknowledge(s) ==
    /\ Done(s)
    /\ sending[s] \in accepted
    /\ ~known[sending[s]]
    /\ known' = [known EXCEPT ![sending[s]] = TRUE]
    /\ stage' = [stage EXCEPT ![sending[s]] = "sent"]
    /\ acks' = [acks EXCEPT ![sending[s]] = @ + 1]
    /\ UNCHANGED <<accepted, clicks>>

Fail(s) ==
    /\ Done(s)
    /\ ~known[sending[s]]
    /\ \E outcome \in {"waiting", "dead"} :
          stage' = [stage EXCEPT ![sending[s]] = outcome]
    /\ UNCHANGED <<known, accepted, acks, clicks>>

Drop(s) == Done(s) /\ UNCHANGED <<stage, known, accepted, acks, clicks>>

(* The provider itself reports a message whose acceptance is not on record. *)
Confirm(m) ==
    /\ m \in accepted
    /\ ~known[m]
    /\ known' = [known EXCEPT ![m] = TRUE]
    /\ stage' = [stage EXCEPT ![m] = "sent"]
    /\ UNCHANGED <<accepted, acks, sending, clicks>>

(* Messages nobody will call for again: on record, or given up.             *)
Settle(S) ==
    /\ S # {}
    /\ \A m \in S : stage[m] = "waiting" /\ (known[m] \/ ~InFlight(m))
    /\ stage' = [m \in Messages |-> IF m \notin S THEN stage[m]
                                    ELSE IF known[m] THEN "sent" ELSE "dead"]
    /\ UNCHANGED <<known, accepted, acks, sending, clicks>>

(* A sender out of time hands its rest back without looking at it.          *)
Reopen(S) ==
    /\ S # {}
    /\ \A m \in S : stage[m] \in {"sent", "dead"} /\ (known[m] \/ clicks > 0)
    /\ stage' = [m \in Messages |-> IF m \in S THEN "waiting" ELSE stage[m]]
    /\ UNCHANGED <<known, accepted, acks, sending, clicks>>

Requeue(m) ==
    /\ stage[m] # "absent"
    /\ stage' = [stage EXCEPT ![m] = "waiting"]
    /\ clicks' = clicks + 1
    /\ UNCHANGED <<known, accepted, acks, sending>>

Next ==
    \/ \E m \in Messages : Submit(m) \/ Confirm(m) \/ Requeue(m)
    \/ \E s \in Senders, m \in Messages : Begin(s, m)
    \/ \E s \in Senders : Accept(s) \/ Acknowledge(s) \/ Fail(s) \/ Drop(s)
    \/ \E S \in SUBSET Messages : Settle(S) \/ Reopen(S)

vars == <<stage, known, accepted, acks, sending, clicks>>

Spec == Init /\ [][Next]_vars

=============================================================================
