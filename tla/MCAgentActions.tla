--------------------------- MODULE MCAgentActions ---------------------------
(* An instance of AgentActions for TLC: two companies whose channels share  *)
(* one responsible.                                                         *)
EXTENDS AgentActions, TLC

CONSTANTS clinic, salon, ana, bia, doctor, product

Schedule(l, s) == [from |-> l, kind |-> "schedule", start |-> s]
Reschedule(l, s) == [from |-> l, kind |-> "reschedule", start |-> s]
Buy(l, q) == [from |-> l, kind |-> "buy", product |-> product, qty |-> q]
Say(l, k) == [from |-> l, kind |-> k]

OwnCompany == [c \in Channels |-> c]
Shared == [c \in Channels |-> doctor]
OneHour == [c \in Channels |-> 1]
SalonPauses == [c \in Channels |-> IF c = salon THEN 1 ELSE 0]
OpenHours == [c \in Channels |-> 1..3]
Writes == [l \in Leads |-> IF l = ana THEN clinic ELSE salon]
Rounds == {[user |-> doctor, start |-> 3, stop |-> 4]}

(* Ana books, moves and cancels while Bia books in the other company, or    *)
(* cancels, or asks for a closed hour.                                      *)
Agenda ==
    {<<Schedule(ana, 1), Reschedule(ana, 2), Say(ana, "cancel"), a>> :
        a \in {Schedule(bia, 2), Schedule(bia, 4)}}
        \cup {<<Schedule(ana, 2), Say(ana, "cancel"), Schedule(bia, 3), Say(bia, "cancel")>>}

(* Ana buys twice, and confirms or declines. *)
Orders == {<<Buy(ana, 1), Say(ana, "yes"), Buy(ana, 2), a>> : a \in {Say(ana, "yes"), Say(ana, "no")}}

Wishes == Agenda \cup Orders
=============================================================================
