-------------------------- MODULE MessageHandling ---------------------------
(***************************************************************************)
(* What the inbox promises about each message and each business action     *)
(* (ADR-003, ADR-005).  A message that is done is not handled again, one   *)
(* that was given up or is in somebody's hands is not begun, and what is   *)
(* over stays over, all until a person asks for reprocessing.  A message   *)
(* that is done has its business action executed, and the action is        *)
(* executed once for its key, whoever asks for it.  Batches, leases,       *)
(* attempts and transactions are not seen here.                            *)
(***************************************************************************)
EXTENDS Naturals

CONSTANTS
    Messages,
    Keys,       (* idempotency keys of business actions                     *)
    KeyOf,      (* the key of the action a message asks for, or None        *)
    Handlers,
    None

VARIABLES
    stage,      (* of each message: "absent", "waiting", "done" or "dead"   *)
    inHand,     (* the message each handler is at work on                   *)
    effects,    (* executions of the action of each key                     *)
    clicks      (* times a person asked for reprocessing                    *)

Init ==
    /\ stage = [m \in Messages |-> "absent"]
    /\ inHand = [h \in Handlers |-> None]
    /\ effects = [k \in Keys |-> 0]
    /\ clicks = 0

Taken(m) == \E h \in Handlers : inHand[h] = m

Arrive(m) ==
    /\ stage[m] = "absent"
    /\ stage' = [stage EXCEPT ![m] = "waiting"]
    /\ UNCHANGED <<inHand, effects, clicks>>

Begin(h, m) ==
    /\ inHand[h] = None
    /\ stage[m] \in {"waiting", "dead"}
    /\ clicks > 0 \/ (stage[m] = "waiting" /\ ~Taken(m))
    /\ inHand' = [inHand EXCEPT ![h] = m]
    /\ UNCHANGED <<stage, effects, clicks>>

(* h is rid of its message, and leaves it in the given stage.               *)
End(h, outcome) ==
    /\ inHand[h] # None
    /\ inHand' = [inHand EXCEPT ![h] = None]
    /\ stage' = [stage EXCEPT ![inHand[h]] = outcome]
    /\ UNCHANGED clicks

Finish(h) ==
    /\ End(h, "done")
    /\ effects' = IF KeyOf[inHand[h]] = None THEN effects
                  ELSE [effects EXCEPT ![KeyOf[inHand[h]]] = 1]

Fail(h) == (End(h, "waiting") \/ End(h, "dead")) /\ UNCHANGED effects

Drop(h) == End(h, stage[inHand[h]]) /\ UNCHANGED effects

GiveUp(S) ==
    /\ S # {}
    /\ \A m \in S : stage[m] = "waiting" /\ ~Taken(m)
    /\ stage' = [m \in Messages |-> IF m \in S THEN "dead" ELSE stage[m]]
    /\ UNCHANGED <<inHand, effects, clicks>>

(* A handler out of time hands its rest back without looking at it: after   *)
(* a click it may be over already.                                          *)
Reopen(S) ==
    /\ clicks > 0
    /\ S # {}
    /\ \A m \in S : stage[m] \in {"done", "dead"}
    /\ stage' = [m \in Messages |-> IF m \in S THEN "waiting" ELSE stage[m]]
    /\ UNCHANGED <<inHand, effects, clicks>>

Reprocess(m) ==
    /\ stage[m] # "absent"
    /\ stage' = [stage EXCEPT ![m] = "waiting"]
    /\ clicks' = clicks + 1
    /\ UNCHANGED <<inHand, effects>>

Next ==
    \/ \E m \in Messages : Arrive(m) \/ Reprocess(m)
    \/ \E h \in Handlers, m \in Messages : Begin(h, m)
    \/ \E h \in Handlers : Finish(h) \/ Fail(h) \/ Drop(h)
    \/ \E S \in SUBSET Messages : GiveUp(S) \/ Reopen(S)

vars == <<stage, inHand, effects, clicks>>

Spec == Init /\ [][Next]_vars

=============================================================================
