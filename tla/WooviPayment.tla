---------------------------- MODULE WooviPayment ----------------------------
(***************************************************************************)
(* One PIX transaction of dz23_payment_woovi and its charge at Woovi: the  *)
(* payment page creates the charge, webhooks and the reconciliation cron   *)
(* become deduplicated events, and each event is applied to the            *)
(* transaction under its row lock, at once or later by the events cron.    *)
(*                                                                         *)
(* A webhook only triggers a query: the status applied is the one the API  *)
(* answers.  The body of a reconciliation event is itself such an answer,  *)
(* kept and perhaps applied much later.                                    *)
(*                                                                         *)
(* Transactions of the database run at REPEATABLE READ: `mine` is what a   *)
(* process sees and writes, and the row lock fails for the processes in    *)
(* `stale`, whose snapshot is older than a committed write of the row.  A  *)
(* request that loses the race for the lock on the payment page is run     *)
(* again by the framework, so it counts as one that starts later.          *)
(*                                                                         *)
(* The transaction is in BRL and its amount is positive.                   *)
(***************************************************************************)
EXTENDS Integers, FiniteSets

CONSTANTS
    Hooks,        (* bodies of webhooks that Woovi sends about the charge   *)
    Foreign,      (* those that name the charge of somebody else            *)
    Web,          (* processes that serve the page and the webhook          *)
    EventsCron,   (* the process of _cron_process_pending                   *)
    Reconciler,   (* the process of _cron_woovi_reconcile                   *)
    Amounts,      (* what the API may answer as received: "right", "wrong", *)
                  (* or "missing"                                           *)
    MaxAttempts,  (* _MAX_ATTEMPTS                                          *)
    MaxKills,     (* bound: runs and requests that are killed               *)
    None

Remote == {"active", "completed", "expired", "refunded"}

Keys == Hooks \cup Remote

Procs == Web \cup {EventsCron, Reconciler}

ASSUME ProcsAssumption ==
    /\ EventsCron \notin Web /\ Reconciler \notin Web /\ EventsCron # Reconciler
    /\ None \notin Procs

ASSUME BodiesAssumption ==
    /\ Foreign \subseteq Hooks
    /\ Hooks \cap Remote = {}
    /\ None \notin Keys /\ None # "error"
    /\ Amounts \subseteq {"right", "wrong", "missing"}
    /\ MaxAttempts \in Nat \ {0} /\ MaxKills \in Nat

VARIABLES
    tx,      (* the committed row of payment.transaction                    *)
    event,   (* the committed rows of dz23.woovi.event, by event_key        *)
    remote,  (* the status of the charge at Woovi, or None                  *)
    amount,  (* the value received that the API answers                     *)
    late,    (* woovi_expires_at has passed                                 *)
    phase,   (* what a process is doing                                     *)
    todo,    (* the events a process has still to handle                    *)
    got,     (* the API's answer for the event it is handling               *)
    mine,    (* the transaction as the process sees it                      *)
    out,     (* the events it has handled and not committed                 *)
    owner,   (* the process that holds the row lock, or None                *)
    wrote,   (* the owner has written the row                               *)
    stale,   (* processes whose snapshot is older than the row              *)
    kills    (* runs and requests killed so far (bound)                     *)

provider == <<remote, amount>>
db == <<tx, event>>
local == <<phase, todo, got, mine, out>>
locks == <<owner, wrote, stale>>
vars == <<provider, late, db, local, locks, kills>>

-----------------------------------------------------------------------------
(* payment.transaction: its own state, woovi_status, and whether            *)
(* woovi_charge_id is set.                                                  *)
Tx == [state : {"draft", "pending", "cancel", "error", "done"},
       status : Remote \cup {"error", None},
       charge : BOOLEAN]

NewTx == [state |-> "draft", status |-> None, charge |-> FALSE]

Event == [state : {"absent", "pending", "done", "ignored", "rejected", "failed"},
          attempts : Nat,
          confirmed : BOOLEAN]        (* result: "pagamento confirmado"       *)

Rank == [active |-> 10, error |-> 15, expired |-> 20, completed |-> 30, refunded |-> 40]

(* The setters of Odoo leave the row alone unless its state allows the move.*)
(* ("authorized", which they also allow, is never set for this provider.)   *)
Moved(t, from, to) == IF t.state \in from THEN [t EXCEPT !.state = to] ELSE t

SetPending(t)  == Moved(t, {"draft"}, "pending")
SetCanceled(t) == Moved(t, {"draft", "pending"}, "cancel")
SetError(t)    == Moved(t, {"draft", "pending"}, "error")
SetDone(t)     == Moved(t, {"draft", "pending", "error"}, "done")

(* Bug: only a second application of the same status is refused.            *)
OnlyRepeated(t, s) == t.status = s /\ s # "active"

(* Bug: the same final status is applied again.                             *)
OnlyOutOfOrder(t, s) == t.status # None /\ Rank[s] < Rank[t.status]

(* An event older than what is known, or one that is applied already.       *)
Ignored(t, s) ==
    /\ t.status # None
    /\ Rank[s] < Rank[t.status] \/ (s = t.status /\ s # "active")

(* Bug: the value received is not compared.                                 *)
ConfirmedUnchecked(t) == SetDone([t EXCEPT !.status = "completed"])

(* _woovi_confirm *)
Confirmed(t) ==
    IF amount = "right" THEN SetDone([t EXCEPT !.status = "completed"])
    ELSE SetError([t EXCEPT !.status = "error"])

(* _woovi_apply_payment_data, when it does not ignore the status s. *)
Applied(t, s) ==
    CASE s = "completed" -> Confirmed(t)
      [] s = "expired"   -> SetCanceled([t EXCEPT !.status = s])
      [] s = "refunded"  -> [t EXCEPT !.status = s]
      [] s = "active"    -> SetPending([t EXCEPT !.status = s])

(* No value received: WooviEventError, and the savepoint is rolled back     *)
(* together with its row lock.                                              *)
NoValue(t, s) == s = "completed" /\ amount = "missing" /\ ~Ignored(t, s)

Outcome(t, s) ==
    IF Ignored(t, s) THEN "ignored"
    ELSE IF NoValue(t, s) THEN "failed"
    ELSE IF s = "completed" /\ amount = "wrong" THEN "rejected"
    ELSE "done"

Closed(r, state) == [state |-> state, attempts |-> r.attempts + 1, confirmed |-> FALSE]

(* Bug: the attempt of a failure is not counted.                            *)
RetriedForEver(r) == [r EXCEPT !.state = "pending", !.attempts = 1]

(* Bug: one attempt more than _MAX_ATTEMPTS.                                *)
RetriedPastLimit(r) ==
    Closed(r, IF r.attempts + 1 > MaxAttempts THEN "failed" ELSE "pending")

(* Bug: an event is tried once.                                             *)
FailedAtOnce(r) == Closed(r, "failed")

(* Any other exception: the cron tries again until the attempts are spent. *)
Retried(r) == Closed(r, IF r.attempts + 1 >= MaxAttempts THEN "failed" ELSE "pending")

Reusable(t) == t.charge /\ t.status = "active" /\ ~late

-----------------------------------------------------------------------------
Init ==
    /\ tx = NewTx
    /\ event = [k \in Keys |-> [state |-> "absent", attempts |-> 0, confirmed |-> FALSE]]
    /\ remote = None /\ amount = "right"
    /\ late = FALSE
    /\ phase = [w \in Procs |-> "idle"]
    /\ todo = [w \in Procs |-> {}]
    /\ got = [w \in Procs |-> None]
    /\ mine = [w \in Procs |-> NewTx]
    /\ out = [w \in Procs |-> <<>>]
    /\ owner = None /\ wrote = FALSE /\ stale = {}
    /\ kills = 0

(* Woovi: the customer pays, sees the QR code first; a charge expires or is *)
(* refunded.                                                                *)
Pay ==
    /\ remote = "active" /\ tx.charge
    /\ remote' = "completed"
    /\ amount' \in Amounts
    /\ UNCHANGED <<late, db, local, locks, kills>>

Expire ==
    /\ remote = "active"
    /\ remote' = "expired"
    /\ UNCHANGED <<amount, late, db, local, locks, kills>>

Refund ==
    /\ remote = "completed"
    /\ remote' = "refunded"
    /\ UNCHANGED <<amount, late, db, local, locks, kills>>

ClockPasses ==
    /\ tx.charge /\ ~late
    /\ late' = TRUE
    /\ UNCHANGED <<provider, db, local, locks, kills>>

-----------------------------------------------------------------------------
(* The transaction of w ends; what it wrote is visible, or lost. *)
End(w) ==
    /\ phase' = [phase EXCEPT ![w] = "idle"]
    /\ todo' = [todo EXCEPT ![w] = {}]
    /\ got' = [got EXCEPT ![w] = None]
    /\ mine' = [mine EXCEPT ![w] = NewTx]
    /\ out' = [out EXCEPT ![w] = <<>>]

Released(w) ==
    /\ owner' = IF owner = w THEN None ELSE owner
    /\ wrote' = (wrote /\ owner # w)

Busy(w) == {v \in Procs \ {w} : phase[v] # "idle"}

(* The row of the transaction is written and committed at once. *)
CommitTx(w, t) ==
    /\ End(w) /\ Released(w)
    /\ tx' = t
    /\ stale' = (stale \cup Busy(w)) \ {w}
    /\ UNCHANGED <<provider, late, event, kills>>

(* The process is killed, or the reconciliation finds the API unavailable. *)
Crash(w) ==
    /\ phase[w] # "idle" /\ kills < MaxKills
    /\ kills' = kills + 1
    /\ End(w) /\ Released(w)
    /\ stale' = stale \ {w}
    /\ UNCHANGED <<provider, late, db>>

-----------------------------------------------------------------------------
(* _woovi_ensure_charge under the row lock.  A charge that can still be paid*)
(* is shown again; one that cannot is closed; without one, it is created.   *)
RenderExpired(w) ==
    LET shown == IF tx.status = "active" THEN [tx EXCEPT !.status = "expired"] ELSE tx
    IN  /\ w \in Web /\ phase[w] = "idle" /\ owner = None
        /\ tx.charge /\ ~Reusable(tx)
        /\ SetCanceled(shown) # tx
        /\ CommitTx(w, SetCanceled(shown))

RenderNew(w) ==
    /\ w \in Web /\ phase[w] = "idle" /\ owner = None
    /\ ~tx.charge
    /\ phase' = [phase EXCEPT ![w] = "post"]
    /\ mine' = [mine EXCEPT ![w] = tx]
    /\ owner' = w
    /\ UNCHANGED <<provider, late, db, todo, got, out, wrote, stale, kills>>

(* Woovi creates the charge; it refuses a correlationID it already knows.   *)
PostAccepted(w) ==
    /\ phase[w] = "post" /\ remote = None
    /\ remote' = "active"
    /\ phase' = [phase EXCEPT ![w] = "answer"]
    /\ UNCHANGED <<amount, late, db, todo, got, mine, out, locks, kills>>

PostAnswered(w) ==
    /\ phase[w] = "answer"
    /\ CommitTx(w, SetPending([mine[w] EXCEPT !.charge = TRUE, !.status = "active"]))

(* The call is refused or times out, or the answer is not this charge.      *)
PostFailed(w) ==
    /\ phase[w] \in {"post", "answer"}
    /\ CommitTx(w, SetError(mine[w]))

-----------------------------------------------------------------------------
(* A transaction that handles the events of S takes its snapshot. *)
Begin(w, p, S) ==
    /\ phase[w] = "idle"
    /\ phase' = [phase EXCEPT ![w] = p]
    /\ todo' = [todo EXCEPT ![w] = S]
    /\ mine' = [mine EXCEPT ![w] = tx]
    /\ UNCHANGED <<provider, late, db, got, out, locks, kills>>

(* woovi_webhook and _ingest_payload: the event is created.  A body that is *)
(* known already, or that another request is creating, changes nothing.     *)
Deliver(w, h) ==
    /\ w \in Web /\ remote # None
    /\ event[h].state = "absent"
    /\ \A v \in Procs : h \notin todo[v]
    /\ Begin(w, "events", {h})

(* _cron_process_pending *)
RunEventsCron ==
    /\ \E k \in Keys : event[k].state = "pending"
    /\ Begin(EventsCron, "events", {k \in Keys : event[k].state = "pending"})

(* _cron_woovi_reconcile selects the transaction and queries its charge.    *)
RunReconcile ==
    /\ tx.charge /\ tx.state \in {"draft", "pending"}
    /\ Begin(Reconciler, "query", {})

(* The answer becomes an event; the same answer was one already.            *)
QueryAnswered ==
    /\ phase[Reconciler] = "query"
    /\ event[remote].state = "absent"
    /\ phase' = [phase EXCEPT ![Reconciler] = "events"]
    /\ todo' = [todo EXCEPT ![Reconciler] = {remote}]
    /\ UNCHANGED <<provider, late, db, got, mine, out, locks, kills>>

QueryKnown ==
    /\ phase[Reconciler] = "query"
    /\ event[remote].state # "absent"
    /\ End(Reconciler) /\ Released(Reconciler)
    /\ stale' = stale \ {Reconciler}
    /\ UNCHANGED <<provider, late, db, kills>>

-----------------------------------------------------------------------------
(* _process_one ends the event k of w as the row r, after it left the       *)
(* transaction as t; the last event commits all of them.                    *)
SettleLast(w, k, r, t, dirty) ==
    /\ todo[w] = {k}
    /\ event' = [e \in Keys |-> IF e = k THEN r
                               ELSE IF e \in DOMAIN out[w] THEN out[w][e] ELSE event[e]]
    /\ tx' = IF dirty THEN t ELSE tx
    /\ stale' = (IF dirty THEN stale \cup Busy(w) ELSE stale) \ {w}
    /\ End(w) /\ Released(w)
    /\ UNCHANGED <<provider, late, kills>>

SettleOne(w, k, r, t) ==
    /\ todo[w] # {k}
    /\ todo' = [todo EXCEPT ![w] = @ \ {k}]
    /\ got' = [got EXCEPT ![w] = None]
    /\ mine' = [mine EXCEPT ![w] = t]
    /\ out' = [out EXCEPT ![w] = [e \in DOMAIN @ \cup {k} |-> IF e = k THEN r ELSE @[e]]]
    /\ UNCHANGED <<provider, late, db, phase, stale, kills>>

(* The event ends without the row lock. *)
Settle(w, k, r) ==
    \/ SettleLast(w, k, r, mine[w], wrote /\ owner = w)
    \/ SettleOne(w, k, r, mine[w]) /\ UNCHANGED <<owner, wrote>>

Free(w) == owner \in {None, w}

Handling(w, k) == phase[w] = "events" /\ k \in todo[w]

(* _trusted_payment_data refuses a webhook before it asks the API. *)
Refused(w, k) ==
    /\ Handling(w, k) /\ k \in Hooks
    /\ \/ /\ ~mine[w].charge
          /\ Settle(w, k, Closed(event[k], "ignored"))
       \/ /\ mine[w].charge /\ k \in Foreign
          /\ Settle(w, k, Closed(event[k], "rejected"))

(* Bug: the status is the one the webhook claims.                           *)
TrustedClaim(w, k) == "completed"

(* The status to apply: of the answer to the query, or of the answer that   *)
(* the reconciliation kept.                                                 *)
Trusted(w, k) == IF k \in Hooks THEN got[w] ELSE k

(* The API answers the query of a webhook. *)
Query(w, k) ==
    /\ Handling(w, k) /\ k \in Hooks \ Foreign
    /\ mine[w].charge /\ got[w] = None
    /\ got' = [got EXCEPT ![w] = remote]
    /\ UNCHANGED <<provider, late, db, phase, todo, mine, out, locks, kills>>

QueryFailed(w, k) ==
    /\ Handling(w, k) /\ k \in Hooks \ Foreign
    /\ mine[w].charge /\ got[w] = None
    /\ Settle(w, k, Retried(event[k]))

Ready(w, k) ==
    /\ Handling(w, k) /\ Free(w)
    /\ k \in Hooks => k \notin Foreign /\ got[w] # None

(* The row lock fails: the row was written after the snapshot was taken. *)
Conflict(w, k) ==
    /\ Ready(w, k) /\ w \in stale
    /\ Settle(w, k, Retried(event[k]))

(* _woovi_apply_payment_data under the row lock. *)
Apply(w, k) ==
    LET s == Trusted(w, k)
        outcome == Outcome(mine[w], s)
        writes == outcome \in {"done", "rejected"}
        t == IF writes THEN Applied(mine[w], s) ELSE mine[w]
        r == [Closed(event[k], outcome) EXCEPT !.confirmed = (outcome = "done" /\ s = "completed")]
        dirty == writes \/ (wrote /\ owner = w)
    IN  /\ Ready(w, k) /\ w \notin stale
        /\ \/ SettleLast(w, k, r, t, dirty)
           \/ /\ SettleOne(w, k, r, t) /\ wrote' = dirty
              /\ owner' = IF outcome = "failed" THEN owner ELSE w

-----------------------------------------------------------------------------
HandleEvent(w) ==
    \E k \in Keys :
        Refused(w, k) \/ Query(w, k) \/ QueryFailed(w, k) \/ Conflict(w, k) \/ Apply(w, k)

Render(w) ==
    RenderExpired(w) \/ RenderNew(w) \/ PostAccepted(w) \/ PostAnswered(w) \/ PostFailed(w)

Next ==
    \/ Pay \/ Expire \/ Refund \/ ClockPasses
    \/ \E w \in Web : Render(w) \/ \E h \in Hooks : Deliver(w, h)
    \/ RunEventsCron \/ RunReconcile \/ QueryAnswered \/ QueryKnown
    \/ \E w \in Procs : HandleEvent(w) \/ Crash(w)

Spec == Init /\ [][Next]_vars

-----------------------------------------------------------------------------
Paid == remote \in {"completed", "refunded"}

Received == Paid /\ amount = "right"

TypeOK ==
    /\ tx \in Tx
    /\ event \in [Keys -> Event]
    /\ remote \in Remote \cup {None} /\ amount \in Amounts \cup {"right"}
    /\ late \in BOOLEAN /\ wrote \in BOOLEAN
    /\ phase \in [Procs -> {"idle", "post", "answer", "query", "events"}]
    /\ todo \in [Procs -> SUBSET Keys]
    /\ got \in [Procs -> Remote \cup {None}]
    /\ mine \in [Procs -> Tx]
    /\ DOMAIN out = Procs
    /\ \A w \in Procs :
          /\ DOMAIN out[w] \subseteq Keys
          /\ \A k \in DOMAIN out[w] : out[w][k] \in Event
    /\ owner \in Procs \cup {None}
    /\ owner # None => phase[owner] # "idle"
    /\ stale \subseteq Procs
    /\ kills \in 0..MaxKills
    /\ \A k \in Keys : event[k].attempts <= MaxAttempts

(* A transaction is "done" only if Woovi was paid, with the right value,    *)
(* whatever webhooks claim, and in whatever order stored and fresh answers  *)
(* are applied (woovi_event.py:108, "Webhook é só GATILHO").                *)
DoneMeansPaid == tx.state = "done" => Received

(* The events that bear the confirmation of the payment. *)
Confirmations == Cardinality({k \in Keys : event[k].confirmed})

(* The confirmation of a payment is applied once, by one event, however     *)
(* many webhooks and queries report it and whoever handles them             *)
(* (woovi_event.py:3, "Cada efeito é aplicado uma única vez").              *)
ConfirmedOnce == Confirmations <= 1

Ledger == INSTANCE PaymentLedger
              WITH paid <- Received, state <- tx.state, status <- tx.status,
                   confirmations <- Confirmations

(* The page, the webhooks and the crons, with their snapshots, stored       *)
(* answers and crashes, do to the payment what the ledger allows.           *)
KeepsLedger == Ledger!Spec

(* What is known of a payment is never lost to a late answer: a transaction *)
(* that is done stays done, and after "completed" or "refunded" comes       *)
(* nothing of a lower rank (payment_transaction.py:6, "MONOTÔNICA").        *)
PaymentStays ==
    [][/\ tx.state = "done" => tx'.state = "done"
       /\ tx.status = "completed" => tx'.status \in {"completed", "refunded"}
       /\ tx.status = "refunded" => tx'.status = "refunded"]_vars

(* An event that waits is closed: applied, refused, or failed when its      *)
(* attempts are spent.                                                      *)
EventuallyClosed ==
    \A k \in Keys : event[k].state = "pending" ~> event[k].state # "pending"

Unsettled == remote = "completed" /\ amount = "right" /\ tx.state = "pending"

(* A payment is found, even if all its webhooks are lost or came too early, *)
(* unless the page closed the transaction first.                            *)
EventuallyFound ==
    Unsettled ~> (tx.state \in {"done", "cancel"} \/ remote = "refunded")

(* docs/runbooks/queue_recovery.md:32: "a conciliação periódica corrige     *)
(* status perdido".  So a payment that waits is confirmed.                  *)
LostStatusCorrected == Unsettled ~> (tx.state = "done" \/ remote = "refunded")

(* The crons start again and again, and what is begun goes on. *)
Fairness ==
    /\ WF_vars(RunEventsCron) /\ WF_vars(RunReconcile)
    /\ WF_vars(QueryAnswered \/ QueryKnown)
    /\ \A w \in Procs : WF_vars(HandleEvent(w))
    /\ \A w \in Web : WF_vars(PostAccepted(w) \/ PostAnswered(w) \/ PostFailed(w))

FairSpec == Spec /\ Fairness

=============================================================================
