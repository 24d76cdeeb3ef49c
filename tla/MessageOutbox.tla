--------------------------- MODULE MessageOutbox ---------------------------
(***************************************************************************)
(* The outbox queue of dz23_whatsapp (models/message_outbox.py, with the   *)
(* claim and lease helpers of models/queue_utils.py): items are enqueued,  *)
(* claimed in batches by concurrent runs of the cron, sent to the          *)
(* provider one by one, retried with a backoff, and end as "sent" or in    *)
(* the dead-letter queue.                                                  *)
(*                                                                         *)
(* Time is kept in countdowns, so the state space is finite: `lease` is    *)
(* what is left of lease_until, `wait` what is left until next_attempt_at, *)
(* `pause` what is left of the channel's rate_limited_until.               *)
(*                                                                         *)
(* A run of the cron is one database transaction up to the commit after    *)
(* the claim, and then one transaction per item.  Cursors run at           *)
(* REPEATABLE READ: a transaction that writes a row another one changed    *)
(* since its snapshot fails.  `stale` holds the runs this has happened to: *)
(* they can only abort.                                                    *)
(***************************************************************************)
EXTENDS Integers, FiniteSets

CONSTANTS
    Items,         (* ids of the outbox rows; the batch is walked in id order *)
    Channels,      (* WhatsApp channels                                       *)
    ChannelOf,     (* the channel_id of each row                              *)
    Correlated,    (* channels whose callbacks carry correlation_id (Meta)    *)
    Workers,       (* concurrent runs of _cron_process                        *)
    MaxAttempts,   (* max_attempts of a row (_MAX_ATTEMPTS)                   *)
    LeaseTicks,    (* _LEASE_SECONDS                                          *)
    BudgetTicks,   (* _TIME_BUDGET_SECONDS                                    *)
    CallTicks,     (* longest provider call (_TIMEOUT of the HTTP request)    *)
    Backoffs,      (* the delays _register_failure may choose                 *)
    Pauses,        (* the pauses a 429 may cause                              *)
    BatchLimit,    (* _BATCH                                                  *)
    ChannelLimit,  (* dz23.whatsapp.outbox_per_channel_batch                  *)
    MaxRequeues,   (* bound: clicks on "Reenviar" in a behaviour              *)
    None

ASSUME SetsAssumption ==
    /\ Items \subseteq Nat
    /\ ChannelOf \in [Items -> Channels]
    /\ Correlated \subseteq Channels
    /\ None \notin Items

ASSUME NumbersAssumption ==
    /\ MaxAttempts \in Nat \ {0}
    /\ LeaseTicks \in Nat \ {0}
    /\ BudgetTicks \in Nat
    /\ CallTicks \in Nat
    /\ Backoffs \subseteq Nat
    /\ Pauses \subseteq Nat
    /\ BatchLimit \in Nat \ {0}
    /\ ChannelLimit \in Nat \ {0}
    /\ MaxRequeues \in Nat

(* 50 s of budget and one call of 15 s are shorter than the 300 s lease.   *)
ASSUME LeaseAssumption == BudgetTicks + CallTicks < LeaseTicks

VARIABLES
    item,      (* the committed row of each item                          *)
    pause,     (* what is left of rate_limited_until, per channel         *)
    pc,        (* where each run is: idle, next (between items), calling  *)
               (* (request sent), accepted (the provider took the message)*)
    batch,     (* items a run has claimed and not processed yet           *)
    cur,       (* the item a run is processing                            *)
    owned,     (* runs whose open transaction wrote (locked) its row      *)
    stale,     (* runs whose row was changed under their snapshot         *)
    spent,     (* time since the run committed its claim                  *)
    call,      (* time since the current provider call began              *)
    form,      (* rows whose form, opened while failed or dead, shows the *)
               (* "Reenviar" button                                       *)
    requeues,  (* clicks so far (bound)                                   *)
    reached,   (* history: the provider accepted the item at least once   *)
    acked      (* history: acceptances a run has committed, per item      *)

runVars  == <<pc, batch, cur, owned, spent, call>>
userVars == <<form, requeues>>
vars == <<item, pause, runVars, stale, userVars, reached, acked>>

-----------------------------------------------------------------------------
Statuses  == {"absent", "pending", "sending", "sent", "failed", "dead"}
DlqReasons == {"none", "permanent_error", "max_attempts", "lease_expired"}
Lifecycle == {"queued", "sent", "failed", "delivered", "read"}
Errors    == {"permanent", "transient", "rate_limited"}

(* STATUS_RANK of message_event.py; undelivered, expired and cancelled have *)
(* the rank of failed and are represented by it.                            *)
Rank(s) == CASE s = "queued"    -> 10
             [] s = "sent"      -> 20
             [] s = "failed"    -> 25
             [] s = "delivered" -> 30
             [] s = "read"      -> 40

Row == [status : Statuses, attempts : Nat, lease : 0..LeaseTicks, wait : Nat,
        pmid : BOOLEAN, dlq : DlqReasons, current : Lifecycle]

NewRow == [status |-> "absent", attempts |-> 0, lease |-> 0, wait |-> 0,
           pmid |-> FALSE, dlq |-> "none", current |-> "queued"]

Dec(n) == IF n = 0 THEN 0 ELSE n - 1

-----------------------------------------------------------------------------
(* What the code's writes do to one row.                                    *)

(* _apply_status: monotone in the rank. *)
Applied(s, r) ==
    IF Rank(s) > Rank(r.current) THEN [r EXCEPT !.current = s] ELSE r

Enqueued(r) == [r EXCEPT !.status = "pending"]

(* claim_due and _claim_one *)
Claimed(r) ==
    [r EXCEPT !.status = "sending", !.attempts = @ + 1, !.lease = LeaseTicks]

Dead(reason, r) ==
    Applied("failed", [r EXCEPT !.status = "dead", !.dlq = reason, !.lease = 0])

(* Bug: recovery takes a lost lease for a message that left.                *)
RecoveredAsSent(r) == [r EXCEPT !.status = "sent", !.lease = 0]

(* One row of _recover_expired_leases. *)
Recovered(r) ==
    IF r.pmid THEN [r EXCEPT !.status = "sent", !.lease = 0]
    ELSE IF r.attempts >= MaxAttempts THEN Dead("lease_expired", r)
    ELSE [r EXCEPT !.status = "failed", !.lease = 0, !.wait = 0]

(* Bug: the claim is taken back from a row whose attempts were reset.       *)
ReturnedBelowZero(r) ==
    [r EXCEPT !.status = "pending", !.attempts = @ - 1, !.lease = 0]

(* The time budget of _cron_process ran out before the row was reached. *)
Returned(r) ==
    [r EXCEPT !.status = "pending", !.attempts = Dec(@), !.lease = 0]

(* The success branch of _process_one. *)
Sent(r) ==
    Applied("sent", [r EXCEPT !.status = "sent", !.pmid = TRUE,
                              !.dlq = "none", !.lease = 0])

(* The guard of _process_one: the provider's id is already there. *)
AlreadySent(r) ==
    IF r.status = "sent" THEN r ELSE [r EXCEPT !.status = "sent", !.lease = 0]

(* _register_failure, with the delay it chose. *)
Failed(error, delay, r) ==
    IF error = "permanent" THEN Dead("permanent_error", r)
    ELSE IF r.attempts >= MaxAttempts THEN Dead("max_attempts", r)
    ELSE [r EXCEPT !.status = "failed", !.lease = 0, !.wait = delay]

(* _reconcile_provider_id *)
Reconciled(r) ==
    IF r.status = "sent" THEN [r EXCEPT !.pmid = TRUE]
    ELSE [r EXCEPT !.pmid = TRUE, !.status = "sent", !.lease = 0, !.dlq = "none"]

(* action_requeue *)
Requeued(r) ==
    [r EXCEPT !.status = "pending", !.attempts = 0, !.wait = 0, !.lease = 0,
              !.dlq = "none"]

(* Time passes for a row. *)
Ticked(r) == [r EXCEPT !.lease = Dec(@), !.wait = Dec(@)]

-----------------------------------------------------------------------------
Held(w) == batch[w] \cup (IF cur[w] = None THEN {} ELSE {cur[w]})

(* The row is locked by the uncommitted _claim_one of a run. *)
RowLocked(i) == \E w \in owned : cur[w] = i

(* The runs, other than those of W, that have read rows of S in their open *)
(* transaction: their later write of such a row will fail.                  *)
Overtaken(S, W) == {w \in Workers \ W : cur[w] \in S}

(* The row as the open transaction of w sees it. *)
View(w) == IF w \in owned THEN Claimed(item[cur[w]]) ELSE item[cur[w]]

(* Bug: recovery looks at the status only.                                  *)
ExpiredAtOnce(r) == r.status = "sending"

Expired(r) == r.status = "sending" /\ r.lease = 0

(* Bug: a failed row is never picked up again.                              *)
DueOnlyOnce(r, c) == r.status = "pending" /\ r.wait = 0 /\ pause[c] = 0

Due(r, c) == r.status \in {"pending", "failed"} /\ r.wait = 0 /\ pause[c] = 0

InChannel(S, c) == {i \in S : ChannelOf[i] = c}

(* The sets claim_due may return: as many due rows as the two limits admit. *)
(* Which ones is decided by next_attempt_at, which the model abstracts.     *)
ClaimSets(rows) ==
    LET due == {i \in Items : ~RowLocked(i) /\ Due(rows[i], ChannelOf[i])}
        full(S, i) == \/ Cardinality(S) >= BatchLimit
                      \/ Cardinality(InChannel(S, ChannelOf[i])) >= ChannelLimit
    IN  {S \in SUBSET due :
            /\ Cardinality(S) <= BatchLimit
            /\ \A c \in Channels : Cardinality(InChannel(S, c)) <= ChannelLimit
            /\ \A i \in due \ S : full(S, i)}

-----------------------------------------------------------------------------
Init ==
    /\ item = [i \in Items |-> NewRow]
    /\ pause = [c \in Channels |-> 0]
    /\ pc = [w \in Workers |-> "idle"]
    /\ batch = [w \in Workers |-> {}]
    /\ cur = [w \in Workers |-> None]
    /\ owned = {}
    /\ stale = {}
    /\ spent = [w \in Workers |-> 0]
    /\ call = [w \in Workers |-> 0]
    /\ form = {}
    /\ requeues = 0
    /\ reached = {}
    /\ acked = [i \in Items |-> 0]

Enqueue(i) ==
    /\ item[i].status = "absent"
    /\ item' = [item EXCEPT ![i] = Enqueued(@)]
    /\ UNCHANGED <<pause, runVars, stale, userVars, reached, acked>>

(* _cron_process up to its commit: recover the expired leases, then claim.  *)
RunCron(w) ==
    LET rows == [i \in Items |-> IF Expired(item[i]) THEN Recovered(item[i])
                                                     ELSE item[i]]
    IN  /\ pc[w] = "idle"
        /\ \E S \in ClaimSets(rows) :
            /\ item' = [i \in Items |-> IF i \in S THEN Claimed(rows[i])
                                                   ELSE rows[i]]
            /\ item' # item
            /\ batch' = [batch EXCEPT ![w] = S]
            /\ pc' = [pc EXCEPT ![w] = IF S = {} THEN "idle" ELSE "next"]
            /\ stale' = stale \cup Overtaken({i \in Items : item'[i] # item[i]}, {w})
        /\ UNCHANGED <<pause, cur, owned, spent, call, userVars, reached, acked>>

(* The walk over the batch is over. *)
EndRun(w) ==
    /\ pc[w] = "next"
    /\ batch[w] = {}
    /\ pc' = [pc EXCEPT ![w] = "idle"]
    /\ spent' = [spent EXCEPT ![w] = 0]
    /\ UNCHANGED <<item, pause, batch, cur, owned, stale, call, userVars,
                   reached, acked>>

(* The time budget is spent: every remaining row goes back to the queue, in *)
(* one transaction (the loop does not commit these writes one by one).      *)
ReturnRest(w) ==
    /\ pc[w] = "next"
    /\ batch[w] # {}
    /\ spent[w] > BudgetTicks
    /\ \A i \in batch[w] : ~RowLocked(i)
    /\ item' = [i \in Items |-> IF i \in batch[w] THEN Returned(item[i])
                                                  ELSE item[i]]
    /\ stale' = stale \cup Overtaken(batch[w], {w})
    /\ batch' = [batch EXCEPT ![w] = {}]
    /\ pc' = [pc EXCEPT ![w] = "idle"]
    /\ spent' = [spent EXCEPT ![w] = 0]
    /\ UNCHANGED <<pause, cur, owned, call, userVars, reached, acked>>

(* Bug: the run does not look at its time budget.                           *)
NextItemPastBudget(w, i) ==
    /\ pc[w] = "next"
    /\ i \in batch[w]
    /\ \A j \in batch[w] : i <= j
    /\ ~RowLocked(i)

(* The row _cron_process handles next.  A run that meets a row locked by    *)
(* another one waits for it and then fails on the concurrent update, which  *)
(* is Abort.                                                                *)
NextItem(w, i) ==
    /\ pc[w] = "next"
    /\ spent[w] <= BudgetTicks
    /\ i \in batch[w]
    /\ \A j \in batch[w] : i <= j
    /\ ~RowLocked(i)

(* Bug: the guard trusts the status alone.                                  *)
NeedsNoSendByStatus(r) == r.status = "sent"

NeedsNoSend(r) == r.status = "sent" \/ r.pmid

(* _process_one on a row that already has the provider's id. *)
SkipSent(w, i) ==
    /\ NextItem(w, i)
    /\ NeedsNoSend(item[i])
    /\ item' = [item EXCEPT ![i] = AlreadySent(@)]
    /\ stale' = stale \cup (IF item'[i] = item[i] THEN {} ELSE Overtaken({i}, {w}))
    /\ batch' = [batch EXCEPT ![w] = @ \ {i}]
    /\ UNCHANGED <<pause, pc, cur, owned, spent, call, userVars, reached, acked>>

(* _process_one takes its snapshot, claims the row again when it is no      *)
(* longer "sending", and calls the provider.                                *)
StartCall(w, i) ==
    /\ NextItem(w, i)
    /\ ~NeedsNoSend(item[i])
    /\ batch' = [batch EXCEPT ![w] = @ \ {i}]
    /\ cur' = [cur EXCEPT ![w] = i]
    /\ owned' = IF item[i].status = "sending" THEN owned ELSE owned \cup {w}
    /\ stale' = IF item[i].status = "sending" THEN stale
                ELSE stale \cup Overtaken({i}, {w})
    /\ pc' = [pc EXCEPT ![w] = "calling"]
    /\ call' = [call EXCEPT ![w] = 0]
    /\ UNCHANGED <<item, pause, spent, userVars, reached, acked>>

(* The provider accepts the message; its answer is still on the way. *)
ProviderAccepts(w) ==
    /\ pc[w] = "calling"
    /\ pc' = [pc EXCEPT ![w] = "accepted"]
    /\ reached' = reached \cup {cur[w]}
    /\ UNCHANGED <<item, pause, batch, cur, owned, stale, spent, call,
                   userVars, acked>>

(* The item's transaction commits `row` for the current item. *)
CommitItem(w, row) ==
    /\ w \notin stale
    /\ item' = [item EXCEPT ![cur[w]] = row]
    /\ stale' = stale \cup Overtaken({cur[w]}, {w})
    /\ cur' = [cur EXCEPT ![w] = None]
    /\ owned' = owned \ {w}
    /\ pc' = [pc EXCEPT ![w] = "next"]
    /\ call' = [call EXCEPT ![w] = 0]

(* The answer arrives and the success branch of _process_one commits,       *)
(* together with the highest status among the callbacks that came before    *)
(* the provider's id was stored (_apply_early_status_events).  A snapshot   *)
(* taken before the call would show none of them and leave them to the      *)
(* events cron, as in StatusEvents; here any of them may be found.          *)
CommitSent(w, early) ==
    /\ pc[w] = "accepted"
    /\ CommitItem(w, Applied(early, Sent(View(w))))
    /\ acked' = [acked EXCEPT ![cur[w]] = @ + 1]
    /\ UNCHANGED <<pause, batch, spent, userVars, reached>>

(* The send raised: the provider (or a check before the call) refused, or   *)
(* the answer of an accepted message was lost (always transient).           *)
CommitFailure(w, error) ==
    /\ \/ pc[w] = "calling"
       \/ pc[w] = "accepted" /\ error = "transient"
    /\ \E delay \in Backoffs : CommitItem(w, Failed(error, delay, View(w)))
    /\ IF error = "rate_limited" /\ View(w).attempts < MaxAttempts
       THEN \E p \in Pauses : pause' = [pause EXCEPT ![ChannelOf[cur[w]]] = p]
       ELSE UNCHANGED pause
    /\ UNCHANGED <<batch, spent, userVars, reached, acked>>

(* The run dies (killed, out of memory, restart), or its transaction fails  *)
(* on a concurrent update: the open transaction rolls back and the rest of  *)
(* the batch is left to the leases.                                         *)
Abort(w) ==
    /\ pc[w] # "idle"
    /\ pc' = [pc EXCEPT ![w] = "idle"]
    /\ batch' = [batch EXCEPT ![w] = {}]
    /\ cur' = [cur EXCEPT ![w] = None]
    /\ owned' = owned \ {w}
    /\ stale' = stale \ {w}
    /\ call' = [call EXCEPT ![w] = 0]
    /\ spent' = [spent EXCEPT ![w] = 0]
    /\ UNCHANGED <<item, pause, userVars, reached, acked>>

(* A status callback reaches the outbox (dz23.message.event                 *)
(* _apply_to_outbox): matched by the provider's id, or by correlation_id,   *)
(* which also proves an acceptance whose answer was lost.                   *)
Callback(i, s) ==
    LET r == IF item[i].pmid THEN item[i] ELSE Reconciled(item[i])
    IN  /\ i \in reached
        /\ item[i].pmid \/ ChannelOf[i] \in Correlated
        /\ ~RowLocked(i)
        /\ Applied(s, r) # item[i]
        /\ item' = [item EXCEPT ![i] = Applied(s, r)]
        /\ stale' = stale \cup Overtaken({i}, {})
        /\ UNCHANGED <<pause, runVars, userVars, reached, acked>>

(* The form shows "Reenviar" only for failed and dead rows, but the click   *)
(* comes later and action_requeue checks nothing.                           *)
OpenForm(i) ==
    /\ item[i].status \in {"failed", "dead"}
    /\ requeues < MaxRequeues
    /\ i \notin form
    /\ form' = form \cup {i}
    /\ UNCHANGED <<item, pause, runVars, stale, requeues, reached, acked>>

Requeue(i) ==
    /\ i \in form
    /\ requeues < MaxRequeues
    /\ ~RowLocked(i)
    /\ item' = [item EXCEPT ![i] = Requeued(@)]
    /\ stale' = stale \cup Overtaken({i}, {})
    /\ form' = form \ {i}
    /\ requeues' = requeues + 1
    /\ UNCHANGED <<pause, runVars, reached, acked>>

(* One unit of time.  A run never lingers between two items, and a provider *)
(* call ends, by answer or timeout, within CallTicks.                       *)
Tick ==
    /\ \A w \in Workers : \/ pc[w] = "idle"
                          \/ /\ pc[w] \in {"calling", "accepted"}
                             /\ call[w] < CallTicks
    /\ item' = [i \in Items |-> Ticked(item[i])]
    /\ pause' = [c \in Channels |-> Dec(pause[c])]
    /\ spent' = [w \in Workers |-> IF pc[w] = "idle" THEN spent[w] ELSE spent[w] + 1]
    /\ call' = [w \in Workers |-> IF pc[w] = "idle" THEN call[w] ELSE call[w] + 1]
    /\ <<item, pause, spent>>' # <<item, pause, spent>>
    /\ UNCHANGED <<pc, batch, cur, owned, stale, userVars, reached, acked>>

WorkerStep(w) ==
    \/ EndRun(w)
    \/ ReturnRest(w)
    \/ \E i \in Items : SkipSent(w, i) \/ StartCall(w, i)
    \/ \E early \in Lifecycle : CommitSent(w, early)
    \/ \E e \in Errors : CommitFailure(w, e)
    \/ Abort(w)

Next ==
    \/ \E i \in Items : Enqueue(i) \/ OpenForm(i) \/ Requeue(i)
    \/ \E i \in Items, s \in Lifecycle : Callback(i, s)
    \/ \E w \in Workers : RunCron(w) \/ ProviderAccepts(w) \/ WorkerStep(w)
    \/ Tick

Spec == Init /\ [][Next]_vars

-----------------------------------------------------------------------------
TypeOK ==
    /\ item \in [Items -> Row]
    /\ pause \in [Channels -> Nat]
    /\ pc \in [Workers -> {"idle", "next", "calling", "accepted"}]
    /\ batch \in [Workers -> SUBSET Items]
    /\ cur \in [Workers -> Items \cup {None}]
    /\ \A w \in Workers : cur[w] = None <=> pc[w] \in {"idle", "next"}
    /\ owned \subseteq Workers
    /\ stale \subseteq Workers
    /\ spent \in [Workers -> Nat]
    /\ call \in [Workers -> 0..CallTicks]
    /\ form \subseteq Items
    /\ requeues \in 0..MaxRequeues
    /\ reached \subseteq Items
    /\ acked \in [Items -> Nat]

(* A lease outlasts the run that took it: whatever the batch, the calls and *)
(* the budget, no item still in the hands of a living run ever has an       *)
(* expired lease, so recovery never gives it to a second run.               *)
LeaseCoversHolder ==
    \A w \in Workers : \A i \in Held(w) : ~Expired(item[i])

(* The guarantee in the header of message_outbox.py: an acceptance that was *)
(* stored is the only one that ever is.  Duplicates reach the customer only *)
(* when an acceptance was lost, never after one was recorded.               *)
AckedOnce == \A i \in Items : acked[i] <= 1

(* A row that carries the provider's id is never in the dead-letter queue:  *)
(* the late answer of a run, an expired lease or a callback racing with     *)
(* both cannot report as undeliverable what the provider accepted.          *)
ConfirmedNotDead == \A i \in Items : item[i].pmid => item[i].status # "dead"

(* "sent", and any status beyond it, is only shown for a message the        *)
(* provider really accepted.                                                *)
SentIsTrue ==
    \A i \in Items :
        /\ item[i].status = "sent" => item[i].pmid
        /\ item[i].pmid \/ item[i].current \in {"sent", "delivered", "read"}
              => i \in reached

(* The rows implement MessageDelivery: what is still in the queue is        *)
(* waiting, and the calls in flight are those of the runs.                  *)
StageOf(r) ==
    IF r.status \in {"pending", "sending", "failed"} THEN "waiting" ELSE r.status

Stages == [i \in Items |-> StageOf(item[i])]
OnRecord == [i \in Items |-> item[i].pmid]

Delivery == INSTANCE MessageDelivery
            WITH Messages <- Items, Senders <- Workers, stage <- Stages,
                 known <- OnRecord, accepted <- reached, acks <- acked,
                 sending <- cur, clicks <- requeues

(* The guarantee in the header of message_outbox.py as a specification: no  *)
(* call for a message whose acceptance is on record, no two calls for one   *)
(* message at a time and none for a message given up unless a person asked  *)
(* for a resend, and nothing the provider is known to have accepted in the  *)
(* dead-letter queue.                                                       *)
KeepsDelivery == Delivery!Spec

(* Every enqueued message is settled: sent, or in the dead-letter queue     *)
(* where a person sees it.                                                  *)
EventuallySettled ==
    \A i \in Items :
        item[i].status \in {"pending", "sending", "failed"}
            ~> item[i].status \in {"sent", "dead"}

Fairness ==
    /\ WF_vars(Tick)
    /\ \A w \in Workers : WF_vars(RunCron(w)) /\ WF_vars(WorkerStep(w))

FairSpec == Spec /\ Fairness

=============================================================================
