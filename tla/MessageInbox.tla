---------------------------- MODULE MessageInbox ----------------------------
(***************************************************************************)
(* The inbox of dz23_whatsapp (models/message_inbox.py) and the register   *)
(* of business actions (models/business_action.py): received messages are  *)
(* claimed in batches by concurrent runs of the cron, handled one by one,  *)
(* retried, and end as "done" or in the dead-letter queue.  Handling a     *)
(* message writes its replies and its business effect in the transaction   *)
(* that marks it done.                                                     *)
(*                                                                         *)
(* The module has no clock: a backoff may end and the time budget of a run *)
(* may be spent at any moment.  Of the 600 s of a lease it only uses that  *)
(* they outlast a run, whose process is stopped after limit_time_real =    *)
(* 240 s (docker/odoo.conf): the lease of a row runs out at any moment     *)
(* after the run that holds the row is gone.                               *)
(*                                                                         *)
(* Transactions run at REPEATABLE READ, as in MessageOutbox: `stale` holds *)
(* the runs whose row was changed under their snapshot.                    *)
(***************************************************************************)
EXTENDS Integers, FiniteSets

CONSTANTS
    Messages,     (* ids of the messages; a batch is walked in id order     *)
    Keys,         (* idempotency keys of business actions                   *)
    KeyOf,        (* the key of the action a message asks for, or None; two *)
                  (* messages that confirm the same order share their key   *)
    Workers,      (* concurrent runs of _cron_process                       *)
    MaxAttempts,  (* max_attempts of a row (_MAX_ATTEMPTS)                  *)
    BatchLimit,   (* _BATCH                                                 *)
    MaxRequeues,  (* bound: clicks on "Reprocessar" in a behaviour          *)
    None

ASSUME MessagesAssumption ==
    /\ Messages \subseteq Nat
    /\ KeyOf \in [Messages -> Keys \cup {None}]
    /\ None \notin Messages /\ None \notin Keys

ASSUME WorkersAssumption == IsFiniteSet(Workers)

ASSUME LimitsAssumption ==
    /\ MaxAttempts \in Nat \ {0}
    /\ BatchLimit \in Nat \ {0}
    /\ MaxRequeues \in Nat

VARIABLES
    row,       (* the committed row of each message                         *)
    batch,     (* messages a run has claimed and not handled yet            *)
    cur,       (* the message a run is handling                             *)
    begun,     (* runs that have handled a message of their batch           *)
    owned,     (* runs whose open transaction wrote (locked) its row        *)
    stale,     (* runs whose row was changed under their snapshot           *)
    seen,      (* runs whose snapshot holds the finished business action    *)
    form,      (* rows whose form, opened while failed or dead, shows the   *)
               (* button                                                    *)
    requeues,  (* clicks so far (bound)                                     *)
    ran,       (* history: committed executions of each business action     *)
    handled    (* history: committed executions of handle_inbound           *)

runVars == <<batch, cur, begun, owned, seen>>
history == <<ran, handled>>
vars == <<row, runVars, stale, form, requeues, history>>

-----------------------------------------------------------------------------
Statuses == {"absent", "pending", "processing", "done", "failed", "dead"}

Row == [status : Statuses, attempts : Nat, lease : {"none", "live", "over"}]

Claimed(r) == [status |-> "processing", attempts |-> r.attempts + 1, lease |-> "live"]

Settled(r, status) == [r EXCEPT !.status = status, !.lease = "none"]

(* _register_failure and _recover_expired_leases: one more try, or the      *)
(* dead-letter queue.                                                       *)
Failed(r) == Settled(r, IF r.attempts >= MaxAttempts THEN "dead" ELSE "failed")

(* Bug: the claim is taken back from a row whose attempts were reset.       *)
ReturnedBelowZero(r) == [Settled(r, "pending") EXCEPT !.attempts = @ - 1]

(* The time budget of _cron_process ran out before the row was reached. *)
Returned(r) ==
    [Settled(r, "pending") EXCEPT !.attempts = IF @ = 0 THEN 0 ELSE @ - 1]

(* action_requeue *)
Requeued(r) == [status |-> "pending", attempts |-> 0, lease |-> "none"]

(* Bug: recovery looks at the status only.                                  *)
ExpiredAtOnce(r) == r.status = "processing"

Expired(r) == r.status = "processing" /\ r.lease = "over"

(* Bug: a failed row is never picked up again.                              *)
DueOnlyOnce(r) == r.status = "pending"

Due(r) == r.status \in {"pending", "failed"}

RowLocked(m) == \E w \in owned : cur[w] = m

(* The runs, other than w, that are handling a message of S. *)
Overtaken(S, w) == {v \in Workers \ {w} : cur[v] \in S}

View(w) == IF w \in owned THEN Claimed(row[cur[w]]) ELSE row[cur[w]]

Idle(w) == cur[w] = None /\ batch[w] = {}

-----------------------------------------------------------------------------
Init ==
    /\ row = [m \in Messages |-> [status |-> "absent", attempts |-> 0, lease |-> "none"]]
    /\ batch = [w \in Workers |-> {}]
    /\ cur = [w \in Workers |-> None]
    /\ begun = {}
    /\ owned = {}
    /\ stale = {}
    /\ seen = {}
    /\ form = {}
    /\ requeues = 0
    /\ ran = [k \in Keys |-> 0]
    /\ handled = [m \in Messages |-> 0]

(* _enqueue: later deliveries of the same message find its row. *)
Receive(m) ==
    /\ row[m].status = "absent"
    /\ row' = [row EXCEPT ![m].status = "pending"]
    /\ UNCHANGED <<runVars, stale, form, requeues, history>>

ExpireLease(m) ==
    /\ row[m].status = "processing"
    /\ row[m].lease = "live"
    /\ \A w \in Workers : m \notin batch[w] /\ cur[w] # m
    /\ row' = [row EXCEPT ![m].lease = "over"]
    /\ UNCHANGED <<runVars, stale, form, requeues, history>>

(* _cron_process up to its commit: recover the expired leases, then claim   *)
(* some of the due rows that no other run has locked.                       *)
RunCron(w) ==
    LET rows == [m \in Messages |-> IF Expired(row[m]) THEN Failed(row[m]) ELSE row[m]]
        due == {m \in Messages : Due(rows[m]) /\ ~RowLocked(m)}
    IN  /\ Idle(w)
        /\ \E S \in SUBSET due :
            /\ Cardinality(S) <= BatchLimit
            /\ row' = [m \in Messages |-> IF m \in S THEN Claimed(rows[m]) ELSE rows[m]]
            /\ row' # row
            /\ batch' = [batch EXCEPT ![w] = S]
            /\ stale' = stale \cup Overtaken({m \in Messages : row'[m] # row[m]}, w)
        /\ begun' = begun \ {w}
        /\ UNCHANGED <<cur, owned, seen, form, requeues, history>>

NextItem(w, m) ==
    /\ cur[w] = None
    /\ m \in batch[w]
    /\ \A n \in batch[w] : m <= n
    /\ ~RowLocked(m)
    /\ batch' = [batch EXCEPT ![w] = @ \ {m}]
    /\ begun' = begun \cup {w}

(* The guard of _process_one.                                               *)
AlreadyDone(r) == r.status = "done"

SkipDone(w, m) ==
    /\ NextItem(w, m)
    /\ AlreadyDone(row[m])
    /\ UNCHANGED <<row, cur, owned, seen, stale, form, requeues, history>>

(* _process_one takes its snapshot, claims the row again when it is no      *)
(* longer "processing", and starts handle_inbound.                          *)
Start(w, m) ==
    /\ NextItem(w, m)
    /\ ~AlreadyDone(row[m])
    /\ cur' = [cur EXCEPT ![w] = m]
    /\ owned' = IF row[m].status = "processing" THEN owned ELSE owned \cup {w}
    /\ stale' = IF row[m].status = "processing" THEN stale
                ELSE stale \cup Overtaken({m}, w)
    /\ seen' = IF KeyOf[m] # None /\ ran[KeyOf[m]] > 0 THEN seen \cup {w} ELSE seen
    /\ UNCHANGED <<row, form, requeues, ran, handled>>

(* The item's transaction commits r for the current message. *)
CommitItem(w, r) ==
    /\ cur[w] # None
    /\ w \notin stale
    /\ row' = [row EXCEPT ![cur[w]] = r]
    /\ stale' = stale \cup Overtaken({cur[w]}, w)
    /\ cur' = [cur EXCEPT ![w] = None]
    /\ owned' = owned \ {w}
    /\ seen' = seen \ {w}

(* Bug: the key is not unique to the intention, so nothing collides.        *)
KeyFreeAlways(w) == TRUE

(* The unique index on idempotency_key lets the transaction insert its      *)
(* action: nobody else has committed one since the snapshot.                *)
KeyFree(w) == ran[KeyOf[cur[w]]] = 0

(* _run_once, seen from its caller: the action runs unless the snapshot     *)
(* shows it finished.                                                       *)
RunOnce(w) ==
    IF KeyOf[cur[w]] = None \/ w \in seen THEN UNCHANGED ran
    ELSE KeyFree(w) /\ ran' = [ran EXCEPT ![KeyOf[cur[w]]] = @ + 1]

(* handle_inbound, its effects and the "done" of the row, in one commit. *)
CommitDone(w) ==
    /\ CommitItem(w, Settled(View(w), "done"))
    /\ RunOnce(w)
    /\ handled' = [handled EXCEPT ![cur[w]] = @ + 1]
    /\ UNCHANGED <<batch, begun, form, requeues>>

(* handle_inbound raised (one cause is a key that collided): its savepoint  *)
(* is rolled back and the failure is registered.                            *)
CommitFailure(w) ==
    /\ CommitItem(w, Failed(View(w)))
    /\ UNCHANGED <<batch, begun, form, requeues, history>>

(* The process dies, or a write fails on a concurrent update: the open      *)
(* transaction is lost and the rest of the batch waits for its leases.      *)
Abort(w) ==
    /\ ~Idle(w)
    /\ batch' = [batch EXCEPT ![w] = {}]
    /\ cur' = [cur EXCEPT ![w] = None]
    /\ owned' = owned \ {w}
    /\ stale' = stale \ {w}
    /\ seen' = seen \ {w}
    /\ UNCHANGED <<row, begun, form, requeues, history>>

(* The budget is spent: the rest of the batch goes back to the queue.  The  *)
(* first message of a batch is always within the budget.                    *)
ReturnRest(w) ==
    /\ cur[w] = None
    /\ batch[w] # {}
    /\ w \in begun
    /\ \A m \in batch[w] : ~RowLocked(m)
    /\ row' = [m \in Messages |-> IF m \in batch[w] THEN Returned(row[m]) ELSE row[m]]
    /\ stale' = stale \cup Overtaken(batch[w], w)
    /\ batch' = [batch EXCEPT ![w] = {}]
    /\ UNCHANGED <<cur, begun, owned, seen, form, requeues, history>>

OpenForm(m) ==
    /\ row[m].status \in {"failed", "dead"}
    /\ requeues < MaxRequeues
    /\ m \notin form
    /\ form' = form \cup {m}
    /\ UNCHANGED <<row, runVars, stale, requeues, history>>

(* action_requeue checks nothing: the row may have moved on. *)
Requeue(m) ==
    /\ m \in form
    /\ requeues < MaxRequeues
    /\ ~RowLocked(m)
    /\ row' = [row EXCEPT ![m] = Requeued(@)]
    /\ stale' = stale \cup {w \in Workers : cur[w] = m}
    /\ form' = form \ {m}
    /\ requeues' = requeues + 1
    /\ UNCHANGED <<runVars, history>>

WorkerStep(w) ==
    \/ \E m \in Messages : SkipDone(w, m) \/ Start(w, m)
    \/ CommitDone(w) \/ CommitFailure(w) \/ Abort(w) \/ ReturnRest(w)

Next ==
    \/ \E m \in Messages : Receive(m) \/ ExpireLease(m) \/ OpenForm(m) \/ Requeue(m)
    \/ \E w \in Workers : RunCron(w) \/ WorkerStep(w)

Spec == Init /\ [][Next]_vars

-----------------------------------------------------------------------------
TypeOK ==
    /\ row \in [Messages -> Row]
    /\ batch \in [Workers -> SUBSET Messages]
    /\ cur \in [Workers -> Messages \cup {None}]
    /\ \A S \in {begun, owned, stale, seen} : S \subseteq Workers
    /\ \A w \in owned \cup stale \cup seen : cur[w] # None
    /\ form \subseteq Messages
    /\ requeues \in 0..MaxRequeues
    /\ ran \in [Keys -> Nat]
    /\ handled \in [Messages -> Nat]

(* ADR-005: a business effect is executed once for its key, however often   *)
(* the messages that ask for it are retried, reprocessed by hand or handled *)
(* at the same time by runs that cannot see each other.                     *)
BusinessOnce == \A k \in Keys : ran[k] <= 1

(* A message is handled once, however often it is retried, recovered or     *)
(* given back: the only way to a second answer is reprocessing by hand, and *)
(* each click allows one more at most, even while a run holds the message.  *)
HandledOnce == \A m \in Messages : handled[m] <= 1 + requeues

(* The rows implement MessageHandling: what is still in the queue is        *)
(* waiting, and a message is in the hands of the run that handles it.       *)
StageOf(r) ==
    IF r.status \in {"pending", "processing", "failed"} THEN "waiting" ELSE r.status

Stages == [m \in Messages |-> StageOf(row[m])]

Handling == INSTANCE MessageHandling
            WITH Handlers <- Workers, stage <- Stages, inHand <- cur,
                 effects <- ran, clicks <- requeues

(* ADR-003 and ADR-005 as a specification: until somebody clicks, one run   *)
(* at a time handles a message and what is done or given up stays so; a     *)
(* message is done only with its business action executed, and the action   *)
(* is executed once for its key, however often the messages that ask for it *)
(* are retried, reprocessed by hand or handled at the same time by runs     *)
(* that cannot see each other.                                              *)
KeepsHandling == Handling!Spec

(* Every received message is handled or ends in the dead-letter queue.      *)
EventuallySettled ==
    \A m \in Messages :
        row[m].status \in {"pending", "processing", "failed"}
            ~> row[m].status \in {"done", "dead"}

(* The cron starts every minute and claims the oldest due rows, a lease runs*)
(* out if nobody ends the item, and a run does not stop in the middle.      *)
Fairness ==
    /\ \A m \in Messages :
          /\ WF_vars(ExpireLease(m))
          /\ WF_vars(\E w \in Workers : RunCron(w) /\ m \in batch'[w])
          /\ WF_vars(\E w \in Workers : RunCron(w) /\ Expired(row[m]))
    /\ \A w \in Workers : WF_vars(WorkerStep(w))

FairSpec == Spec /\ Fairness

=============================================================================
