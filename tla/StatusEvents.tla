---------------------------- MODULE StatusEvents ----------------------------
(***************************************************************************)
(* The status callbacks of one outgoing message (models/message_event.py): *)
(* webhook requests record each callback once and apply it to the outbox   *)
(* row; a callback that finds no row, or whose application fails, stays    *)
(* pending for the events cron; a callback nobody can match is closed when *)
(* its grace is over.  All of this races with the transaction that stores  *)
(* the provider's id in the row.                                           *)
(*                                                                         *)
(* Webhook requests, the cron and the sender are database transactions at  *)
(* REPEATABLE READ: what each one decides comes from its snapshot, and     *)
(* writing the outbox row fails if the row has changed since (`outdated`). *)
(*                                                                         *)
(* The statuses are the normalised ones; undelivered, expired and          *)
(* cancelled have the rank of failed and are represented by it, and        *)
(* unknown, which is never shown, is left out.                             *)
(***************************************************************************)
EXTENDS Integers

CONSTANTS
    Hooks,      (* webhook requests that may be in progress at once         *)
    Emittable,  (* the statuses the provider may report for this message    *)
    Grace,      (* _UNMATCHED_GRACE_MINUTES                                 *)
    SendTime,   (* longest time from the provider's acceptance to the       *)
                (* sender's commit                                          *)
    CronTime,   (* longest run of _cron_apply_pending                       *)
    None

Shown == {"queued", "sent", "failed", "delivered", "read"}

ASSUME HooksAssumption ==
    /\ {"cron", "sender"} \cap Hooks = {}
    /\ Emittable \subseteq Shown \ {"queued"}

(* 15 minutes against an HTTP timeout of 15 s and one run of the cron.      *)
ASSUME GraceAssumption ==
    /\ Grace \in Nat /\ SendTime \in Nat /\ CronTime \in Nat
    /\ SendTime + CronTime < Grace

VARIABLES
    correlated, (* the channel's callbacks carry correlation_id (Meta)      *)
    pmid,       (* the outbox row holds the provider's id of this message   *)
    current,    (* current_status of the outbox row                         *)
    sender,     (* the run that sends it: calling, accepted, then sent, or  *)
                (* lost (the answer never came), or dead (and given up)     *)
    sendLeft,   (* time left to the sender once the provider accepted       *)
    emitted,    (* statuses the provider has to report                      *)
    event,      (* the row of each status: absent, pending (not processed), *)
                (* linked (processed, with its outbox row) or closed        *)
                (* (processed, without one)                                 *)
    grace,      (* time left until a pending event is closed unmatched      *)
    hook,       (* what each open webhook request has read, or None         *)
    cron,       (* what the open run of the cron has read, or None          *)
    cronLeft,   (* time left to that run                                    *)
    outdated    (* open transactions older than the last write of the row   *)

row     == <<pmid, current>>
clocks  == <<sendLeft, grace, cronLeft>>
vars == <<correlated, row, sender, emitted, event, hook, cron, clocks, outdated>>

-----------------------------------------------------------------------------
Rank == [s \in Shown |-> CASE s = "queued"    -> 10
                           [] s = "sent"      -> 20
                           [] s = "failed"    -> 25
                           [] s = "delivered" -> 30
                           [] s = "read"      -> 40]

(* Bug: the last callback wins.                                             *)
LastWins(S, c) == {s \in S : \A t \in S : Rank[t] <= Rank[s]}

(* Bug: the provider's own word is stored instead of the normalised one.    *)
RawStatus(S, c) == IF S = {} THEN {c} ELSE {"DELIVERY_ACK"}

(* What current_status may become when the statuses S are applied to it one *)
(* after the other, whatever the order (_apply_status).                     *)
After(S, c) ==
    {s \in S \cup {c} : /\ \A t \in S \cup {c} : Rank[t] <= Rank[s]
                        /\ s # c => Rank[s] > Rank[c]}

(* The lookups of _apply_to_outbox: by the provider's id, by correlation_id.*)
Match == pmid \/ correlated

Open == {h \in Hooks : hook[h] # None}
        \cup (IF cron # None THEN {"cron"} ELSE {})
        \cup (IF sender \in {"calling", "accepted"} THEN {"sender"} ELSE {})

(* A transaction applies the statuses S to the row and commits.             *)
ApplyToRow(S, me) ==
    /\ me \notin outdated
    /\ pmid' = TRUE
    /\ current' \in After(S, current)
    /\ outdated' = IF <<pmid', current'>> = row THEN outdated \ {me}
                   ELSE (outdated \cup Open) \ {me}

KeepRow(me) == UNCHANGED row /\ outdated' = outdated \ {me}

-----------------------------------------------------------------------------
Init ==
    /\ correlated \in BOOLEAN
    /\ pmid = FALSE
    /\ current = "queued"
    /\ sender = "calling"
    /\ sendLeft = 0
    /\ emitted = {}
    /\ event = [s \in Emittable |-> "absent"]
    /\ grace = [s \in Emittable |-> 0]
    /\ hook = [h \in Hooks |-> None]
    /\ cron = None
    /\ cronLeft = 0
    /\ outdated = {}

(* The sender: _process_one of the outbox. *)

Accept ==
    /\ sender = "calling"
    /\ sender' = "accepted"
    /\ sendLeft' = SendTime
    /\ UNCHANGED <<correlated, row, emitted, event, hook, cron, grace, cronLeft, outdated>>

(* The success branch.  _apply_early_status_events runs in the snapshot the *)
(* sender took before the call, in which no event of this message exists.   *)
StoreId ==
    /\ sender = "accepted"
    /\ ApplyToRow({"sent"}, "sender")
    /\ sender' = "sent"
    /\ UNCHANGED <<correlated, emitted, event, hook, cron, clocks>>

(* The answer is lost, the run dies or its commit fails; the row will be    *)
(* sent again, as another message, or its lease finds it reconciled.        *)
LoseAnswer ==
    /\ sender = "accepted"
    /\ sender' = "lost"
    /\ outdated' = outdated \ {"sender"}
    /\ UNCHANGED <<correlated, row, emitted, event, hook, cron, clocks>>

(* The answer of the last attempt is lost: _register_failure gives the row  *)
(* up and shows "failed".                                                   *)
GiveUp ==
    /\ sender = "accepted"
    /\ "sender" \notin outdated
    /\ current' \in After({"failed"}, current)
    /\ outdated' = (outdated \cup Open) \ {"sender"}
    /\ sender' = "dead"
    /\ UNCHANGED <<correlated, pmid, emitted, event, hook, cron, clocks>>

(* The provider has something to report of a message it accepted. *)
Emit(s) ==
    /\ sender # "calling"
    /\ s \in Emittable \ emitted
    /\ emitted' = emitted \cup {s}
    /\ UNCHANGED <<correlated, row, sender, event, hook, cron, clocks, outdated>>

(* The webhook: _ingest_events and _record. *)

HookBegin(h, s) ==
    /\ hook[h] = None
    /\ s \in emitted
    /\ hook' = [hook EXCEPT ![h] =
                   [status |-> s, known |-> event[s] # "absent", matched |-> Match]]
    /\ UNCHANGED <<correlated, row, sender, emitted, event, cron, clocks, outdated>>

HookEnd(h, s) ==
    /\ hook[h] # None
    /\ hook[h].status = s
    /\ hook' = [hook EXCEPT ![h] = None]
    /\ UNCHANGED <<correlated, sender, emitted, cron, sendLeft, cronLeft>>

(* A repeated callback: answered with success, nothing is written. *)
HookDuplicate(h, s) ==
    /\ HookEnd(h, s)
    /\ hook[h].known
    /\ KeepRow(h)
    /\ UNCHANGED <<event, grace>>

(* The request fails: it dies, or another one recorded the same callback    *)
(* since the snapshot (the unique index refuses the row and the search that *)
(* follows cannot see the other one).  The provider delivers it again.      *)
HookFail(h, s) ==
    /\ HookEnd(h, s)
    /\ KeepRow(h)
    /\ UNCHANGED <<event, grace>>

Fresh(h, s) == ~hook[h].known /\ event[s] = "absent"

(* The callback is recorded and applied. *)
HookApply(h, s) ==
    /\ HookEnd(h, s)
    /\ Fresh(h, s)
    /\ hook[h].matched
    /\ ApplyToRow({s}, h)
    /\ event' = [event EXCEPT ![s] = "linked"]
    /\ UNCHANGED grace

(* The callback is recorded; it matches no row, or applying it failed and   *)
(* was rolled back to the savepoint.                                        *)
HookPending(h, s) ==
    /\ HookEnd(h, s)
    /\ Fresh(h, s)
    /\ KeepRow(h)
    /\ event' = [event EXCEPT ![s] = "pending"]
    /\ grace' = [grace EXCEPT ![s] = Grace]

(* The events cron: _cron_apply_pending. *)

Pending == {s \in Emittable : event[s] = "pending"}

CronBegin ==
    /\ cron = None
    /\ Pending # {}
    /\ cron' = [seen |-> Pending, matched |-> Match]
    /\ cronLeft' = CronTime
    /\ UNCHANGED <<correlated, row, sender, emitted, event, hook, sendLeft, grace, outdated>>

CronApply ==
    /\ cron # None
    /\ cron.matched
    /\ ApplyToRow(cron.seen, "cron")
    /\ event' = [s \in Emittable |-> IF s \in cron.seen THEN "linked" ELSE event[s]]
    /\ cron' = None
    /\ UNCHANGED <<correlated, sender, emitted, hook, clocks>>

(* Bug: an unmatched event is closed at once.                               *)
OverdueAtOnce(S) == S

(* The unmatched events whose grace is over.                                *)
Overdue(S) == {s \in S : grace[s] = 0}

CronClose ==
    /\ cron # None
    /\ ~cron.matched
    /\ KeepRow("cron")
    /\ event' = [s \in Emittable |-> IF s \in Overdue(cron.seen) THEN "closed"
                                                                 ELSE event[s]]
    /\ cron' = None
    /\ UNCHANGED <<correlated, sender, emitted, hook, clocks>>

(* The run dies, or every savepoint fails because the row has changed.      *)
CronFail ==
    /\ cron # None
    /\ KeepRow("cron")
    /\ cron' = None
    /\ UNCHANGED <<correlated, sender, emitted, event, hook, clocks>>

Tick ==
    /\ sender = "accepted" => sendLeft > 0
    /\ cron # None => cronLeft > 0
    /\ sendLeft' = IF sender = "accepted" THEN sendLeft - 1 ELSE sendLeft
    /\ cronLeft' = IF cron # None THEN cronLeft - 1 ELSE cronLeft
    /\ grace' = [s \in Emittable |-> IF grace[s] > 0 THEN grace[s] - 1 ELSE 0]
    /\ clocks' # clocks
    /\ UNCHANGED <<correlated, row, sender, emitted, event, hook, cron, outdated>>

Settle(h, s) == HookDuplicate(h, s) \/ HookApply(h, s) \/ HookPending(h, s)

Next ==
    \/ Accept \/ StoreId \/ LoseAnswer \/ GiveUp
    \/ \E s \in Emittable :
          \/ Emit(s)
          \/ \E h \in Hooks : HookBegin(h, s) \/ Settle(h, s) \/ HookFail(h, s)
    \/ CronBegin \/ CronApply \/ CronClose \/ CronFail
    \/ Tick

Spec == Init /\ [][Next]_vars

(* The provider repeats a callback until it is answered with success        *)
(* (docs/runbooks/webhooks.md, line 93), requests and runs of the cron do   *)
(* not fail for ever, the cron is started again and again, and a sender     *)
(* whose message was accepted ends one way or the other.                    *)
Fairness ==
    /\ WF_vars(Tick)
    /\ WF_vars(StoreId \/ LoseAnswer)
    /\ WF_vars(CronBegin)
    /\ SF_vars(CronApply)
    /\ SF_vars(CronClose)
    /\ WF_vars(CronFail)
    /\ \A s \in Emittable :
          /\ SF_vars(\E h \in Hooks : HookBegin(h, s))
          /\ SF_vars(\E h \in Hooks : Settle(h, s))

FairSpec == Spec /\ Fairness

-----------------------------------------------------------------------------
HookReads == [status : Emittable, known : BOOLEAN, matched : BOOLEAN]
CronReads == [seen : SUBSET Emittable, matched : BOOLEAN]

TypeOK ==
    /\ correlated \in BOOLEAN
    /\ pmid \in BOOLEAN
    /\ current \in Shown
    /\ sender \in {"calling", "accepted", "sent", "lost", "dead"}
    /\ sendLeft \in 0..SendTime
    /\ emitted \subseteq Emittable
    /\ event \in [Emittable -> {"absent", "pending", "linked", "closed"}]
    /\ grace \in [Emittable -> 0..Grace]
    /\ hook \in [Hooks -> HookReads \cup {None}]
    /\ cron \in CronReads \cup {None}
    /\ cronLeft \in 0..CronTime
    /\ outdated \subseteq Open

(* The facts that have reached the row: the linked callbacks, and what the  *)
(* sender itself wrote.                                                     *)
Applied == {s \in Emittable : event[s] = "linked"}
           \cup (IF sender = "sent" THEN {"sent"} ELSE {})
           \cup (IF sender = "dead" THEN {"failed"} ELSE {})

Ladder == INSTANCE StatusLadder
            WITH Facts <- Shown \ {"queued"}, Start <- "queued",
                 applied <- Applied, current <- current

(* ADR-006: the status shown is decided by the set of the facts applied,    *)
(* not by their order, and never goes back, although webhooks, the cron and *)
(* the sender apply them concurrently and from old snapshots.               *)
ClimbsTheLadder == Ladder!Spec

(* A callback is closed without its outbox row only if the row can never be *)
(* found: the grace covers any sender that has yet to store the id.         *)
ClosedIsForeign ==
    \A s \in Emittable : event[s] = "closed" => ~Match /\ sender \in {"lost", "dead"}

(* No callback is lost: whatever requests fail and however they race with   *)
(* the sender, each one ends linked to its row once the row can be found.   *)
EventuallyLinked ==
    \A s \in Emittable : (s \in emitted /\ Match) ~> event[s] = "linked"

=============================================================================
