----------------------------- MODULE AIRequest ------------------------------
(***************************************************************************)
(* The queue of AI answers of dz23_agent (models/ai_request.py) and the    *)
(* conversation it answers in (dz23_whatsapp and dz23_agent,               *)
(* models/conversation.py): the robot answers free text through the queue, *)
(* attendants take the conversation over, give it back, block it, and the  *)
(* robot itself hands it over when it must not or cannot answer.           *)
(*                                                                         *)
(* Like MessageInbox this module has no clock and lets the lease of a row  *)
(* run out only after the run that holds it is gone (limit_time_real = 240 *)
(* s is below the 300 s of a lease).  The row a run handles is therefore   *)
(* always "processing": the first two guards of _process_one never apply.  *)
(* Transactions run at REPEATABLE READ: `moved` holds the runs whose       *)
(* conversation was written under their snapshot.  A message of the        *)
(* customer is handled in one step where its transaction writes the        *)
(* conversation, and in two, `heard` in between, where it does not.        *)
(***************************************************************************)
EXTENDS Integers, FiniteSets

CONSTANTS
    Requests,     (* ids of the requests; a batch is walked in id order     *)
    Workers,      (* concurrent runs of _cron_process                       *)
    MaxAttempts,  (* max_attempts of a request (_MAX_ATTEMPTS)              *)
    BatchLimit,   (* _BATCH                                                 *)
    TurnLimit,    (* agent_max_bot_turns, 0 for no limit                    *)
    MaxHuman,     (* bound: actions of attendants in a behaviour            *)
    MaxTries,     (* bound: no handover fails after so many attempts        *)
    None

ASSUME RequestsAssumption == Requests \subseteq Nat /\ None \notin Requests

ASSUME LimitsAssumption ==
    /\ MaxAttempts \in Nat \ {0} /\ BatchLimit \in Nat \ {0}
    /\ TurnLimit \in Nat /\ MaxHuman \in Nat /\ MaxTries \in Nat

VARIABLES
    conv,      (* the conversation: state, assigned (it has a responsible   *)
               (* attendant), turns (free answers of the robot in a row)    *)
    heard,     (* questions whose transaction has read the conversation and *)
               (* will queue a request without writing it                   *)
    req,       (* the committed row of each request                         *)
    batch,     (* requests a run has claimed and not handled yet            *)
    cur,       (* the request a run is handling                             *)
    begun,     (* runs that have handled a request of their batch           *)
    moved,     (* runs whose conversation was written under their snapshot  *)
    said,      (* history: messages the queue sent for each request         *)
    human      (* actions of attendants so far (bound)                      *)

runVars == <<batch, cur, begun>>
vars == <<conv, heard, req, runVars, moved, said, human>>

-----------------------------------------------------------------------------
States == {"open", "bot_active", "human_active", "waiting_customer",
           "waiting_internal", "resolved", "blocked"}

(* BOT_ALLOWED_STATES *)
BotAllowed == {"open", "bot_active", "waiting_customer", "resolved"}

Conversation == [state : States, assigned : BOOLEAN, turns : Nat]

Row == [status : {"absent", "pending", "processing", "done", "failed"},
        attempts : Nat, lease : {"none", "live", "over"}]

Claimed(r) == [status |-> "processing", attempts |-> r.attempts + 1, lease |-> "live"]

Settled(r, status) == [r EXCEPT !.status = status, !.lease = "none"]

(* The time budget of _cron_process ran out before the row was reached. *)
Returned(r) ==
    [Settled(r, "pending") EXCEPT !.attempts = IF @ = 0 THEN 0 ELSE @ - 1]

(* Bug: recovery looks at the status only.                                  *)
ExpiredAtOnce(r) == r.status = "processing"

Expired(r) == r.status = "processing" /\ r.lease = "over"

Exhausted(r) == r.attempts >= MaxAttempts

(* Bug: as in the other queues, no row is tried after max_attempts; but     *)
(* this one has no dead-letter queue.                                       *)
DueUnlessExhausted(r) == r.status \in {"pending", "failed"} /\ ~Exhausted(r)

Due(r) == r.status \in {"pending", "failed"}

Busy == {w \in Workers : cur[w] # None}

Idle(w) == cur[w] = None /\ batch[w] = {}

-----------------------------------------------------------------------------
(* The conversation, as each operation leaves it. *)

(* Bug: the reason of the handover is stored as the state.                  *)
HandedOffReason(c) == [c EXCEPT !.state = "ai_unavailable", !.turns = 0]

(* _agent_handoff *)
HandedOff(c) == [c EXCEPT !.state = "waiting_internal", !.turns = 0]

(* _deliver_handoff: only a conversation the robot still holds.             *)
Handoff(c) == IF c.state \in BotAllowed THEN HandedOff(c) ELSE c

(* Bug: every message of the customer gives the conversation to the robot.  *)
ReopenedAlways(c) == [c EXCEPT !.state = "bot_active"]

(* _on_inbound, on a channel with agent_autoreply.                          *)
Reopened(c) ==
    [c EXCEPT !.state = IF @ = "waiting_customer" /\ c.assigned THEN "human_active"
                        ELSE IF @ \in {"waiting_customer", "resolved"} THEN "bot_active"
                        ELSE @]

(* action_take and _send_human refuse a blocked conversation; the other     *)
(* buttons check nothing, whatever the form showed.                         *)
Taken(c) == [c EXCEPT !.state = "human_active", !.assigned = TRUE, !.turns = 0]

Answered(c) ==
    [c EXCEPT !.state = IF @ \in {"open", "bot_active", "waiting_internal", "resolved"}
                        THEN "human_active" ELSE @,
              !.assigned = TRUE]

Released(c) == [c EXCEPT !.state = "bot_active", !.turns = 0]

(* action_wait_customer, action_wait_internal, action_resolve, action_block *)
(* and action_unblock.                                                      *)
Marked(c) ==
    {[c EXCEPT !.state = s] :
        s \in {"waiting_customer", "waiting_internal", "resolved", "blocked", "open"}}

(* action_transfer: to an attendant, or to the team. *)
Transferred(c) ==
    {[c EXCEPT !.state = "human_active", !.assigned = TRUE],
     [c EXCEPT !.state = "waiting_internal", !.assigned = FALSE]}

ByHuman(c) ==
    {Released(c)} \cup Marked(c) \cup Transferred(c)
        \cup (IF c.state = "blocked" THEN {} ELSE {Taken(c), Answered(c)})

-----------------------------------------------------------------------------
Init ==
    /\ conv = [state |-> "bot_active", assigned |-> FALSE, turns |-> 0]
    /\ heard = {}
    /\ req = [r \in Requests |-> [status |-> "absent", attempts |-> 0, lease |-> "none"]]
    /\ batch = [w \in Workers |-> {}]
    /\ cur = [w \in Workers |-> None]
    /\ begun = {}
    /\ moved = {}
    /\ said = [r \in Requests |-> 0]
    /\ human = 0

(* Every write of the conversation collides with a handover that a run      *)
(* decided on an older snapshot.                                            *)
WriteConv(c) == conv' = c /\ moved' = moved \cup Busy

Human ==
    /\ human < MaxHuman
    /\ \E c \in ByHuman(conv) : WriteConv(c)
    /\ human' = human + 1
    /\ UNCHANGED <<heard, req, runVars, said>>

Inbound ==
    /\ WriteConv(Reopened(conv))
    /\ UNCHANGED <<heard, req, runVars, said, human>>

(* _on_outbound_sent and _cron_update_sla write only dates and flags. *)
Touch ==
    /\ WriteConv(conv)
    /\ UNCHANGED <<heard, req, runVars, said, human>>

(* A text that may become request r. *)
New(r) == req[r].status = "absent" /\ r \notin heard

Queued(r) == req' = [req EXCEPT ![r].status = "pending"]

(* handle_inbound and _agent_route of a text no rule takes: they write the  *)
(* turn counter, so what they decided and the conversation cannot fall      *)
(* apart.                                                                   *)
FreeText(r) ==
    /\ New(r)
    /\ conv.state \in BotAllowed
    /\ IF TurnLimit > 0 /\ conv.turns >= TurnLimit
       THEN WriteConv(HandedOff(conv)) /\ UNCHANGED req
       ELSE WriteConv([conv EXCEPT !.turns = @ + 1]) /\ Queued(r)
    /\ UNCHANGED <<heard, runVars, said, human>>

(* A sensitive subject: the robot hands over at once. *)
Sensitive ==
    /\ conv.state \in BotAllowed
    /\ WriteConv(HandedOff(conv))
    /\ UNCHANGED <<heard, req, runVars, said, human>>

(* An intention of the rules, with free answers before it: the counter      *)
(* starts again.  A question about a product the catalogue does not have    *)
(* (_handle_buy and _handle_price without a match) is left to the AI, past  *)
(* the limit of turns.                                                      *)
Business ==
    /\ conv.state \in BotAllowed
    /\ conv.turns > 0
    /\ WriteConv([conv EXCEPT !.turns = 0])
    /\ UNCHANGED req \/ \E r \in Requests : New(r) /\ Queued(r)
    /\ UNCHANGED <<heard, runVars, said, human>>

(* The same question with the counter at zero: its transaction reads the    *)
(* conversation, writes nothing on it and so collides with no attendant.    *)
HearQuestion(r) ==
    /\ New(r)
    /\ conv.state \in BotAllowed
    /\ conv.turns = 0
    /\ heard' = heard \cup {r}
    /\ UNCHANGED <<conv, req, runVars, moved, said, human>>

(* It commits, whoever has the conversation by then. *)
QueueQuestion(r) ==
    /\ r \in heard
    /\ heard' = heard \ {r}
    /\ Queued(r)
    /\ UNCHANGED <<conv, runVars, moved, said, human>>

(* It is lost (a conflict, a failure, a dead run) and handled again later.  *)
LoseQuestion(r) ==
    /\ r \in heard
    /\ heard' = heard \ {r}
    /\ UNCHANGED <<conv, req, runVars, moved, said, human>>

-----------------------------------------------------------------------------
(* The queue. *)

ExpireLease(r) ==
    /\ req[r].status = "processing"
    /\ req[r].lease = "live"
    /\ \A w \in Workers : r \notin batch[w] /\ cur[w] # r
    /\ req' = [req EXCEPT ![r].lease = "over"]
    /\ UNCHANGED <<conv, heard, runVars, moved, said, human>>

(* _cron_process up to its commit.  _recover_expired_leases gives a row     *)
(* whose attempts are used up to _deliver_handoff: the customer is told and *)
(* the row is done, except for the rows of F, where that failed.            *)
RunCron(w) ==
    LET expired == {r \in Requests : Expired(req[r])}
        last == {r \in expired : Exhausted(req[r])}
    IN  \E F \in SUBSET {r \in last : req[r].attempts < MaxTries} :
        LET rows == [r \in Requests |->
                        IF r \in last \ F THEN Settled(req[r], "done")
                        ELSE IF r \in expired THEN Settled(req[r], "failed")
                        ELSE req[r]]
        IN  /\ Idle(w)
            /\ \E S \in SUBSET ({r \in Requests : Due(rows[r])} \ F) :
                /\ Cardinality(S) <= BatchLimit
                /\ S # {} \/ expired # {}
                /\ req' = [r \in Requests |-> IF r \in S THEN Claimed(rows[r]) ELSE rows[r]]
                /\ batch' = [batch EXCEPT ![w] = S]
            /\ said' = [r \in Requests |-> IF r \in last \ F THEN said[r] + 1 ELSE said[r]]
            /\ IF last \ F # {} THEN WriteConv(Handoff(conv)) ELSE UNCHANGED <<conv, moved>>
            /\ begun' = begun \ {w}
            /\ UNCHANGED <<heard, cur, human>>

NextRequest(w, r) ==
    /\ cur[w] = None
    /\ r \in batch[w]
    /\ \A q \in batch[w] : r <= q
    /\ batch' = [batch EXCEPT ![w] = @ \ {r}]
    /\ begun' = begun \cup {w}

(* _process_one finds the conversation out of the robot's hands. *)
StaySilent(w, r) ==
    /\ NextRequest(w, r)
    /\ conv.state \notin BotAllowed
    /\ req' = [req EXCEPT ![r] = Settled(@, "done")]
    /\ UNCHANGED <<conv, heard, cur, moved, said, human>>

(* It asks the AI. *)
Ask(w, r) ==
    /\ NextRequest(w, r)
    /\ conv.state \in BotAllowed
    /\ cur' = [cur EXCEPT ![w] = r]
    /\ UNCHANGED <<conv, heard, req, moved, said, human>>

(* The transaction commits the current request with the given status. *)
CommitRequest(w, status) ==
    /\ cur[w] # None
    /\ req' = [req EXCEPT ![cur[w]] = Settled(@, status)]
    /\ cur' = [cur EXCEPT ![w] = None]
    /\ UNCHANGED <<heard, batch, begun, human>>

Tell(w) == said' = [said EXCEPT ![cur[w]] = @ + 1]

(* _deliver: the answer of the AI goes to the outbox.  Nothing reads the    *)
(* conversation again after the call.                                       *)
Reply(w) ==
    /\ CommitRequest(w, "done")
    /\ Tell(w)
    /\ moved' = moved \ {w}
    /\ UNCHANGED conv

(* _register_failure with attempts left. *)
Retry(w) ==
    /\ CommitRequest(w, "failed")
    /\ ~Exhausted(req[cur[w]])
    /\ moved' = moved \ {w}
    /\ UNCHANGED <<conv, said>>

(* _deliver_handoff, because the attempts are used up or the failure cannot *)
(* be retried (_NON_RETRYABLE).                                             *)
GiveUp(w) ==
    /\ CommitRequest(w, "done")
    /\ w \notin moved
    /\ Tell(w)
    /\ conv' = Handoff(conv)
    /\ moved' = (moved \cup Busy) \ {w}

(* The handover itself failed, for one because it collided with another     *)
(* write of the conversation: the row is tried again, beyond max_attempts.  *)
GiveUpFails(w) ==
    /\ CommitRequest(w, "failed")
    /\ req[cur[w]].attempts < MaxTries
    /\ moved' = moved \ {w}
    /\ UNCHANGED <<conv, said>>

(* The process dies and the rest of its batch waits for the leases. *)
Abort(w) ==
    /\ ~Idle(w)
    /\ batch' = [batch EXCEPT ![w] = {}]
    /\ cur' = [cur EXCEPT ![w] = None]
    /\ moved' = moved \ {w}
    /\ UNCHANGED <<conv, heard, req, begun, said, human>>

(* The budget is spent: the rest of the batch goes back to the queue. *)
ReturnRest(w) ==
    /\ cur[w] = None
    /\ batch[w] # {}
    /\ w \in begun
    /\ req' = [r \in Requests |-> IF r \in batch[w] THEN Returned(req[r]) ELSE req[r]]
    /\ batch' = [batch EXCEPT ![w] = {}]
    /\ UNCHANGED <<conv, heard, cur, begun, moved, said, human>>

WorkerStep(w) ==
    \/ \E r \in Requests : StaySilent(w, r) \/ Ask(w, r)
    \/ Reply(w) \/ Retry(w) \/ GiveUp(w) \/ GiveUpFails(w) \/ Abort(w) \/ ReturnRest(w)

Next ==
    \/ Human \/ Inbound \/ Touch \/ Sensitive \/ Business
    \/ \E r \in Requests :
          \/ FreeText(r) \/ HearQuestion(r) \/ QueueQuestion(r) \/ LoseQuestion(r)
          \/ ExpireLease(r)
    \/ \E w \in Workers : RunCron(w) \/ WorkerStep(w)

(* The cron starts every minute and claims the oldest due rows, a lease runs*)
(* out if nobody ends the request, and a run does not stop in the middle.   *)
Fairness ==
    /\ \A r \in Requests :
          /\ WF_vars(ExpireLease(r))
          /\ WF_vars(\E w \in Workers : RunCron(w) /\ r \in batch'[w])
          /\ WF_vars(\E w \in Workers : RunCron(w) /\ Expired(req[r]))
    /\ \A w \in Workers : WF_vars(WorkerStep(w))

Spec == Init /\ [][Next]_vars

FairSpec == Spec /\ Fairness

-----------------------------------------------------------------------------
TypeOK ==
    /\ conv \in Conversation
    /\ heard \subseteq {r \in Requests : req[r].status = "absent"}
    /\ req \in [Requests -> Row]
    /\ batch \in [Workers -> SUBSET Requests]
    /\ cur \in [Workers -> Requests \cup {None}]
    /\ begun \subseteq Workers
    /\ moved \subseteq Busy
    /\ said \in [Requests -> Nat]
    /\ human \in 0..MaxHuman

(* A customer gets one message for a request, however often the request is  *)
(* retried, recovered or returned, and a request that is not "done" has     *)
(* told the customer nothing yet.                                           *)
AnsweredOnce ==
    \A r \in Requests : said[r] <= (IF req[r].status = "done" THEN 1 ELSE 0)

(* A conversation that left the robot's hands (an attendant has it, it      *)
(* waits for one, or it is blocked) changes state only by what an attendant *)
(* does: neither a message of the customer nor a late failure of the AI     *)
(* moves it.                                                                *)
HumanKeepsControl ==
    [][conv.state \notin BotAllowed /\ conv'.state # conv.state => human' = human + 1]_vars

(* Of a request the customer knows only whether it waits for an answer. *)
TextOf(row) ==
    CASE row.status = "absent" -> "unknown"
      [] row.status = "done" -> "closed"
      [] OTHER -> "open"

Texts == [r \in Requests |-> IF r \in heard THEN "heard" ELSE TextOf(req[r])]

Desk == INSTANCE AnswerDesk WITH state <- conv.state, text <- Texts

(* ADR-011: whatever the runs of the queue, their deaths and retries do to  *)
(* each other and to the attendants, a text is taken up only while the      *)
(* robot has the conversation, answered once or dropped because somebody    *)
(* else has it, and never opened again; none of this moves a conversation   *)
(* out of the hands of an attendant.                                        *)
KeepsItsDesk == Desk!Spec

(* Every request is answered or dropped in silence, though there is no      *)
(* dead-letter queue and a handover may fail.                               *)
EventuallyDone == \A r \in Requests : req[r].status # "absent" ~> req[r].status = "done"

(* ADR-011, decision 7: when a human took over after the request was queued,*)
(* the answer of the AI is discarded.                                       *)
LateReplyDropped ==
    [][\A w \in Workers :
          cur[w] # None /\ said'[cur[w]] # said[cur[w]] => conv.state # "human_active"]_vars

=============================================================================
