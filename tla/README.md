# DZ23-CRM: a TLA+ verification of the message pipeline

The repository is a set of Odoo 19 add-ons that run a WhatsApp CRM: webhooks
persist what the providers (Meta, Evolution, Twilio) report, cron workers handle
received messages, ask an AI for free-text answers, and send replies through a
durable outbox. The state lives in PostgreSQL and is shared by HTTP workers, cron
workers, attendants in the web client and the provider. This directory models that
machinery, checks it with TLC and proves parts of it with TLAPS.

Paths below are relative to `addons_custom/`; W is `dz23_whatsapp/models`, A is
`dz23_agent/models`.

## Inventory

| Component | State | Operations | Hard behaviour | What makes it correct |
|---|---|---|---|---|
| Outbox queue (`W/message_outbox.py`, `W/queue_utils.py`) | row: status, attempts, lease, next attempt, provider id, current status, DLQ reason; channel: `rate_limited_until` | `_enqueue`, `_cron_process` (recover, claim, walk, budget), `_process_one`, `_register_failure`, `action_requeue` | concurrent runs, crashes after the provider accepted, leases, 429, stale forms | one recorded acceptance per item, nothing confirmed in the DLQ, leases outlast runs, every item settles |
| Status events (`W/message_event.py`) | append-only events, `processed`, `outbox_id` | `_record`, `_apply_to_outbox`, `_cron_apply_pending` | duplicates, reordering, callbacks before the id is stored | the status shown depends only on the facts applied; no callback is lost |
| Inbox queue (`W/message_inbox.py`) | row: status, attempts, lease | `_enqueue_event`, `_cron_process`, `_process_one`, `action_requeue` | redelivery, crashes, two runs, reprocessing by hand | effects and "done" are one commit; every message ends |
| Business actions (`W/business_action.py`) | key, state, target | `_run_once` | two snapshots that do not see each other | one execution per key |
| AI requests (`A/ai_request.py`) | row: status, attempts, lease | `_enqueue`, `_cron_process`, `_deliver`, `_deliver_handoff` | slow call while people act; no dead-letter queue | one answer; every request is closed |
| Conversation (`W/conversation.py`, `A/conversation.py`) | state, responsible, turns, SLA | buttons, `_on_inbound`, `_agent_handoff`, `_send_human` | robot and attendants race | only a person gives a conversation back to the robot |
| Webhook controllers, ingestion (`dz23_whatsapp/controllers/main.py`, `W/whatsapp_channel.py`) | none of their own | `_ingest`, `_ingest_events` | failed requests are delivered again | persisted before 200 |
| AI governance (`dz23_ai/models`) | breaker, usage | `_acquire`, `_record_failure`, `_record_success`, `_limit_violation` | late successes, half-open, limits | opens after failures, one test per window |
| Woovi payment (`dz23_payment_woovi/models`) | transaction state, events | webhook, `_process_one`, reconcile cron | callback before the charge id, out-of-order statuses, refunds | the amount is confirmed once and only with provider data |
| Agenda and quotations (`A/whatsapp_agent.py`, `A/channel_contact.py`) | events, quotations, the pending summary of a contact | `_handle_schedule`, `_handle_reschedule`, `_handle_cancel_schedule`, `_handle_buy`, `_handle_pending` | advisory locks taken inside an old snapshot, several messages of one customer at once, people who write to the agenda | a slot that is seen taken is refused, the agenda is what the customers were told, a summary is answered once, one open quotation per product |
| Media (`W/message_media.py`, `A/message_media.py`) | row: status, attempts, file; copy on the lead | claim, download, `action_retry`, `_cron_purge_expired`, `_on_media_downloaded` | record, file and copy are written by different transactions | a file exists exactly while its record says so; every file is settled |
| Privacy and retention (`W/privacy.py`, `W/privacy_request.py`) | requests, anonymised rows | `action_anonymize`, `_apply_company` | erasure of rows that runs hold or have claimed | nothing the erasure found is kept, comes back or is sent |
| Contact identity (`W/whatsapp_identity.py`) | one contact per channel and number | get-or-create, pseudonym | a number that came from a pseudonym | a blocked contact stays blocked |
| Templates, CRM, fiscal, tools, branding, views, metrics | forms, seeds | none concurrent | none | not modelled |

How they interact: a webhook request writes the inbox row, the conversation and the
status events in one transaction. The inbox worker runs the agent; replies are rows
of the outbox and free text becomes an AI request, in the same commit. The AI worker
writes outbox rows and may hand the conversation over. The outbox worker calls the
provider, whose callbacks come back through the webhook. Attendants write the
conversation at any time. All of them meet in PostgreSQL rows.

## Transactions

Every actor is a transaction on an Odoo cursor. Odoo runs cursors at REPEATABLE READ
(the add-ons do not change it), which the modules reduce to three facts: decisions
come from a snapshot taken at the first query after the last commit; a write to a row
that changed since the snapshot fails (`stale`, `moved`, `touched`); a locked row is
waited for or, in claims, skipped (`RowLocked`). A crash and such a failure look
alike: the open transaction is lost (`Abort`). The scheduler usually starts one run of
a cron at a time, but jobs can be started by hand and ADR-003 asks the queues to bear
concurrent runs, so each module has several `Workers`.

## Modules

**MessageOutbox** models the outbox with countdown clocks. `item[i]` is the committed
row, `batch` and `cur` what a run holds, `pause` the 429 pause of a channel, `form` a
web form opened while the button was visible (the view shows it for failed and dead
rows only; `action_requeue` itself checks nothing). `RunCron` is `_cron_process` up to
its commit (recovery and claim), then each item is `SkipSent`, or `StartCall`,
`ProviderAccepts` and a commit. The split between the acceptance and the commit is
where crashes hurt. Blocked contacts, opt-out and the 24 h window are the permanent
outcome; an answer with status 2xx and no id is a transient failure, so a sent row
always has its id. `Callback` is `_apply_to_outbox` for a matched event. The order of
a claim is abstracted to "as many due rows as the limits admit".

**MessageDelivery** is what the header of the file promises: a call to the provider is
begun only for a message whose acceptance is not on record, two calls for one message are
not in flight together until a person asks for a resend, an acceptance is recorded once
and not forgotten, and a message is given up only while nobody calls for it. The outbox
implements it under the mapping `stage <- Stages` (pending, sending and failed are all
"waiting"), `known <- OnRecord` (the provider's id is stored), `sending <- cur`.

**MessageOutboxProofs** holds the proofs about it.

**StatusLadder** is the abstract promise of ADR-006: the status shown is a function
of the set of facts applied. **StatusEvents** is the mechanism for one message:
webhook requests, the events cron and the sender, each with what it read in its
snapshot. The runs show it implements StatusLadder under the mapping
`applied <- Applied` (linked events and what the sender wrote), and
**StatusEventsProofs** proves it for every set of statuses and requests.

**MessageInbox** models the inbox and business actions. It has no clock: a backoff may
end at any moment and a lease ends at any moment after the run that holds the row is
gone, because `limit_time_real = 240` (docker/odoo.conf) stops a run before the 600 s
of a lease. `RunOnce` uses the snapshot (`seen`) and the unique index (`KeyFree`).
A reply and the business effect commit with "done"; `CommitFailure` keeps neither.

**MessageHandling** is what ADR-003 and ADR-005 promise of it: until a person asks for
reprocessing, one handler at a time is at work on a message, and a message that is done
or given up stays so; a message is done only with its business action executed, and the
action is executed once for its key. The inbox implements it under the mapping
`stage <- Stages` (pending, processing and failed are all "waiting"), `inHand <- cur`,
`effects <- ran`, `clicks <- requeues`.

**MessageInboxProofs** holds the proofs about it.

**AIRequest** models the AI queue with one conversation. `Ask` takes the snapshot and
`Reply`, `Retry`, `GiveUp` or `GiveUpFails` ends the request; `moved` makes a handover
collide with any later write of the conversation, which is caught and retried beyond
max_attempts, because this queue has no dead-letter state. The actions of attendants
are the methods' own conditions, not the visibility of the buttons. A text reaches the
queue in three ways. One that no rule takes is counted as a turn, so its transaction
writes the conversation and collides with an attendant (`FreeText`). A question about a
product the catalogue does not have (`_handle_buy`, `_handle_price` without a match) is
an intention of the rules: with turns counted before it, it sets the counter to zero
(`Business`), but with the counter at zero its transaction only reads the conversation
(`HearQuestion`), and the request is committed whoever has the conversation by then
(`QueueQuestion`). The answer of the fallback policy (`_agent_reply_ai` without consent)
and agendas are outside.

**AnswerDesk** is what customers and attendants may count on (ADR-011): a text is
heard while the robot has the conversation, and accepted then or later, it is closed
once, with one message or in silence if somebody else has the conversation by then, and
only an attendant gives a conversation back. It does not say that a text is accepted by
the robot only, because a question heard before an attendant took over may be accepted
after it; such a request is then dropped in silence. It has no queue. AIRequest
implements it under `state <- conv.state`
and `text <- Texts` (unknown, heard, open, closed): claims, leases, retries, deaths and
recoveries are stutters. **AIRequestProofs** proves it for any number of texts and runs.

**WooviPayment** models one PIX transaction in BRL and its charge at Woovi. `Web`
processes serve the page (`RenderExpired`, `RenderNew`, then the call and its end) and
the webhook (`Deliver`); `RunEventsCron` and `RunReconcile` start the two crons. All of
them handle events by `Refused`, `Query`, `QueryFailed`, `Conflict` or `Apply`. A webhook
only triggers a query, so `Trusted` is the API's answer; the body of a reconciliation is
such an answer, kept. `mine` is the row in the process's snapshot, `stale` makes its row
lock fail, `owner` and `wrote` are that lock, and a cron's events become visible
together at its end (`out`). The answer to a query (`got`) belongs to the event it was
asked for, and a webhook about a foreign charge is refused before it asks. The setters of Odoo's `payment.transaction` are external and
modelled by the states they accept. **WooviPaymentProofs** holds the proofs about it.

**PaymentLedger** is the promise of the payment add-on: one confirmation, of what was
received with the right value, makes a transaction done; what is over stays over; a
refund changes nothing else. It knows of no event, lock or process. WooviPayment
implements it under `paid <- Received` and `confirmations <- Confirmations`, the number
of committed events that say "pagamento confirmado". A cron's transaction that commits
several events is one step of the ledger, also when it finds a payment and its refund at
once: then the status goes to "refunded" in the step that confirms. The ledger lets a
confirmation meet a cancelled transaction, because the code does (`woovi_lost`).

**AIBreaker** models the circuit breaker of one company and provider and the daily limit.
A call of `_chat` is a transaction that asks (`Ask`, then `Admit`, `AdmitFirst`,
`AdmitTest` or `Refuse`), the call (`Answer`) and a transaction that records
(`RecordFailure`, `RecordSuccess`). Both use the governance cursor, so a row written
after their snapshot makes their lock fail; the exception leaves `_chat` and nothing is
recorded (`Abort`). `failure_count` stops at `MaxCount`, where the cooldown has reached
its maximum, so that higher counts behave the same. **AIBreakerProofs** holds the proofs.

**AgentActions** models what the agent does for a customer inside the transaction of an
inbox item: `Begin` takes the snapshot and decides (`TodoFor`, the intents of
`handle_inbound` that write), `Lock` takes the advisory locks in the order of the code,
and `Book`, `Move`, `Cancel`, `Summary`, `Decline`, `Confirm`, `Busy` or `Talk` commits
against the rows as they are, while their decisions come from `view`, the snapshot.
`touched` holds the rows others wrote since: an UPDATE of one of them fails
(`Conflict`), an INSERT never does, which is why a double booking is possible and a
double confirmation is not. A summary lapses at any moment after it was shown.
`CloseQuote` and `AddMeeting` are people in the web client, who take no lock. Dates,
products and quantities are parsed before the model begins; prices are left out.
**AgentActionsProofs** holds the proofs about it.

**PersonalData** models the messages, replies and files of one customer and what erases
them. Six processes hold rows over several steps: the run of the inbox (`handling`), of
the AI queue (`asking`, a claim and then a call), of the outbox (`sending`, the same),
of the downloads (`fetching`), an attendant who writes to the customer (`writing`) and
the request of the subject (`erasing`, from what it found to its commit). `Writes` is
what the open transaction of each is about to write. A commit that would fail because a
row of it was written under its snapshot changes nothing, so the process is taken away
at once, when the row is written (`Wrote`, `Left`): it is the same to every other
process, except that a claimed row waits for its lease in either case. The webhook, the
recoveries, the retention and the buttons are one step each.

A reply has three sources, and they collide differently with the erasure. The handling
of a message writes the row of the message, which the erasure writes too. The AI queue
writes its request, which the erasure finds by the lead; but the request keeps the
number in `recipient`, and once its attempts are used up the recovery
(`RecoverAsk`) delivers a last text to it, in a transaction that begins after the
erasure and collides with nothing. The attendant who has the conversation and is its
responsible already writes nothing but the reply (`CommitNote` without `moves`). `found`,
`gone` and `late` remember what an erasure found and what was done afterwards, `beside`
the replies of the last two kinds. "anon" is the pseudonym and "ghost" the number that
`_e164_br` makes of its digits: this conversion is why a message left in the queue is
answered. Queues are reduced to their claim, their leases and one run each, because
MessageInbox, AIRequest and MessageOutbox model what two runs do to each other. The
attempts of requests and replies are not counted: any of them may be the last.
**PersonalDataProofs** holds the proofs about it.

The MC modules give TLC its model values, symmetry sets and functions.

## Runs

| Run | Instance | What it shows |
|---|---|---|
| `outbox` | 2 items, a Meta and an Evolution channel, 2 runs, max 2 attempts, lease 2, budget 0, call 1, 1 click | refinement of MessageDelivery, `LeaseCoversHolder`, `AckedOnce`, `SentIsTrue`; every item is sent or dead in the end |
| `status_events` | 2 requests, "failed" and "delivered", grace 2, send 0, cron 1 | refinement of StatusLadder, `ClosedIsForeign`, every callback of a findable message is linked |
| `inbox` | 2 messages confirming one order, 2 runs, max 2 attempts, 1 click | refinement of MessageHandling, `HandledOnce`, every message ends |
| `ai_request` | 2 requests, each a free text or a question, 2 runs, max 2 attempts, turn limit 1, 1 action of an attendant | refinement of AnswerDesk, `AnsweredOnce`, every request is closed |
| `ai_late_reply` | 1 request, 1 run, 1 action | violated: an answer goes out under human control |
| `woovi` | 1 web process, the two crons, a webhook of this charge and one of another, any value received, max 2 attempts, 1 kill | refinement of PaymentLedger, `DoneMeansPaid`, `ConfirmedOnce`, every event is closed, every payment is found or its transaction was closed by the page |
| `woovi_lost` | the same | violated: a payment whose page was opened after the expiry is confirmed in the end |
| `ai_breaker` | 3 callers, 2 failures open, cooldown 2 to 3, calls of 2, Retry-After 3, limit 2 | `TestsApart`, `LimitBound`, an open breaker is tested or closed in the end |
| `agent` | 2 runs, 4 messages of 2 customers of 2 companies that share a responsible, one meeting put in by hand, 1 crash, clock 0 to 1 | `LockCoversScope`, `SeenSlotRefused`, `AgendaAsTold`, `SummaryEndsOnce`, `OneOpenQuote`; every message is answered, so the locks do not deadlock |
| `agent_double` | the same | violated: two customers hold one slot |
| `personal_data` | 2 messages, 1 with a file, 1 retry by hand, max 2 attempts; any number of requests of the subject and of crashes | `NothingKept`, `NotSentAfterErasure`, `FileAccounted`; every file is settled |
| `erased_answered` | the same | violated: a message of an erased and blocked subject is answered |

Bounds. Two items and two runs are what it takes for a batch with a rest, for two
batches, and for a recovery beside a living run; two attempts give a first and a last
one. A budget of zero units with calls of one unit means that the budget is over
after the first call, as 50 s are after a few slow ones; a lease of two units is the
least that LeaseAssumption admits. In `woovi` the one process that serves pages and
webhooks and the two crons already give three snapshots of one row, and webhooks and
stored answers are applied in any order; `MaxKills` bounds killed runs, because a
reconciliation that is killed for ever finds nothing. "failed" and "delivered" are statuses that must
overtake each other and the sender's "sent" in both directions. For the breaker, two callers can be late while a third one is the test, and calls last
as long as the cooldown, as those of Ollama do by default (60 s of 60 s): the first test
can still wait when the second goes out. In the outbox
run one item per channel means that the limits of a claim (channel and batch) never
bind; they only make a claim smaller. The agents' scripts let one customer book, move
and cancel while another one of the other company books what the move frees or
crosses, and let two orders and two answers of one customer meet; one company has an
interval between appointments, so it matters on which side it is kept. In
`personal_data` one message has a file and the other may go to the AI; with two of them one can be
erased while the other is handled, answered or recovered, or comes later from a customer
who is back. `MaxRequeues`,
`MaxHuman` and `MaxTries` cap what people and failing handovers may do. `MaxTries`
says that a handover does not fail for ever, which liveness needs. Deadlock checking is
off because every instance ends: all messages settled and all clicks used.

Fairness. Time passes. The crons are started every minute (outbox, inbox, AI) or five
(events), see the `data/*_cron.xml` files; a run that has started goes on, and each
due row is eventually among the rows claimed because claims are ordered by
`next_attempt_at`. For status events a provider repeats a callback until it gets a
success, and requests and cron runs do not fail for ever (strong fairness). The two
payment crons start again whenever they have work, and a call to Woovi ends. The AI is
asked again and again, its calls end, and a caller is not killed for ever (strong
fairness of `Transaction`). The inbox begins an item again after a conflict or a crash,
and a lock is given to who waits for it when its holder ends (`agent`); the cron of the
media starts again and again (`personal_data`). No
fairness is assumed of attendants, crashes, customers or the provider's verdict.

## Disagreements met

Shown by a run:

* The runbook of the queues says that the periodic reconciliation corrects a lost
  status; a page shown again after the local expiry cancels a transaction that may have
  been paid, the reconciliation selects draft and pending ones only, and a later
  "completed" no longer makes it done, although the event says that the payment was
  confirmed (`woovi_lost`).
* ADR-011 says that an AI answer is discarded once a person took over; it is checked
  before the call only (`ai_late_reply`).
* ADR-004 says that the worker that waited for the advisory lock already sees the event
  of the first; it sees its snapshot, taken by an earlier query of the same transaction
  (`agent_double`). `SeenSlotRefused` says what does hold.
* docs/LGPD.md says that blocking prevents any automatic reply; an erasure leaves the
  received messages in the queue with the pseudonym for a sender, and their handling
  answers to a new contact made of its digits (`erased_answered`). The other way in which
  the subject is told something afterwards is the recovery of an AI request (below).

Read in the code, without a run of their own any more:

* `W/whatsapp_channel.py:167` says that the outbox does not send through a paused channel;
  the pause is read in the claim only (`W/message_outbox.py:207`), so the rest of a
  claimed batch goes out.
* ADR-003 says that a dead worker affects only its item; every row of its batch loses
  an attempt and may reach the DLQ without having been begun (`W/message_inbox.py:239`).
* `_acquire` says that the other calls wait for the result of the test
  (`dz23_ai/models/ai_governance.py:86`); they wait for `open_until`, a cooldown after the
  test went out, so a second test goes out when a call of Ollama takes its whole timeout
  (60 s of 60 s). `TestsApart` says what does hold.
* docs/LGPD.md says that the anonymisation cancels pending sends and blocks the
  conversation (line 60). An AI request whose run died, or collided with the erasure, in its
  last attempt is recovered afterwards: `_deliver_handoff` enqueues its fallback text to
  `recipient`, the number of the subject, which no contact has any more, so no block stops
  it (`A/ai_request.py:126`, `256`). A message that an attendant with the conversation in
  hand commits during the erasure keeps number and text, and waits in the queue
  (`W/conversation.py:276`).
* ADR-011 says that the cooldown respects the Retry-After; a failure that comes while
  the breaker is open replaces `open_until` by an earlier one
  (`dz23_ai/models/ai_governance.py:110`).

Behaviour the models show that no document speaks of: a question about a product that
the catalogue does not have goes to the AI past the limit of turns of ADR-011 and sets
the counter to zero (`Business`), and with the counter at zero it may be queued after an
attendant took over (`QueueQuestion`); a second erasure of a customer who
came back collides with the pseudonym of the first contact and erases nothing
(`RefuseErasure`); the erasure finds files through messages that still bear the phone, so
files of messages the retention has already anonymised are left to their own expiry; a
"SIM" that answers the first summary confirms the newer one when another order was
summarised in between; the quotation lock is as blind as that of the agenda, and it is
the write to the contact that saves it.

## Proofs

`MessageOutboxProofs` proves for all constants that meet the assumptions:
`TypeCorrect`; `LeaseSafety` (no run works on a row with an expired lease, from
`LeaseAssumption`: budget and one call fit in the lease); `SingleAck`;
`NoConfirmedDead`; `SentMeansAccepted`; `ImplementsDelivery`, the refinement of
MessageDelivery. None is inductive alone. The strengthenings
tie a run to its row: a run that is not `stale` sees the row as it was when it
started, so a row with a provider id is only in the hands of stale runs; leases of
held rows are bounded below by what the budget still allows. The refinement also needs
`Hands`: a row in a run's hands was enqueued, and until the first click it is in the
hands of one run, "sending" or already "sent" by a callback. It is inductive because
LeaseCoversHolder keeps recovery away from such a row and its status keeps a claim away.
After a click two runs may call for one message, and MessageDelivery says so. A run out
of time returns its rest unread: a row that a callback has meanwhile settled is waiting
once more (`Reopen`), until a later run finds the id and settles it without a call.

`StatusEventsProofs`: `TypeCorrect`; `ImplementsLadder`, the refinement of StatusLadder;
`GraceSafety`. The refinement needs `LadderInv`: what a transaction read as pending is
still recorded (`SeenPending`), and the row shows one of the highest facts applied
(`OnTop`). The grace needs `GraceInv`: there is no callback before the provider accepted
(`SilentBefore`), what a transaction matched stays matched (`MatchesStay`), and the grace
of a pending event covers what is left to the sender and to a run of the cron
(`GraceCovers`, `CronCovered`).

`MessageInboxProofs`: `TypeCorrect`, `HandledSafety`, `BusinessSafety`,
`ImplementsHandling`, the refinement of MessageHandling. HandledOnce is
proved by counting tokens: a message has at most 1 + requeues of them, one for each time
it was handled, one for each run that holds it, one while its row may be taken. A claim
passes the row's token to the run, a failure, a return or a death passes it back, "done"
uses it up, and only a click makes a new one. Recovery makes none because a lease that
is over has no holder (`LeaseOver`). BusinessOnce follows from the unique key alone.
The refinement needs `Hands` besides: until the first click a row in a run's hands is
"processing" (and by the tokens in one run's hands), so recovery, which needs a lease
that is over, and a claim, which needs another status, leave it alone. After a click a
run may hold a row that another one has ended; MessageHandling says so, and also that a
run out of time then opens again what is over (`Reopen`), because it returns its rest
unread. `SeenRan` says that a snapshot shows an action only after it was executed, so a
message is done with its action executed even when its run skips it.

`WooviPaymentProofs`: `TypeCorrect`, `PaidSafety`, `ConfirmedSafety`, `PaymentSafety`,
`ImplementsLedger`, in three layers. First, the answer that will make a transaction done
may wait in a process (`got`), in the events it handles or in one stored long ago;
`Known` says that "completed" is true in all of these places, and `Tasks` says who may
hold which event, so what a process writes at its end is about events that are still as
it read them. Second, `LockInv` is what the row lock gives: who is not stale sees the row
as it is (`Fresh`), what was written under the lock follows from the committed row
(`Writer`), and no status is known before the charge (`ChargeFirst`), so a status is
always compared with the last one and a confirmation meets a row that has none
(`OnceSoFar`). Third, `ShownInv` ties rows to events: a transaction that shows a payment
was confirmed by an event, committed or waiting with it in the same process, and an event
that confirms left the transaction over. With these the step of any process is one of
the ledger's, or none.

`AIBreakerProofs`: `TypeCorrect`; `TestsSafety`; `LimitSafety`. TestsApart needs
`Covered`: while the breaker is not closed, a test went out at least as long ago as a
cooldown less the time until `open_until`; nothing is assumed of the length of a call.
For providers whose calls are shorter than the cooldown (20 to 30 s of 60 for the
external ones) the corollary `OneTestOfShortCalls` adds that one test at a time is under
way; the local Ollama is not among them by default. LimitBound counts the calls between
their check and their record.

`AIRequestProofs`: `TypeCorrect`, `AnsweredSafety`, `ImplementsDesk`, `ControlSafety`.
Something is said
when a request becomes "done", and "done" is final; that the row a run ends is not done
already follows from `Held` (the row of a run has a live lease, so no recovery touches
it) and `Alone` (no other run has it). The same invariant makes every step one of
AnswerDesk: a request that is closed was open, and its message is the only one; a
question that is `heard` has no row yet, so what queues it later opens it. That the
robot never takes a conversation back (`HumanKeepsControl`) is then proved of the desk
and not of the queue again.

`AgentActionsProofs`: `TypeCorrect`, `SlotSafety`, `SummarySafety`, `QuoteSafety`,
`LockSafety`, `AgendaSafety`. A run decides on its snapshot and commits on the rows, so the invariant
(`Working`) says how far the two can be apart: for one lead, everything but an archived
event or a closed quotation went through the row of its contact, which is then in
`touched` and makes the commit fail (`Later`). `Fresh` and `Waiting` make the answer
to a summary its first; `SeenExists` says that the events a booking saw still exist.
SlotSafety is about these events only, which is why it is true although NoDoubleBooking is
not. LockSafety has its own invariant (`LockInv`): locks are held in order and one lock
has one holder. AgendaAsTold is a count; its invariant `AgendaExact` says also
that the messages answered so far are finitely many (of behaviours a fact, so nothing is
assumed of the constant) and that the appointment a run is about to move or cancel is an
active one of its customer in its snapshot (`AsSeen`). Each commit adds or removes one
element, and the row of the contact makes a second cancellation of the same one fail.

`PersonalDataProofs`: `TypeCorrect`, `FilesAreAccounted`, `ErasureComplete`,
`NothingSentLate`. `FilesInv`: a file that a run loads is in processing, and one that an
erasure found has no data and is never claimed again. `RowsInv` has two phases. Until the
erasure, everything with the phone belongs to the one contact that has it (`Customer`,
`Received`, `Requests`, `Replied`), and what an open request of the subject found when it
began is all there is when it commits, but for the replies of an attendant who wrote
nothing else (`FoundAll`): whoever adds to it writes the contact or a row that it found,
and so takes the request away. After it (`IsErased`, `Erased`), what it found has its
contact blocked and no text, and no process brings the text back: who was to write one of
its rows is gone, and a call of the AI or an attendant's message that writes the
conversation never belongs to a blocked contact (`Begun`). What appears later with the
phone is the customer's who came back, or a reply of the recovery or of an attendant,
which is in `beside`. The block stops every reply the erasure found, even one that a run
had claimed.

What the theorems assume is in the named ASSUMEs of each module: disjoint identifiers
(`None` is no message, row, contact or process),
positive limits, a finite set of runs, and, for LeaseSafety and GraceSafety, the
inequalities between the durations.

Only model-checked: the liveness properties, because TLAPS handles neither fairness nor
ENABLED (`EventuallySettled` of the outbox and of the inbox, `EventuallyLinked`,
`EventuallyDone`, `EventuallyClosed`, `EventuallyFound`, `EventuallyTested`,
`EventuallyAnswered`, `FilesSettled`), and the disagreements, which are counterexamples.
Every invariant and every action property of the passing runs has a theorem.

## Plan

1. Done: MessageOutbox with MessageDelivery, StatusEvents with StatusLadder, MessageInbox
   with MessageHandling, AIRequest with AnswerDesk, WooviPayment with PaymentLedger,
   AIBreaker, AgentActions and PersonalData, each with proofs, those of the five
   refinements included.
2. An abstract specification still worth stating: of the breaker.
3. Of AIBreaker: the promise of `_lock` that concurrent calls lose no count, which needs
   a history of the failures that should have been counted.
4. Of PersonalData: the fields of leads and partners, the suppression list, and the
   buttons that open again what an erasure closed (`action_unblock`, `action_requeue`).

## Not modelled

Text, formats, signatures, parsing and normalisation of payloads; metrics, logs and
views; retention of texts; e-mail, CRM stages, fiscal data, branding. The events
cron's limit of 200 rows and the per-item order of claims are abstracted. A failed
webhook request is taken as rolled back: `_ingest` answers 500 after catching the
exception, and what the framework then commits is not decided in this repository. Of the
payments: the signature of the webhook, currency and amount of the transaction, the
7-day window and the limits of the crons, and `_apply_updates`, which nothing in the
add-on calls. Of the agenda: how dates, products and quantities are understood, prices,
reminders, and leads that share a partner. Of personal data: exports, the access log,
opt-out and suppression, the fields of leads and partners (erased in the same
transaction), and the caption, name and transcription of a file, which an erasure keeps;
`ai_request.recipient`, which it keeps too, is modelled but in no property;
`action_unblock`, after which the block no longer stops what the erasure found, and
`action_requeue`, which handles a message again; the validation of a file and the requests to each provider
decide its outcome only. Provider normalisers are parsing and decide nothing the models
do not enumerate. Templates are edited and synchronised by one person at a time.
