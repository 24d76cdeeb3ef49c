---------------------------- MODULE PersonalData ----------------------------
(***************************************************************************)
(* The personal data of one customer of a channel, and what erases it: the *)
(* request of the subject (dz23_whatsapp models/privacy_request.py), the   *)
(* retention of messages (models/privacy.py) and of files                  *)
(* (models/message_media.py), against the runs that hold the same rows:    *)
(* the inbox and its replies, the queue of AI answers (dz23_agent          *)
(* models/ai_request.py), the attendant who writes to the customer         *)
(* (_send_human), the outbox, and the download of media with its copy on   *)
(* the lead (dz23_agent models/message_media.py).                          *)
(*                                                                         *)
(* One run of each cron is enough to meet the request in every order; what *)
(* two runs of a queue do to each other is the subject of MessageInbox and *)
(* MessageOutbox, and who has the conversation that of AIRequest: of its   *)
(* states only "blocked" is kept here.  Transactions run at REPEATABLE     *)
(* READ: one that is to write a row written under its snapshot can only    *)
(* fail, and is lost here at once.  The webhook, the retention, the        *)
(* recovery of leases and the buttons are short transactions, one action   *)
(* each, but the request of the subject and the attendant's message.  A    *)
(* lease outlives the process of its run, as in MessageInbox.              *)
(*                                                                         *)
(* The customer writes from "phone".  "anon" is the pseudonym that stands  *)
(* for the phone in an erased row, and "ghost" the number that _e164_br    *)
(* makes of the digits of the pseudonym.                                   *)
(***************************************************************************)
EXTENDS Integers, FiniteSets

CONSTANTS
    Messages,     (* received messages; the reply to one bears its id       *)
    WithMedia,    (* the messages that carry a file                         *)
    MaxAttempts,  (* max_attempts of a download                             *)
    MaxRetries,   (* bound: clicks on "Tentar novamente" of a file          *)
    None

ASSUME MessagesAssumption == WithMedia \subseteq Messages /\ None \notin Messages

ASSUME BoundsAssumption == MaxAttempts \in Nat \ {0} /\ MaxRetries \in Nat

VARIABLES
    contact,   (* the contacts of the customer, each with its conversation  *)
    inbox,     (* the received messages                                     *)
    asked,     (* the request to the AI for each message                    *)
    outbox,    (* the reply to each message, of robot, AI or attendant      *)
    media,     (* the file of each message                                  *)
    handling,  (* the message that the run of the inbox handles, or None    *)
    asking,    (* the request that the run of the AI queue has claimed      *)
    writing,   (* what an attendant's click found, or None                  *)
    sending,   (* the reply that the run of the outbox has claimed          *)
    fetching,  (* the file that the run of the downloads has claimed        *)
    erasing,   (* what the request of the subject found, or None            *)
    retries,   (* clicks on "Tentar novamente" so far (bound)               *)
    gone,      (* history: messages received before a finished erasure      *)
    found,     (* history: files that an erasure found, replies it found    *)
    beside,    (* history: replies that no erasure collides with: of an     *)
               (* attendant, without a write of the conversation, and of    *)
               (* the recovery of a request, after the erasure              *)
    late       (* history: replies sent by a call begun after their erasure *)

rows == <<contact, inbox, asked, outbox, media>>
talk == <<handling, asking, writing>>
runs == <<talk, sending, fetching, erasing>>
history == <<gone, found, beside, late>>
vars == <<rows, runs, retries, history>>

-----------------------------------------------------------------------------
(* The contact whose first message created it, the one of a customer who    *)
(* came back, and one that nobody ever wrote from.                          *)
Contacts == {"first", "second", "stray"}

Identities == {"phone", "anon", "ghost"}

Contact == [who : Identities, blocked : BOOLEAN]

Inbox ==
    [status : {"absent", "queued", "done"}, sender : {"phone", "anon"},
     data : BOOLEAN, conv : Contacts \cup {None}]

(* The recipient of a request is the number of its contact, conv the contact*)
(* of its lead.                                                             *)
Asked ==
    [status : {"absent", "pending", "processing", "done"}, recipient : Identities,
     data : BOOLEAN, conv : Contacts \cup {None}]

Outbox ==
    [status : {"absent", "pending", "sending", "sent", "dead"},
     recipient : Identities, data : BOOLEAN, conv : Contacts \cup {None}]

Media ==
    [status : {"absent", "pending", "processing", "failed", "downloaded",
               "rejected", "dead", "expired"},
     attempts : Nat, file : BOOLEAN, copy : BOOLEAN]

Final == {"downloaded", "rejected", "dead", "expired"}

(* _e164_br *)
Number(who) == IF who = "anon" THEN "ghost" ELSE who

(* unique(channel_id, provider_user_id) *)
Owners(who) == {c \in Contacts : contact[c] # None /\ contact[c].who = who}

NewContact(who) == [who |-> who, blocked |-> FALSE]

(* _for_number(create=False)                                                *)
ConversationOf(who) ==
    IF Owners(who) = {} THEN None ELSE CHOOSE c \in Owners(who) : TRUE

(* MessageOutbox._enqueue, with the conversation it finds                   *)
NewReply(who, data, c) ==
    [status |-> "pending", recipient |-> who, data |-> data, conv |-> c]

(* Bug: a download that failed is not claimed again.                        *)
DueOnce(f) == f.status = "pending"

Due(f) == f.status \in {"pending", "failed"}

(* Bug: a download is tried for ever.                                       *)
NeverDead(f) == [f EXCEPT !.status = "failed"]

(* _register_failure after a transient error                                *)
Failed(f) == [f EXCEPT !.status = IF f.attempts >= MaxAttempts THEN "dead" ELSE "failed"]

Claimed(f) == [f EXCEPT !.status = "processing", !.attempts = @ + 1]

(* Bug: the copy on the lead outlives the file.                             *)
PurgedFileOnly(f) == [f EXCEPT !.status = "expired", !.file = FALSE]

(* _dz23_purge_files, with its extension in dz23_agent *)
Purged(f) == [f EXCEPT !.status = "expired", !.file = FALSE, !.copy = FALSE]

(* _dz23_anonymize of a received and of a sent message                      *)
InboxErased(r) == [r EXCEPT !.sender = "anon", !.data = FALSE]

(* _anonymize_extra of dz23_agent: the texts of a request, not its recipient*)
AskedErased(r) == [r EXCEPT !.data = FALSE]

OutboxErased(r) == [r EXCEPT !.recipient = "anon", !.data = FALSE]

(* action_anonymize cancels what was not sent yet.                          *)
Cancelled(r) ==
    [OutboxErased(r) EXCEPT
        !.status = IF @ \in {"pending", "sending"} THEN "dead" ELSE @]

-----------------------------------------------------------------------------
(* The rows that the open transaction of p is to write; a row is named by   *)
(* its table and its message or contact.                                    *)
Writes(p) ==
    CASE p = "handling" /\ handling # None -> {<<"inbox", handling>>}
      [] p = "asking" /\ asking # None /\ asking.calling -> {<<"asked", asking.m>>}
      [] p = "writing" /\ writing # None /\ writing.moves ->
            {<<"contact", inbox[writing.m].conv>>}
      [] p = "sending" /\ sending # None /\ sending.calling ->
            {<<"outbox", sending.m>>, <<"contact", outbox[sending.m].conv>>}
      [] p = "fetching" /\ fetching # None /\ fetching.loading -> {<<"media", fetching.m>>}
      [] p = "erasing" /\ erasing # None ->
            {<<"contact", erasing.contact>>}
                \cup ({"inbox", "media"} \X erasing.inbox)
                \cup ({"asked"} \X erasing.asked)
                \cup ({"outbox"} \X erasing.outbox)
      [] OTHER -> {}

Processes == {"handling", "asking", "writing", "sending", "fetching", "erasing"}

ASSUME NoneAssumption == None \notin Contact \cup Contacts \cup Processes

(* Process p, or nobody (None), commits the rows written.  Every other      *)
(* transaction that is to write one of them is lost, "could not serialize   *)
(* access due to concurrent update", to be tried again by the cron or by    *)
(* Odoo's retry of a request.                                               *)
Left(q, run, written) == IF Writes(q) \cap written = {} THEN run ELSE None

Wrote(written, p) ==
    /\ p = "handling" \/ handling' = Left("handling", handling, written)
    /\ p = "asking" \/ asking' = Left("asking", asking, written)
    /\ p = "writing" \/ writing' = Left("writing", writing, written)
    /\ p = "sending" \/ sending' = Left("sending", sending, written)
    /\ p = "fetching" \/ fetching' = Left("fetching", fetching, written)
    /\ p = "erasing" \/ erasing' = Left("erasing", erasing, written)

Present == {m \in Messages : inbox[m].status # "absent"}

Init ==
    /\ contact = [c \in Contacts |-> None]
    /\ inbox = [m \in Messages |->
                  [status |-> "absent", sender |-> "phone", data |-> FALSE, conv |-> None]]
    /\ asked = [m \in Messages |->
                  [status |-> "absent", recipient |-> "phone", data |-> FALSE, conv |-> None]]
    /\ outbox = [r \in Messages |->
                  [status |-> "absent", recipient |-> "phone", data |-> FALSE, conv |-> None]]
    /\ media = [m \in Messages |->
                  [status |-> "absent", attempts |-> 0, file |-> FALSE, copy |-> FALSE]]
    /\ handling = None
    /\ asking = None
    /\ writing = None
    /\ sending = None
    /\ fetching = None
    /\ erasing = None
    /\ retries = 0
    /\ gone = {}
    /\ found = [files |-> {}, replies |-> {}]
    /\ beside = {}
    /\ late = {}

(* The webhook: _enqueue_event touches the contact, or creates it, and its  *)
(* conversation, and registers the file.                                    *)
Receive(m) ==
    LET c == IF Owners("phone") # {} THEN CHOOSE d \in Owners("phone") : TRUE
             ELSE IF contact["first"] = None THEN "first" ELSE "second"
    IN
    /\ inbox[m].status = "absent"
    /\ contact' = [contact EXCEPT ![c] = IF @ = None THEN NewContact("phone") ELSE @]
    /\ inbox' = [inbox EXCEPT ![m] =
                    [status |-> "queued", sender |-> "phone", data |-> TRUE, conv |-> c]]
    /\ media' = [media EXCEPT ![m].status = IF m \in WithMedia THEN "pending" ELSE @]
    /\ Wrote({<<"contact", c>>}, None)
    /\ UNCHANGED <<asked, outbox, retries, history>>

-----------------------------------------------------------------------------
(* The inbox: one message, with the reply that its handling enqueues, or    *)
(* the request to the AI (never for a file).                                *)
BeginHandling(m) ==
    /\ handling = None
    /\ inbox[m].status = "queued"
    /\ handling' = m
    /\ UNCHANGED <<rows, asking, writing, sending, fetching, erasing, retries, history>>

(* _agent_contact, and _for_contact: the contact that owns the number of    *)
(* the sender, created if there is none.                                    *)
ContactFor(m) ==
    IF Owners(Number(inbox[m].sender)) = {} THEN "stray"
    ELSE CHOOSE c \in Owners(Number(inbox[m].sender)) : TRUE

CommitHandling ==
    LET m == handling
        c == ContactFor(m)
        who == Number(inbox[m].sender)
        mayReply == ~(contact[c] # None /\ contact[c].blocked)   \* bot_can_reply
    IN
    /\ handling # None
    /\ inbox' = [inbox EXCEPT ![m].status = "done"]
    /\ contact' = [contact EXCEPT ![c] = IF @ = None THEN NewContact("ghost") ELSE @]
    /\ \/ UNCHANGED <<asked, outbox>>
       \/ /\ mayReply
          /\ outbox' = [outbox EXCEPT ![m] = NewReply(inbox[m].sender, inbox[m].data, c)]
          /\ UNCHANGED asked
       \/ /\ mayReply /\ m \notin WithMedia
          /\ asked' = [asked EXCEPT ![m] = NewReply(who, inbox[m].data, c)]
          /\ UNCHANGED outbox
    /\ handling' = None
    /\ Wrote({<<"inbox", m>>}, "handling")
    /\ UNCHANGED <<media, retries, history>>

-----------------------------------------------------------------------------
(* The queue of AI answers.  The attempts of a request are not counted: a   *)
(* failure or an expired lease may be its last.                             *)
ClaimAsk(m) ==
    /\ asking = None
    /\ asked[m].status = "pending"
    /\ asked' = [asked EXCEPT ![m].status = "processing"]
    /\ asking' = [m |-> m, calling |-> FALSE]
    /\ Wrote({<<"asked", m>>}, "asking")
    /\ UNCHANGED <<contact, inbox, outbox, media, retries, history>>

Asking(m) == asking # None /\ asking.m = m

(* _process_one asks the AI, unless the conversation of the lead is blocked *)
(* or an attendant has it: the request is done in silence.                  *)
BeginAsk(m) ==
    /\ Asking(m) /\ ~asking.calling
    /\ \/ /\ ~contact[asked[m].conv].blocked
          /\ asking' = [m |-> m, calling |-> TRUE]
          /\ UNCHANGED <<rows, handling, writing, sending, fetching, erasing>>
       \/ /\ asking' = None
          /\ asked' = [asked EXCEPT ![m].status = "done"]
          /\ Wrote({<<"asked", m>>}, "asking")
          /\ UNCHANGED <<contact, inbox, outbox, media>>
    /\ UNCHANGED <<retries, history>>

(* _deliver, to the recipient that the request has kept.                    *)
Deliver(m) ==
    /\ asked' = [asked EXCEPT ![m].status = "done"]
    /\ outbox' = [outbox EXCEPT ![m] =
                    NewReply(asked[m].recipient, asked[m].data,
                             ConversationOf(asked[m].recipient))]

(* The answer of the AI, a handover, which writes the conversation too, or  *)
(* a failure.                                                               *)
EndAsk(m) ==
    /\ Asking(m) /\ asking.calling
    /\ \/ /\ Deliver(m)
          /\ \E W \in SUBSET {<<"contact", asked[m].conv>>} :
                Wrote({<<"asked", m>>} \cup W, "asking")
       \/ /\ asked' = [asked EXCEPT ![m].status = "pending"]
          /\ Wrote({<<"asked", m>>}, "asking")
          /\ UNCHANGED outbox
    /\ asking' = None
    /\ UNCHANGED <<contact, inbox, media, retries, history>>

(* _recover_expired_leases: the request is tried again or, after its last   *)
(* attempt, given to _deliver_handoff, which tells the customer whatever    *)
(* the conversation says and hands over only one that the robot has.        *)
RecoverAsk(m) ==
    LET c == asked[m].conv
    IN
    /\ asked[m].status = "processing"
    /\ ~Asking(m)
    /\ \/ /\ asked' = [asked EXCEPT ![m].status = "pending"]
          /\ Wrote({<<"asked", m>>}, None)
          /\ UNCHANGED <<outbox, beside>>
       \/ /\ Deliver(m)
          /\ \E W \in SUBSET (IF contact[c].blocked THEN {} ELSE {<<"contact", c>>}) :
                Wrote({<<"asked", m>>} \cup W, None)
          /\ beside' = IF contact[c].who = "anon" THEN beside \cup {m} ELSE beside
    /\ UNCHANGED <<contact, inbox, media, retries, gone, found, late>>

-----------------------------------------------------------------------------
(* _send_human: an attendant writes to the customer, which is counted as the*)
(* reply to a message that the robot left alone.  The conversation is       *)
(* written (moves) only if the robot or nobody had it, or if it has no      *)
(* responsible yet.                                                         *)
BeginNote(m) ==
    LET c == inbox[m].conv
    IN
    /\ writing = None
    /\ inbox[m].status = "done"
    /\ outbox[m].status = "absent" /\ asked[m].status = "absent"
    /\ ~contact[c].blocked
    /\ \E moves \in BOOLEAN :
        writing' = [m |-> m, who |-> contact[c].who, moves |-> moves]
    /\ UNCHANGED <<rows, handling, asking, sending, fetching, erasing, retries, history>>

(* An erasure of the contact has looked for its rows already.               *)
Escapes(c) == contact[c].who = "anon" \/ (erasing # None /\ erasing.contact = c)

CommitNote ==
    LET m == writing.m
        c == inbox[m].conv
    IN
    /\ writing # None
    /\ outbox' = [outbox EXCEPT ![m] = NewReply(writing.who, TRUE, c)]
    /\ beside' = IF ~writing.moves /\ Escapes(c) THEN beside \cup {m} ELSE beside
    /\ writing' = None
    /\ Wrote(Writes("writing"), "writing")
    /\ UNCHANGED <<contact, inbox, asked, media, retries, gone, found, late>>

-----------------------------------------------------------------------------
(* The outbox: the claim is committed, then the item begins.                *)
ClaimReply(m) ==
    /\ sending = None
    /\ outbox[m].status = "pending"
    /\ outbox' = [outbox EXCEPT ![m].status = "sending"]
    /\ sending' = [m |-> m, calling |-> FALSE]
    /\ Wrote({<<"outbox", m>>}, "sending")
    /\ UNCHANGED <<contact, inbox, asked, media, retries, history>>

(* Bug: only the messages of a template respect the block.                  *)
NeverStopped(r) == FALSE

(* _process_one asks the conversation of the message, which an erasure has  *)
(* blocked; the status that it finds, even "dead", does not stop it, and a  *)
(* message without a conversation is never stopped.                         *)
Stopped(r) == r.conv # None /\ contact[r.conv].blocked

Sending(m) == sending # None /\ sending.m = m

BeginCall(m) ==
    /\ Sending(m) /\ ~sending.calling
    /\ ~Stopped(outbox[m])
    /\ sending' = [m |-> m, calling |-> TRUE]
    /\ late' = IF m \in found.replies THEN late \cup {m} ELSE late
    /\ UNCHANGED <<rows, talk, fetching, erasing, retries, gone, found, beside>>

EndSending(m, status) ==
    /\ outbox' = [outbox EXCEPT ![m].status = status]
    /\ sending' = None
    /\ UNCHANGED <<contact, inbox, asked, media, retries, history>>

(* ProviderPermanentError: "Contato bloqueado: envio cancelado."            *)
Refuse(m) ==
    /\ Sending(m) /\ ~sending.calling
    /\ Stopped(outbox[m])
    /\ EndSending(m, "dead")
    /\ Wrote({<<"outbox", m>>}, "sending")

(* The provider accepted the message (and the conversation is marked), or   *)
(* the call failed and is tried again or given up.                          *)
EndCall(m) ==
    /\ Sending(m) /\ sending.calling
    /\ \/ /\ EndSending(m, "sent")
          /\ Wrote({<<"outbox", m>>, <<"contact", outbox[m].conv>>}, "sending")
       \/ /\ \E status \in {"pending", "dead"} : EndSending(m, status)
          /\ Wrote({<<"outbox", m>>}, "sending")

(* _recover_expired_leases *)
RecoverReply(m) ==
    /\ outbox[m].status = "sending"
    /\ ~Sending(m)
    /\ \E status \in {"pending", "dead"} :
        outbox' = [outbox EXCEPT ![m].status = status]
    /\ Wrote({<<"outbox", m>>}, None)
    /\ UNCHANGED <<contact, inbox, asked, media, retries, history>>

-----------------------------------------------------------------------------
(* The downloads.                                                           *)
WriteMedia(m, f, p) ==
    /\ media' = [media EXCEPT ![m] = f]
    /\ Wrote({<<"media", m>>}, p)
    /\ UNCHANGED <<contact, inbox, asked, outbox, history>>

ClaimFile(m) ==
    /\ fetching = None
    /\ Due(media[m])
    /\ fetching' = [m |-> m, loading |-> FALSE]
    /\ WriteMedia(m, Claimed(media[m]), "fetching")
    /\ UNCHANGED retries

Fetching(m) == fetching # None /\ fetching.m = m

(* The guard of _process_one: nothing else changes a claimed file but an    *)
(* erasure.                                                                 *)
BeginFetch(m) ==
    /\ Fetching(m) /\ ~fetching.loading
    /\ fetching' = IF media[m].status \in Final THEN None ELSE [m |-> m, loading |-> TRUE]
    /\ UNCHANGED <<rows, talk, sending, erasing, retries, history>>

EndFetch(m, f) ==
    /\ Fetching(m) /\ fetching.loading
    /\ fetching' = None
    /\ WriteMedia(m, f, "fetching")
    /\ UNCHANGED retries

(* The file is saved, and copied to the lead of the contact that the sender *)
(* of the message names now, if that does not fail (_on_media_downloaded).  *)
Downloaded(m) ==
    \E copy \in {FALSE} \cup {Owners(Number(inbox[m].sender)) # {}} :
        EndFetch(m, [media[m] EXCEPT !.status = "downloaded", !.file = TRUE, !.copy = copy])

(* MediaRejectedError, a permanent and a transient error *)
NotDownloaded(m) ==
    \/ EndFetch(m, [media[m] EXCEPT !.status = "rejected"])
    \/ EndFetch(m, [media[m] EXCEPT !.status = "dead"])
    \/ EndFetch(m, Failed(media[m]))

(* The lease of a file whose run is gone is over. *)
RecoverFile(m) ==
    /\ media[m].status = "processing"
    /\ ~Fetching(m)
    /\ WriteMedia(m, Failed(media[m]), None)
    /\ UNCHANGED retries

(* action_retry *)
RetryFile(m) ==
    /\ media[m].status \in {"failed", "dead"}
    /\ retries < MaxRetries
    /\ retries' = retries + 1
    /\ WriteMedia(m, [media[m] EXCEPT !.status = "pending", !.attempts = 0], None)

(* _cron_purge_expired, at any time after the download *)
PurgeExpired(m) ==
    /\ media[m].status = "downloaded"
    /\ WriteMedia(m, Purged(media[m]), None)
    /\ UNCHANGED retries

-----------------------------------------------------------------------------
(* _apply_company: old messages that are finished lose their data.          *)
RetainInbox(m) ==
    /\ inbox[m].status = "done"
    /\ inbox[m].sender = "phone"
    /\ inbox' = [inbox EXCEPT ![m] = InboxErased(@)]
    /\ Wrote({<<"inbox", m>>}, None)
    /\ UNCHANGED <<contact, asked, outbox, media, retries, history>>

RetainOutbox(m) ==
    /\ outbox[m].status \in {"sent", "dead"}
    /\ outbox[m].recipient # "anon"
    /\ outbox' = [outbox EXCEPT ![m] = OutboxErased(@)]
    /\ Wrote({<<"outbox", m>>}, None)
    /\ UNCHANGED <<contact, inbox, asked, media, retries, history>>

(* _cron_purge_texts                                                        *)
RetainAsked(m) ==
    /\ asked[m].status = "done"
    /\ asked[m].data
    /\ asked' = [asked EXCEPT ![m] = AskedErased(@)]
    /\ Wrote({<<"asked", m>>}, None)
    /\ UNCHANGED <<contact, inbox, outbox, media, retries, history>>

(* action_anonymize finds the contact of the phone, the messages from and   *)
(* to it, the files of the former and the requests to the AI of its lead.   *)
BeginErasure(c) ==
    /\ erasing = None
    /\ c \in Owners("phone")
    /\ erasing' = [contact |-> c,
                   inbox |-> {m \in Present : inbox[m].sender = "phone"},
                   asked |-> {m \in Messages : asked[m].status # "absent"
                                               /\ asked[m].conv = c},
                   outbox |-> {m \in Messages : outbox[m].status # "absent"
                                               /\ outbox[m].recipient = "phone"}]
    /\ UNCHANGED <<rows, talk, sending, fetching, retries, history>>

(* Bug: only finished downloads are purged, as the retention does.          *)
FilesDownloaded(S) == {m \in S : media[m].status = "downloaded"}

FilesOf(S) == {m \in S : media[m].status # "absent"}

CommitErasure ==
    /\ erasing # None
    /\ Owners("anon") = {}
    /\ contact' = [contact EXCEPT ![erasing.contact] = [who |-> "anon", blocked |-> TRUE]]
    /\ inbox' = [m \in Messages |->
                  IF m \in erasing.inbox THEN InboxErased(inbox[m]) ELSE inbox[m]]
    /\ asked' = [m \in Messages |->
                  IF m \in erasing.asked THEN AskedErased(asked[m]) ELSE asked[m]]
    /\ outbox' = [m \in Messages |->
                   IF m \in erasing.outbox THEN Cancelled(outbox[m]) ELSE outbox[m]]
    /\ media' = [m \in Messages |->
                  IF m \in FilesOf(erasing.inbox) THEN Purged(media[m]) ELSE media[m]]
    /\ gone' = Present
    /\ found' = [files |-> found.files \cup erasing.inbox,
                 replies |-> found.replies \cup erasing.outbox]
    /\ erasing' = None
    /\ Wrote(Writes("erasing"), "erasing")
    /\ UNCHANGED <<retries, beside, late>>

(* A customer who came back asks again: the new contact cannot take the     *)
(* pseudonym that the old one has, and nothing is erased.                   *)
RefuseErasure ==
    /\ erasing # None
    /\ Owners("anon") # {}
    /\ erasing' = None
    /\ UNCHANGED <<rows, talk, sending, fetching, retries, history>>

-----------------------------------------------------------------------------
(* A run or a request may die whenever it likes.                            *)
Crash(p) ==
    /\ handling' = IF p = "handling" THEN None ELSE handling
    /\ asking' = IF p = "asking" THEN None ELSE asking
    /\ writing' = IF p = "writing" THEN None ELSE writing
    /\ sending' = IF p = "sending" THEN None ELSE sending
    /\ fetching' = IF p = "fetching" THEN None ELSE fetching
    /\ erasing' = IF p = "erasing" THEN None ELSE erasing
    /\ UNCHANGED <<rows, retries, history>>

HandleMessage(m) == BeginHandling(m) \/ (CommitHandling /\ handling = m)

AskAI(m) == ClaimAsk(m) \/ BeginAsk(m) \/ EndAsk(m) \/ RecoverAsk(m)

WriteNote(m) == BeginNote(m) \/ (CommitNote /\ writing.m = m)

SendReply(m) == ClaimReply(m) \/ BeginCall(m) \/ Refuse(m) \/ EndCall(m) \/ RecoverReply(m)

FetchFile(m) ==
    \/ ClaimFile(m) \/ BeginFetch(m) \/ Downloaded(m) \/ NotDownloaded(m) \/ RecoverFile(m)

Erase == (\E c \in Contacts : BeginErasure(c)) \/ CommitErasure \/ RefuseErasure

Next ==
    \/ \E m \in Messages :
        \/ Receive(m) \/ HandleMessage(m) \/ AskAI(m) \/ WriteNote(m) \/ SendReply(m)
        \/ FetchFile(m) \/ RetryFile(m) \/ PurgeExpired(m)
        \/ RetainInbox(m) \/ RetainAsked(m) \/ RetainOutbox(m)
    \/ Erase
    \/ \E p \in Processes : Crash(p)

Spec == Init /\ [][Next]_vars

(* The crons run again and again, and so a file is tried until it is        *)
(* settled.                                                                 *)
Fairness == WF_vars(\E m \in Messages : FetchFile(m))

FairSpec == Spec /\ Fairness

-----------------------------------------------------------------------------
TypeOK ==
    /\ contact \in [Contacts -> Contact \cup {None}]
    /\ inbox \in [Messages -> Inbox]
    /\ asked \in [Messages -> Asked]
    /\ outbox \in [Messages -> Outbox]
    /\ media \in [Messages -> Media]
    /\ \A m \in Messages : media[m].attempts <= MaxAttempts
    /\ handling \in Messages \cup {None}
    /\ asking = None \/ asking \in [m : Messages, calling : BOOLEAN]
    /\ writing = None \/ writing \in [m : Messages, who : Identities, moves : BOOLEAN]
    /\ sending = None \/ sending \in [m : Messages, calling : BOOLEAN]
    /\ fetching = None \/ fetching \in [m : Messages, loading : BOOLEAN]
    /\ erasing = None \/ erasing \in
        [contact : Contacts, inbox : SUBSET Messages, asked : SUBSET Messages,
         outbox : SUBSET Messages]
    /\ retries \in 0..MaxRetries
    /\ gone \subseteq Messages
    /\ found \in [files : SUBSET Messages, replies : SUBSET Messages]
    /\ beside \subseteq Messages
    /\ late \subseteq Messages

(* Once an erasure is through, neither the text nor the phone of the        *)
(* subject is left in a message received until then or a reply to it, nor   *)
(* the text in a request to the AI, nor a file; except for the replies that *)
(* the erasure cannot collide with (the recovery of a request brings the    *)
(* phone back, an attendant's message stays), whatever runs held those rows,*)
(* began or ended meanwhile (action_anonymize with its extension in         *)
(* dz23_agent, and the runs that write the same rows).                      *)
NothingKept ==
    /\ \A m \in gone :
        /\ inbox[m].sender = "anon" /\ ~inbox[m].data
        /\ ~asked[m].data
        /\ m \notin beside /\ outbox[m].status # "absent"
               => outbox[m].recipient # "phone" /\ ~outbox[m].data
    /\ \A m \in found.replies : outbox[m].recipient = "anon" /\ ~outbox[m].data
    /\ \A m \in found.files : ~media[m].file /\ ~media[m].copy

(* No call of the provider begins for a reply that an erasure found, also   *)
(* if a run had claimed it before and revives it from "dead" (as long as    *)
(* nobody unblocks the conversation: action_unblock is not modelled).       *)
NotSentAfterErasure == late = {}

(* A file is kept exactly while its record says so, and its copy on the     *)
(* lead never outlives it: the retention finds every file by its status     *)
(* (_cron_purge_expired, _dz23_purge_files, _process_one).                  *)
FileAccounted ==
    \A m \in Messages :
        /\ media[m].file <=> media[m].status = "downloaded"
        /\ media[m].copy => media[m].file

(* Every file is downloaded, refused, given up or expired in the end.       *)
FilesSettled ==
    \A m \in Messages : <>[](media[m].status = "absent" \/ media[m].status \in Final)

(* docs/LGPD.md says that "Bloquear" prevents any send and automatic reply. *)
(* A message of the erased subject that was still in the queue is answered: *)
(* its sender is the pseudonym, whose digits name a contact of its own; and *)
(* so is a request to the AI that is recovered after its last attempt.      *)
BlockedStaysSilent ==
    [][\A m \in Messages :
          outbox[m].status = "absent" /\ outbox'[m].status # "absent"
              => ~contact[inbox[m].conv].blocked]_vars
=============================================================================
