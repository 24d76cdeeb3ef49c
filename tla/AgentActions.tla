---------------------------- MODULE AgentActions ----------------------------
(***************************************************************************)
(* The business actions of the agent of dz23_agent                         *)
(* (models/whatsapp_agent.py, models/channel_contact.py): the messages of  *)
(* customers book, cancel and move appointments, and open quotations after *)
(* a summary that the customer must confirm.                               *)
(*                                                                         *)
(* Each message is handled in one transaction of a run of the inbox cron;  *)
(* MessageInbox says which run handles which message, how often it is      *)
(* retried and when it is given up, AIRequest when the robot must be       *)
(* silent.  Here the runs meet at the data: a transaction reads the        *)
(* snapshot of its first query (REPEATABLE READ), waits for advisory locks *)
(* that it keeps until it ends, and is rolled back when a row it writes    *)
(* was written by another transaction since the snapshot.                  *)
(*                                                                         *)
(* The partner of a lead is the lead itself: each lead has its own.        *)
(***************************************************************************)
EXTENDS Integers, Sequences, FiniteSets

CONSTANTS
    Channels,
    Company,      (* the company of each channel                            *)
    Responsible,  (* agenda_user_id of each channel, or None                *)
    Duration,     (* agenda_duration_minutes of each channel                *)
    Buffer,       (* agenda_buffer_minutes of each channel                  *)
    Open,         (* for each channel, the starts that fit its hours        *)
    Leads,
    ChannelOf,    (* the channel a lead writes to                           *)
    Messages,
    Asks,         (* bound: who sends the messages, and what they ask for   *)
    Products,
    Meetings,     (* events put into an agenda by hand: [user, start, stop] *)
    Workers,      (* concurrent runs of the inbox cron                      *)
    MaxTime,      (* bound: time at which the clock stops                   *)
    MaxCrashes,   (* bound: transactions lost to anything but a conflict    *)
    None

(* The sender of a message and what its text asks for, matched and parsed.  *)
Ask ==
    [from : Leads, kind : {"schedule", "reschedule"}, start : Nat]
        \cup [from : Leads, kind : {"buy"}, product : Products, qty : Nat \ {0}]
        \cup [from : Leads, kind : {"cancel", "yes", "no", "other"}]

ASSUME ChannelsAssumption ==
    /\ Duration \in [Channels -> Nat \ {0}] /\ Buffer \in [Channels -> Nat]
    /\ ChannelOf \in [Leads -> Channels]
    /\ Meetings \subseteq [user : {Responsible[c] : c \in Channels}, start : Nat, stop : Nat]

ASSUME MessagesAssumption ==
    /\ Asks \subseteq [Messages -> Ask]
    /\ None \notin Messages /\ None \notin Products

ASSUME BoundsAssumption == MaxTime \in Nat /\ MaxCrashes \in Nat

VARIABLES
    ask,      (* what each message asks for (chosen once)                   *)
    now,      (* the clock                                                  *)
    lapsed,   (* summaries whose 30 minutes are over                        *)
    db,       (* the committed rows                                         *)
    tx,       (* the transaction of each run, or None                       *)
    view,     (* the snapshot of each run                                   *)
    touched,  (* rows that others wrote since the snapshot of each run      *)
    crashes,  (* transactions lost so far (bound)                           *)
    told,     (* history: the reply to each handled message, or None        *)
    saw,      (* history: the events in the snapshot of each booking        *)
    ends      (* history: how often each summary was confirmed or declined  *)

vars == <<ask, now, lapsed, db, tx, view, touched, crashes, told, saw, ends>>

-----------------------------------------------------------------------------
(* Rows are named by the message that created them; a contact has one       *)
(* pending summary at most.                                                 *)
Event == [start : Nat, active : BOOLEAN]
Quote == [product : Products, qty : Nat, open : BOOLEAN]
Pending == [ref : Messages, product : Products, qty : Nat]

Database ==
    [event : [Messages -> Event \cup {None}],
     quote : [Messages -> Quote \cup {None}],
     pending : [Leads -> Pending \cup {None}],
     meetings : SUBSET Meetings]

Todo == {"book", "closed", "past", "move", "cancel", "confirm", "decline",
         "summary", "talk"}

Transaction ==
    [m : Messages, todo : Todo, current : Messages \cup {None}, held : Nat]

Replies == {"booked", "moved", "busy", "cancelled", "nothing", "summary",
            "declined", "quoted", "talk", "closed", "past"}

ASSUME NoneAssumption == None \notin Replies \cup Event \cup Quote

LeadOf(m) == ask[m].from

Channel(m) == ChannelOf[LeadOf(m)]

Active(d, m) == d.event[m] # None /\ d.event[m].active

(* The events of the opportunities of a company, and the whole agenda of    *)
(* the responsible of the channel.                                          *)
InScope(c, d) ==
    \/ Company[c] = Company[d]
    \/ Responsible[c] # None /\ Responsible[c] = Responsible[d]

(* Bug: the interval between appointments is kept on one side only.         *)
MeetsWithoutBuffer(c, start, from, to) ==
    from < start + Duration[c] + Buffer[c] /\ to > start

(* An appointment of channel c, with its interval, meets [from, to).        *)
Meets(c, start, from, to) ==
    from < start + Duration[c] + Buffer[c] /\ to > start - Buffer[c]

EndOf(d, m) == d.event[m].start + Duration[Channel(m)]

(* _agent_slot_conflict *)
SlotConflict(c, start, d, current) ==
    \/ \E n \in Messages \ {current} :
        /\ Active(d, n)
        /\ InScope(c, Channel(n))
        /\ Meets(c, start, d.event[n].start, EndOf(d, n))
    \/ \E x \in d.meetings :
        Responsible[c] # None /\ x.user = Responsible[c] /\ Meets(c, start, x.start, x.stop)

FutureEvents(l, d) == {m \in Messages : LeadOf(m) = l /\ Active(d, m) /\ d.event[m].start > now}

(* _agent_future_event: the next one, or None. *)
FutureEvent(l, d) ==
    IF FutureEvents(l, d) = {} THEN None
    ELSE CHOOSE m \in FutureEvents(l, d) :
            \A n \in FutureEvents(l, d) : d.event[m].start <= d.event[n].start

(* Bug: every confirmation opens a quotation of its own.                    *)
NoOpenQuote(l, p, d) == {}

(* _agent_open_quote *)
OpenQuote(l, p, d) ==
    {m \in Messages : /\ LeadOf(m) = l /\ d.quote[m] # None
                      /\ d.quote[m].open /\ d.quote[m].product = p}

(* _agent_pending_buy *)
HasPending(l, d) == d.pending[l] # None /\ d.pending[l].ref \notin lapsed

-----------------------------------------------------------------------------
(* What handling m comes to, as far as it is settled before any lock.       *)
ScheduleTodo(c, start, todo) ==
    IF start <= now THEN "past" ELSE IF start \in Open[c] THEN todo ELSE "closed"

TodoFor(m, d) ==
    LET a == ask[m]
        c == Channel(m)
        pending == HasPending(LeadOf(m), d)
    IN  CASE a.kind = "yes" /\ pending -> "confirm"
          [] a.kind = "no" /\ pending -> "decline"
          [] a.kind = "cancel" -> "cancel"
          [] a.kind = "schedule" -> ScheduleTodo(c, a.start, "book")
          [] a.kind = "reschedule" ->
                ScheduleTodo(c, a.start, IF FutureEvent(LeadOf(m), d) = None THEN "book" ELSE "move")
          [] a.kind = "buy" -> "summary"
          [] OTHER -> "talk"

(* Bug: one lock for the pair of company and responsible.                   *)
PairLock(c) == << <<"agenda", Company[c], Responsible[c]>> >>

(* _agent_agenda_lock: the company first, then the responsible. *)
AgendaLocks(c) ==
    IF Responsible[c] = None THEN << <<"company", Company[c]>> >>
    ELSE << <<"company", Company[c]>>, <<"user", Responsible[c]>> >>

(* Bug: a cancellation takes the locks of the agenda in the other order.    *)
LocksCrossed(t) ==
    CASE t.todo \in {"book", "move"} -> AgendaLocks(Channel(t.m))
      [] t.todo = "cancel" -> << <<"user", Responsible[Channel(t.m)]>>, <<"company", Company[Channel(t.m)]>> >>
      [] t.todo = "confirm" -> << <<"quote", LeadOf(t.m)>> >>
      [] OTHER -> << >>

(* The advisory locks a transaction takes, in order. *)
Locks(t) ==
    CASE t.todo \in {"book", "move", "cancel"} -> AgendaLocks(Channel(t.m))
      [] t.todo = "confirm" -> << <<"quote", LeadOf(t.m)>> >>
      [] OTHER -> << >>

Held(w) == IF tx[w] = None THEN {} ELSE {Locks(tx[w])[i] : i \in 1..tx[w].held}

AgendaHeld(w) ==
    /\ tx[w] # None /\ tx[w].todo \in {"book", "move", "cancel"}
    /\ tx[w].held = Len(Locks(tx[w]))

-----------------------------------------------------------------------------
Init ==
    /\ ask \in Asks
    /\ now = 0
    /\ lapsed = {}
    /\ db = [event |-> [m \in Messages |-> None], quote |-> [m \in Messages |-> None],
             pending |-> [l \in Leads |-> None], meetings |-> {}]
    /\ tx = [w \in Workers |-> None]
    /\ view = [w \in Workers |-> None]
    /\ touched = [w \in Workers |-> {}]
    /\ crashes = 0
    /\ told = [m \in Messages |-> None]
    /\ saw = [m \in Messages |-> [events |-> {}, meetings |-> {}]]
    /\ ends = [m \in Messages |-> 0]

(* The item's transaction takes its snapshot and handle_inbound decides.    *)
Begin(w, m) ==
    /\ tx[w] = None
    /\ told[m] = None
    /\ \A v \in Workers : tx[v] # None => tx[v].m # m
    /\ tx' = [tx EXCEPT ![w] = [m |-> m, todo |-> TodoFor(m, db),
                                current |-> FutureEvent(LeadOf(m), db), held |-> 0]]
    /\ view' = [view EXCEPT ![w] = db]
    /\ UNCHANGED <<ask, now, lapsed, db, touched, crashes, told, saw, ends>>

(* pg_advisory_xact_lock *)
Lock(w) ==
    /\ tx[w] # None
    /\ tx[w].held < Len(Locks(tx[w]))
    /\ \A v \in Workers : Locks(tx[w])[tx[w].held + 1] \notin Held(v)
    /\ tx' = [tx EXCEPT ![w].held = @ + 1]
    /\ UNCHANGED <<ask, now, lapsed, db, view, touched, crashes, told, saw, ends>>

(* The end of a transaction releases its locks.                             *)
End(w) ==
    /\ tx' = [tx EXCEPT ![w] = None]
    /\ view' = [view EXCEPT ![w] = None]
    /\ UNCHANGED <<ask, now, lapsed>>

(* The transaction of w commits new, having updated rows.                   *)
Commit(w, rows, new, reply) ==
    /\ rows \cap touched[w] = {}
    /\ db' = new
    /\ touched' = [v \in Workers |->
                    IF v # w /\ tx[v] # None THEN touched[v] \cup rows ELSE {}]
    /\ told' = [told EXCEPT ![tx[w].m] = reply]
    /\ End(w)
    /\ UNCHANGED crashes

Ready(w, todo) ==
    /\ tx[w] # None
    /\ tx[w].todo = todo
    /\ tx[w].held = Len(Locks(tx[w]))

NewEvent(d, m) == [d EXCEPT !.event[m] = [start |-> ask[m].start, active |-> TRUE]]

(* Bug: the appointment that was moved stays in the agenda.                 *)
NotArchived(d, m) == d

Archived(d, m) == [d EXCEPT !.event[m] = [start |-> d.event[m].start, active |-> FALSE]]

Seen(d) == [events |-> {m \in Messages : d.event[m] # None}, meetings |-> d.meetings]

(* _book_slot under its lock, for _handle_schedule. *)
Book(w) ==
    LET m == tx[w].m IN
    /\ Ready(w, "book")
    /\ ~SlotConflict(Channel(m), ask[m].start, view[w], None)
    /\ Commit(w, {}, NewEvent(db, m), "booked")
    /\ saw' = [saw EXCEPT ![m] = Seen(view[w])]
    /\ UNCHANGED ends

(* _handle_reschedule: the new appointment, then the old one is archived.   *)
Move(w) ==
    LET m == tx[w].m
        current == tx[w].current
    IN
    /\ Ready(w, "move")
    /\ ~SlotConflict(Channel(m), ask[m].start, view[w], current)
    /\ Commit(w, {<<"event", current>>}, Archived(NewEvent(db, m), current), "moved")
    /\ saw' = [saw EXCEPT ![m] = Seen(view[w])]
    /\ UNCHANGED ends

(* _SlotUnavailableError("busy") *)
Busy(w) ==
    LET m == tx[w].m IN
    /\ \/ Ready(w, "book") /\ SlotConflict(Channel(m), ask[m].start, view[w], None)
       \/ Ready(w, "move") /\ SlotConflict(Channel(m), ask[m].start, view[w], tx[w].current)
    /\ Commit(w, {}, db, "busy")
    /\ UNCHANGED <<saw, ends>>

(* _handle_cancel_schedule looks for the appointment under the lock. *)
Cancel(w) ==
    LET event == FutureEvent(LeadOf(tx[w].m), view[w]) IN
    /\ Ready(w, "cancel")
    /\ IF event = None THEN Commit(w, {}, db, "nothing")
       ELSE Commit(w, {<<"event", event>>}, Archived(db, event), "cancelled")
    /\ UNCHANGED <<saw, ends>>

(* _handle_buy shows a summary and waits for the confirmation. *)
Summary(w) ==
    LET m == tx[w].m
        l == LeadOf(m)
    IN
    /\ Ready(w, "summary")
    /\ Commit(w, {<<"contact", l>>},
              [db EXCEPT !.pending[l] = [ref |-> m, product |-> ask[m].product, qty |-> ask[m].qty]],
              "summary")
    /\ UNCHANGED <<saw, ends>>

(* Bug: the summary stays after its answer.                                 *)
PendingKept(d, l) == d

(* Bug: the reference is cleared and the order is not.                      *)
PendingHalfCleared(d, l) == [d EXCEPT !.pending[l].ref = None]

(* _agent_clear_pending *)
PendingCleared(d, l) == [d EXCEPT !.pending[l] = None]

Answered(w, d) == ends' = [ends EXCEPT ![d.pending[LeadOf(tx[w].m)].ref] = @ + 1]

Decline(w) ==
    LET l == LeadOf(tx[w].m) IN
    /\ Ready(w, "decline")
    /\ Commit(w, {<<"contact", l>>}, PendingCleared(db, l), "declined")
    /\ Answered(w, view[w])
    /\ UNCHANGED saw

ToAdjust(l, p, d) == {q \in OpenQuote(l, p.product, d) : d.quote[q].qty # p.qty}

(* _create under the lock of the partner: the open quotation of the product *)
(* (the newest: there is one at most, OneOpenQuote) takes the quantity of   *)
(* the summary, or a new one is opened.  The unique                         *)
(* key of _run_once names the summary, and a second transaction that        *)
(* confirms the same summary collides on the contact as well.               *)
Confirm(w) ==
    LET m == tx[w].m
        l == LeadOf(m)
        p == view[w].pending[l]
        open == OpenQuote(l, p.product, view[w])
        target == IF open = {} THEN m ELSE CHOOSE q \in open : TRUE
    IN
    /\ Ready(w, "confirm")
    /\ Commit(w, {<<"contact", l>>} \cup {<<"quote", q>> : q \in ToAdjust(l, p, view[w]) \cap {target}},
              [PendingCleared(db, l) EXCEPT
                  !.quote[target] = [product |-> p.product, qty |-> p.qty,
                                     open |-> IF open = {} THEN TRUE ELSE db.quote[target].open]],
              "quoted")
    /\ Answered(w, view[w])
    /\ UNCHANGED saw

(* Every other reply: a question, a closed or past hour, a price, a file or *)
(* free text, which AIRequest answers.                                      *)
Talk(w) ==
    /\ tx[w] # None
    /\ tx[w].todo \in {"talk", "closed", "past"}
    /\ Commit(w, {}, db, tx[w].todo)
    /\ UNCHANGED <<saw, ends>>

Finish(w) ==
    \/ Book(w) \/ Move(w) \/ Busy(w) \/ Cancel(w)
    \/ Summary(w) \/ Decline(w) \/ Confirm(w) \/ Talk(w)

RollBack(w) ==
    /\ touched' = [touched EXCEPT ![w] = {}]
    /\ End(w)
    /\ UNCHANGED <<db, told, saw, ends>>

(* The rows that the transaction of w is about to update.                   *)
Updates(w) ==
    LET m == tx[w].m
        l == LeadOf(m)
    IN  CASE tx[w].todo = "move" /\ ~SlotConflict(Channel(m), ask[m].start, view[w], tx[w].current) ->
                {<<"event", tx[w].current>>}
          [] tx[w].todo = "cancel" -> {<<"event", FutureEvent(l, view[w])>>}
          [] tx[w].todo \in {"summary", "decline"} -> {<<"contact", l>>}
          [] tx[w].todo = "confirm" ->
                {<<"contact", l>>} \cup
                    {<<"quote", q>> : q \in ToAdjust(l, view[w].pending[l], view[w])}
          [] OTHER -> {}

(* "could not serialize access due to concurrent update": the item fails    *)
(* and the inbox tries it again.                                            *)
Conflict(w) ==
    /\ tx[w] # None
    /\ tx[w].held = Len(Locks(tx[w]))
    /\ Updates(w) \cap touched[w] # {}
    /\ RollBack(w)
    /\ UNCHANGED crashes

(* The process dies, or the item fails for any other reason.                *)
Crash(w) ==
    /\ tx[w] # None
    /\ crashes < MaxCrashes
    /\ crashes' = crashes + 1
    /\ RollBack(w)

-----------------------------------------------------------------------------
Tick ==
    /\ now < MaxTime
    /\ now' = now + 1
    /\ UNCHANGED <<ask, lapsed, db, tx, view, touched, crashes, told, saw, ends>>

(* _PENDING_MINUTES are over. *)
Lapse(m) ==
    /\ told[m] = "summary"
    /\ m \notin lapsed
    /\ lapsed' = lapsed \cup {m}
    /\ UNCHANGED <<ask, now, db, tx, view, touched, crashes, told, saw, ends>>

(* People write to the agenda and close quotations without any lock.        *)
ByHand(new, rows) ==
    /\ db' = new
    /\ touched' = [w \in Workers |-> IF tx[w] = None THEN {} ELSE touched[w] \cup rows]
    /\ UNCHANGED <<ask, now, lapsed, tx, view, crashes, told, saw, ends>>

AddMeeting(x) == x \notin db.meetings /\ ByHand([db EXCEPT !.meetings = @ \cup {x}], {})

CloseQuote(m) ==
    /\ db.quote[m] # None
    /\ db.quote[m].open
    /\ ByHand([db EXCEPT !.quote[m].open = FALSE], {<<"quote", m>>})

WorkerStep(w) ==
    (\E m \in Messages : Begin(w, m)) \/ Lock(w) \/ Finish(w) \/ Conflict(w)

Next ==
    \/ \E w \in Workers : WorkerStep(w) \/ Crash(w)
    \/ Tick
    \/ \E m \in Messages : Lapse(m) \/ CloseQuote(m)
    \/ \E x \in Meetings : AddMeeting(x)

Spec == Init /\ [][Next]_vars

(* The inbox retries an item whose transaction was lost, and a wait for a   *)
(* lock ends when its holder does.                                          *)
Fairness == \A w \in Workers : WF_vars(WorkerStep(w))

FairSpec == Spec /\ Fairness

-----------------------------------------------------------------------------
TypeOK ==
    /\ ask \in [Messages -> Ask]
    /\ now \in 0..MaxTime
    /\ lapsed \subseteq Messages
    /\ db \in Database
    /\ tx \in [Workers -> Transaction \cup {None}]
    /\ view \in [Workers -> Database \cup {None}]
    /\ \A w \in Workers : tx[w] # None => view[w] \in Database
    /\ touched \in [Workers -> SUBSET (({"event", "quote"} \X Messages) \cup ({"contact"} \X Leads))]
    /\ crashes \in 0..MaxCrashes
    /\ told \in [Messages -> Replies \cup {None}]
    /\ saw \in [Messages -> [events : SUBSET Messages, meetings : SUBSET Meetings]]
    /\ ends \in [Messages -> Nat]

(* Two items that are past the lock of the agenda never work on agendas of  *)
(* which one can show a conflict to the other: the locks reach as far as    *)
(* the check, whatever companies and channels share a responsible           *)
(* (_agent_agenda_lock and _agent_slot_conflict).                           *)
LockCoversScope ==
    \A v, w \in Workers :
        v # w /\ AgendaHeld(v) /\ AgendaHeld(w) =>
            ~InScope(Channel(tx[v].m), Channel(tx[w].m))

(* An appointment never meets, within its interval, another active event    *)
(* of its scope that was there when its item began, nor a meeting that      *)
(* somebody put there by hand before: only a race can book a slot twice.    *)
SeenSlotRefused ==
    \A m \in Messages : Active(db, m) =>
        LET c == Channel(m)
            start == db.event[m].start
        IN  /\ \A n \in saw[m].events :
                Active(db, n) /\ InScope(c, Channel(n)) =>
                    \/ EndOf(db, n) <= start - Buffer[c]
                    \/ db.event[n].start >= EndOf(db, m) + Buffer[c]
            /\ \A x \in saw[m].meetings :
                Responsible[c] # None /\ x.user = Responsible[c] =>
                    \/ x.stop <= start - Buffer[c]
                    \/ x.start >= EndOf(db, m) + Buffer[c]

(* The agenda of a lead is what the customer was told: an appointment for   *)
(* each booking, less the cancellations, even when several messages of the  *)
(* lead cancel and move at once (_handle_cancel_schedule and                *)
(* _handle_reschedule archive the event they found).                        *)
AgendaAsTold ==
    \A l \in Leads :
        LET of(S) == {m \in Messages : LeadOf(m) = l /\ told[m] \in S} IN
        Cardinality({m \in Messages : LeadOf(m) = l /\ Active(db, m)})
            = Cardinality(of({"booked"})) - Cardinality(of({"cancelled"}))

(* A summary is confirmed or declined once, by whatever runs that hold the  *)
(* answers of its customer at the same time (_handle_pending).              *)
SummaryEndsOnce == \A m \in Messages : ends[m] <= 1

(* A lead has one open quotation at most for a product, however often it    *)
(* asks and confirms: the second confirmation adjusts the first quotation.  *)
OneOpenQuote ==
    \A m, n \in Messages :
        /\ m # n
        /\ LeadOf(m) = LeadOf(n)
        /\ db.quote[m] # None /\ db.quote[m].open
        /\ db.quote[n] # None /\ db.quote[n].open
        => db.quote[m].product # db.quote[n].product

(* Every message is answered in the end: the locks of the agenda and of the *)
(* quotations never wait on each other.                                     *)
EventuallyAnswered == <>(\A m \in Messages : told[m] # None)

(* docs/adr/ADR-004-agenda-sem-dupla-reserva.md says that the second worker *)
(* waits for the lock and then sees the event of the first one.  It sees    *)
(* its snapshot, which is older than the lock.                              *)
NoDoubleBooking ==
    \A m, n \in Messages :
        m # n /\ Active(db, m) /\ Active(db, n) /\ InScope(Channel(m), Channel(n)) =>
            \/ EndOf(db, m) <= db.event[n].start
            \/ EndOf(db, n) <= db.event[m].start
=============================================================================
