------------------------- MODULE AgentActionsProofs -------------------------
(***************************************************************************)
(* What holds of the business actions of the agent for any channels, leads *)
(* and messages, any number of runs and any bounds.                        *)
(*                                                                         *)
(* IInv carries the argument.  Working relates the snapshot of a run to    *)
(* the rows as they are: whatever others changed for a lead since, except  *)
(* an event archived or a quotation closed, went through the row of its    *)
(* contact, which is then in touched and makes the commit fail.  Fresh and *)
(* Waiting make a summary's answer the first one, and SeenExists says that *)
(* the events a booking saw are never removed, archived at most.  LockInv  *)
(* is a second, independent invariant about the advisory locks.            *)
(* AgendaExact counts: an event that nobody touched since the snapshot is  *)
(* still active, so whoever moves or cancels it archives exactly one.      *)
(***************************************************************************)
EXTENDS AgentActions, TLAPS, WellFoundedInduction, FiniteSetTheorems

-----------------------------------------------------------------------------
(* A set of natural numbers has a least one.                                *)
LEMMA LeastNat ==
    ASSUME NEW T, T \subseteq Nat, T # {}
    PROVE  \E x \in T : \A y \in T : x <= y
  <1> DEFINE R == {pair \in Nat \X Nat : pair[1] < pair[2]}
  <1>1. IsWellFoundedOn(R, Nat)
    BY NatLessThanWellFounded DEF OpToRel
  <1>2. PICK x \in T : \A y \in T : <<y, x>> \notin R
    <2> HIDE DEF R
    <2> QED  BY <1>1, WFMin
  <1>3. \A y \in T : ~(y < x)
    BY <1>2
  <1> QED  BY <1>3

(* The next appointment of a lead is one of its future appointments.        *)
LEMMA NextAppointment ==
    ASSUME ask \in [Messages -> Ask], NEW d \in Database, NEW l \in Leads
    PROVE  /\ FutureEvent(l, d) \in FutureEvents(l, d) \cup {None}
           /\ FutureEvent(l, d) = None => FutureEvents(l, d) = {}
  <1> DEFINE F == FutureEvents(l, d)
             T == {d.event[m].start : m \in F}
  <1>1. /\ F \subseteq Messages /\ None \notin F
        /\ \A m \in F : d.event[m] \in Event
    BY MessagesAssumption DEF FutureEvents, Active, Database
  <1>2. CASE F = {}
    BY <1>2 DEF FutureEvent
  <1>3. CASE F # {}
    <2>1. T \subseteq Nat /\ T # {}
      BY <1>1, <1>3 DEF Event
    <2>2. PICK x \in T : \A y \in T : x <= y
      <3> HIDE DEF T
      <3> QED  BY <2>1, LeastNat
    <2>3. \E m \in F : \A n \in F : d.event[m].start <= d.event[n].start
      BY <2>2
    <2>4. FutureEvent(l, d) \in F
      <3> HIDE DEF F
      <3>1. FutureEvent(l, d) = CHOOSE m \in F : \A n \in F : d.event[m].start <= d.event[n].start
        BY <1>3 DEF FutureEvent, F
      <3> QED  BY <2>3, <3>1
    <2> QED  BY <1>1, <2>4
  <1> QED  BY <1>2, <1>3

(* The rows a transaction may have updated.                                 *)
Names == ({"event", "quote"} \X Messages) \cup ({"contact"} \X Leads)

LEMMA TodoType ==
    ASSUME ask \in [Messages -> Ask], NEW m \in Messages, NEW d \in Database
    PROVE  TodoFor(m, d) \in Todo
  BY DEF TodoFor, ScheduleTodo, Todo

(* A transaction, and the customer whose message it handles.                *)
LEMMA Tasks ==
    ASSUME TypeOK, NEW w \in Workers, tx[w] # None
    PROVE  /\ tx[w] \in Transaction /\ view[w] \in Database
           /\ tx[w].m \in Messages /\ LeadOf(tx[w].m) \in Leads
           /\ Channel(tx[w].m) \in Channels
  <1>1. tx[w] \in Transaction /\ view[w] \in Database
    BY DEF TypeOK
  <1>2. tx[w].m \in Messages
    BY <1>1 DEF Transaction
  <1>3. ask[tx[w].m] \in Ask
    BY <1>2 DEF TypeOK
  <1>4. ask[tx[w].m].from \in Leads
    BY <1>3 DEF Ask
  <1> QED  BY <1>1, <1>2, <1>4, ChannelsAssumption DEF LeadOf, Channel

-----------------------------------------------------------------------------
(* What a transaction writes is a database.                                 *)
LEMMA EventsType ==
    ASSUME NEW d \in Database, NEW m \in Messages
    PROVE  /\ ask[m].start \in Nat =>
                /\ NewEvent(d, m) \in Database
                /\ NewEvent(d, m).event =
                     [d.event EXCEPT ![m] = [start |-> ask[m].start, active |-> TRUE]]
                /\ NewEvent(d, m).quote = d.quote /\ NewEvent(d, m).pending = d.pending
           /\ d.event[m] \in Event =>
                /\ Archived(d, m) \in Database
                /\ Archived(d, m).event =
                     [d.event EXCEPT ![m] = [start |-> d.event[m].start, active |-> FALSE]]
                /\ Archived(d, m).quote = d.quote /\ Archived(d, m).pending = d.pending
  BY DEF NewEvent, Archived, Database, Event

LEMMA OrdersType ==
    ASSUME NEW d \in Database, NEW l \in Leads
    PROVE  /\ PendingCleared(d, l) \in Database
           /\ PendingCleared(d, l).pending = [d.pending EXCEPT ![l] = None]
           /\ PendingCleared(d, l).event = d.event /\ PendingCleared(d, l).quote = d.quote
  BY DEF PendingCleared, Database

LEMMA CommitType ==
    ASSUME TypeOK, NEW w \in Workers, tx[w] # None,
           NEW rows \in SUBSET Names, NEW new \in Database, NEW reply \in Replies,
           Commit(w, rows, new, reply),
           saw' \in [Messages -> [events : SUBSET Messages, meetings : SUBSET Meetings]],
           ends' \in [Messages -> Nat]
    PROVE  TypeOK'
  <1>1. tx[w].m \in Messages
    BY Tasks
  <1>2. told' \in [Messages -> Replies \cup {None}]
    BY <1>1 DEF Commit, TypeOK
  <1>3. touched' \in [Workers -> SUBSET Names]
    BY DEF Commit, TypeOK, Names
  <1>4. /\ tx' \in [Workers -> Transaction \cup {None}]
        /\ view' \in [Workers -> Database \cup {None}]
        /\ \A v \in Workers : tx'[v] # None => view'[v] \in Database
    BY DEF Commit, End, TypeOK
  <1>5. db' \in Database /\ UNCHANGED <<ask, now, lapsed, crashes>>
    BY DEF Commit, End
  <1> QED  BY <1>2, <1>3, <1>4, <1>5 DEF TypeOK, Names

(* A step preserves the types, one lemma for each kind of step.             *)
LEMMA BeginType ==
    ASSUME TypeOK, NEW w \in Workers, NEW m \in Messages, Begin(w, m)
    PROVE  TypeOK'
  <1>1. db \in Database /\ ask \in [Messages -> Ask]
    BY DEF TypeOK
  <1>2. LeadOf(m) \in Leads
    <2>1. ask[m] \in Ask
      BY <1>1
    <2> QED  BY <2>1 DEF Ask, LeadOf
  <1>3. FutureEvent(LeadOf(m), db) \in Messages \cup {None}
    BY <1>1, <1>2, NextAppointment DEF FutureEvents
  <1>4. [m |-> m, todo |-> TodoFor(m, db), current |-> FutureEvent(LeadOf(m), db), held |-> 0]
            \in Transaction
    BY <1>1, <1>3, TodoType DEF Transaction
  <1>5. tx' \in [Workers -> Transaction \cup {None}]
    BY <1>4 DEF Begin, TypeOK
  <1>6. /\ view' \in [Workers -> Database \cup {None}]
        /\ \A v \in Workers : tx'[v] # None => view'[v] \in Database
    BY <1>1 DEF Begin, TypeOK
  <1> QED  BY <1>5, <1>6 DEF Begin, TypeOK

LEMMA LockType == ASSUME TypeOK, NEW w \in Workers, Lock(w)  PROVE TypeOK'
  <1>1. tx[w] \in Transaction /\ tx' = [tx EXCEPT ![w].held = tx[w].held + 1]
    BY Tasks DEF Lock
  <1>2. [tx[w] EXCEPT !.held = tx[w].held + 1] \in Transaction
    BY <1>1 DEF Transaction
  <1>3. tx' \in [Workers -> Transaction \cup {None}] /\ \A v \in Workers : tx'[v] # None => v = w \/ tx[v] # None
    BY <1>1, <1>2 DEF TypeOK
  <1>4. tx[w] # None
    BY DEF Lock
  <1> QED  BY <1>3, <1>4 DEF Lock, TypeOK

LEMMA RollBackType ==
    ASSUME TypeOK, NEW w \in Workers, Conflict(w) \/ Crash(w)
    PROVE  TypeOK'
  <1>1. RollBack(w) /\ crashes' \in 0..MaxCrashes
    BY BoundsAssumption DEF Conflict, Crash, TypeOK
  <1>2. tx' \in [Workers -> Transaction \cup {None}] /\ view' \in [Workers -> Database \cup {None}]
    BY <1>1 DEF RollBack, End, TypeOK
  <1>3. \A v \in Workers : tx'[v] # None => view'[v] \in Database
    BY <1>1 DEF RollBack, End, TypeOK
  <1>4. touched' \in [Workers -> SUBSET Names]
    BY <1>1 DEF RollBack, TypeOK, Names
  <1> QED  BY <1>1, <1>2, <1>3, <1>4 DEF RollBack, End, TypeOK, Names

LEMMA OutsideType ==
    ASSUME TypeOK,
           \/ Tick
           \/ \E m \in Messages : Lapse(m) \/ CloseQuote(m)
           \/ \E x \in Meetings : AddMeeting(x)
    PROVE  TypeOK'
  <1>1. CASE Tick
    BY <1>1, BoundsAssumption DEF Tick, TypeOK
  <1>2. ASSUME NEW m \in Messages, Lapse(m)  PROVE TypeOK'
    BY <1>2 DEF Lapse, TypeOK
  <1>3. ASSUME NEW new \in Database, NEW rows \in SUBSET Names, ByHand(new, rows)
        PROVE  TypeOK'
    <2>1. touched' \in [Workers -> SUBSET Names]
      BY <1>3 DEF ByHand, TypeOK, Names
    <2> QED  BY <1>3, <2>1 DEF ByHand, TypeOK, Names
  <1>4. ASSUME NEW m \in Messages, CloseQuote(m)  PROVE TypeOK'
    <2>1. db \in Database /\ db.quote[m] \in Quote
      BY <1>4 DEF CloseQuote, TypeOK, Database
    <2>2. [db EXCEPT !.quote[m].open = FALSE] \in Database
      BY <2>1 DEF Database, Quote
    <2>3. {<<"quote", m>>} \in SUBSET Names
      BY DEF Names
    <2> QED  BY <1>3, <1>4, <2>2, <2>3 DEF CloseQuote
  <1>5. ASSUME NEW x \in Meetings, AddMeeting(x)  PROVE TypeOK'
    <2>1. [db EXCEPT !.meetings = @ \cup {x}] \in Database
      BY DEF TypeOK, Database
    <2> QED  BY <1>3, <1>5, <2>1 DEF AddMeeting
  <1> QED  BY <1>1, <1>2, <1>4, <1>5

-----------------------------------------------------------------------------
(* What a later database e keeps of a database d: its events, which are     *)
(* archived at most, and its quotations.                                    *)
Kept(d, e) ==
    \A n \in Messages :
        /\ d.event[n] # None =>
              /\ e.event[n] # None
              /\ e.event[n].start = d.event[n].start
              /\ e.event[n].active => d.event[n].active
        /\ d.quote[n] # None => e.quote[n] # None

(* The summary of lead l and its quotations, which are closed at most.      *)
Same(l, d, e) ==
    /\ e.pending[l] = d.pending[l]
    /\ \A n \in Messages : LeadOf(n) = l /\ e.quote[n] # None =>
          /\ d.quote[n] # None
          /\ e.quote[n].product = d.quote[n].product
          /\ e.quote[n].open => d.quote[n].open

(* All that others changed for a lead went through the row of its contact.  *)
Later(d, e, rows) ==
    Kept(d, e) /\ \A l \in Leads : <<"contact", l>> \notin rows => Same(l, d, e)

Decided(t, d) ==
    /\ t.todo \in {"book", "move"} => ask[t.m].start \in Nat
    /\ t.todo = "move" => t.current \in Messages /\ d.event[t.current] # None
    /\ t.todo = "summary" => ask[t.m].product \in Products /\ ask[t.m].qty \in Nat \ {0}
    /\ t.todo \in {"confirm", "decline"} => d.pending[LeadOf(t.m)] # None

Working ==
    \A w \in Workers : tx[w] # None =>
        /\ told[tx[w].m] = None
        /\ Decided(tx[w], view[w])
        /\ Later(view[w], db, touched[w])
        /\ \A v \in Workers \ {w} : tx[v] # None => tx[v].m # tx[w].m

(* What a message wrote, and that it was answered, is committed at once.    *)
Fresh ==
    \A m \in Messages : told[m] = None =>
        db.event[m] = None /\ db.quote[m] = None /\ ends[m] = 0

(* A summary that waits is the lead's own and has not ended.                *)
Waiting ==
    \A l \in Leads : db.pending[l] # None =>
        /\ LeadOf(db.pending[l].ref) = l
        /\ told[db.pending[l].ref] # None
        /\ ends[db.pending[l].ref] = 0

SeenExists == \A m \in Messages : \A n \in saw[m].events : db.event[n] # None

IInv ==
    /\ TypeOK /\ Working /\ Fresh /\ Waiting /\ SeenExists
    /\ SummaryEndsOnce /\ OneOpenQuote /\ SeenSlotRefused

-----------------------------------------------------------------------------
LEMMA LaterRefl == ASSUME NEW d, NEW rows  PROVE Later(d, d, rows)
  BY DEF Later, Kept, Same

LEMMA LaterTrans ==
    ASSUME NEW d, NEW e, NEW f, NEW R, NEW S, Later(d, e, R), Later(e, f, S)
    PROVE  Later(d, f, R \cup S)
  <1>1. Kept(d, f)
    BY DEF Later, Kept
  <1>2. \A l \in Leads : <<"contact", l>> \notin R \cup S => Same(l, d, f)
    BY DEF Later, Same
  <1> QED  BY <1>1, <1>2 DEF Later

(* What a transaction will do is possible in its snapshot.                  *)
LEMMA DecidedAtBegin ==
    ASSUME TypeOK, NEW w \in Workers, NEW m \in Messages, Begin(w, m)
    PROVE  Decided(tx'[w], db)
  <1>1. /\ tx'[w].m = m /\ tx'[w].todo = TodoFor(m, db)
        /\ tx'[w].current = FutureEvent(LeadOf(m), db)
    BY DEF Begin, TypeOK
  <1>2. ask[m] \in Ask /\ LeadOf(m) \in Leads /\ db \in Database
    BY DEF TypeOK, LeadOf, Ask
  <1> DEFINE c == Channel(m)
  <1>3. /\ TodoFor(m, db) \in {"book", "move"} =>
              ask[m].kind \in {"schedule", "reschedule"}
        /\ TodoFor(m, db) = "move" => FutureEvent(LeadOf(m), db) # None
        /\ TodoFor(m, db) = "summary" => ask[m].kind = "buy"
        /\ TodoFor(m, db) \in {"confirm", "decline"} => HasPending(LeadOf(m), db)
    BY DEF TodoFor, ScheduleTodo
  <1>4. /\ ask[m].kind \in {"schedule", "reschedule"} => ask[m].start \in Nat
        /\ ask[m].kind = "buy" => ask[m].product \in Products /\ ask[m].qty \in Nat \ {0}
    BY <1>2 DEF Ask
  <1>5. FutureEvent(LeadOf(m), db) # None =>
            FutureEvent(LeadOf(m), db) \in Messages /\ db.event[FutureEvent(LeadOf(m), db)] # None
    BY <1>2, NextAppointment DEF TypeOK, FutureEvents, Active
  <1> QED  BY <1>1, <1>3, <1>4, <1>5 DEF Decided, HasPending

(* The parts of the invariant that speak of orders, and of the agenda.      *)
OrdersInv == Waiting /\ SummaryEndsOnce /\ OneOpenQuote
AgendaInv == SeenExists /\ SeenSlotRefused

LEMMA CommitWorking ==
    ASSUME TypeOK, Working, NEW w \in Workers, tx[w] # None,
           NEW rows, NEW new, NEW reply,
           Commit(w, rows, new, reply), Later(db, new, rows)
    PROVE  Working'
  <1> SUFFICES ASSUME NEW v \in Workers, tx'[v] # None
               PROVE  /\ told'[tx'[v].m] = None
                      /\ Decided(tx[v], view[v])'
                      /\ Later(view[v], db, touched[v])'
                      /\ \A u \in Workers \ {v} : tx'[u] # None => tx'[u].m # tx'[v].m
    BY DEF Working
  <1>1. /\ ask' = ask /\ db' = new
        /\ v # w /\ tx'[v] = tx[v] /\ view'[v] = view[v]
        /\ touched'[v] = touched[v] \cup rows
        /\ \A u \in Workers : tx'[u] # None => tx'[u] = tx[u]
    BY DEF Commit, End, TypeOK
  <1>2. tx[v].m # tx[w].m /\ told[tx[v].m] = None /\ tx[v].m \in Messages
    BY <1>1, Tasks DEF Working
  <1>3. told'[tx'[v].m] = None
    BY <1>1, <1>2 DEF Commit, TypeOK
  <1>4. Decided(tx[v], view[v])'
    BY <1>1 DEF Working, Decided, LeadOf
  <1>5. Later(view[v], new, touched[v] \cup rows)
    BY <1>1, LaterTrans DEF Working
  <1>6. Later(view[v], db, touched[v])'
    BY <1>1, <1>5 DEF Later, Kept, Same, LeadOf
  <1>7. \A u \in Workers \ {v} : tx'[u] # None => tx'[u].m # tx'[v].m
    BY <1>1 DEF Working
  <1> QED  BY <1>3, <1>4, <1>6, <1>7

(* A transaction that leaves the orders, or the agenda, as they are.        *)
LEMMA OrdersUnchanged ==
    ASSUME TypeOK, OrdersInv, NEW w \in Workers, tx[w] # None,
           NEW rows, NEW new, NEW reply \in Replies, Commit(w, rows, new, reply),
           new.pending = db.pending, new.quote = db.quote, ends' = ends
    PROVE  OrdersInv'
  <1>1. db'.pending = db.pending /\ db'.quote = db.quote /\ ask' = ask
    BY DEF Commit, End
  <1>2. \A n \in Messages : told[n] # None => told'[n] # None
    BY NoneAssumption DEF Commit, TypeOK
  <1>3. \A l \in Leads : db.pending[l] # None => db.pending[l].ref \in Messages
    BY DEF TypeOK, Database, Pending
  <1>4. Waiting'
    BY <1>1, <1>2, <1>3 DEF OrdersInv, Waiting, LeadOf
  <1>5. SummaryEndsOnce' /\ OneOpenQuote'
    BY <1>1 DEF OrdersInv, SummaryEndsOnce, OneOpenQuote, LeadOf
  <1> QED  BY <1>4, <1>5 DEF OrdersInv

LEMMA AgendaUnchanged ==
    ASSUME AgendaInv, ask' = ask, saw' = saw, db'.event = db.event
    PROVE  AgendaInv'
  BY DEF AgendaInv, SeenExists, SeenSlotRefused, Active, EndOf, Channel, LeadOf

(* Neither do the steps of a customer nor those by hand undo an event.      *)
LEMMA AgendaArchived ==
    ASSUME TypeOK, AgendaInv, ask' = ask, saw' = saw,
           \A n \in Messages :
              /\ db.event[n] = None => db'.event[n] = None
              /\ db.event[n] # None =>
                    /\ db'.event[n] # None
                    /\ db'.event[n].start = db.event[n].start
                    /\ db'.event[n].active => db.event[n].active
    PROVE  AgendaInv'
  <1>1. SeenExists'
    BY DEF AgendaInv, SeenExists, TypeOK
  <1>2. \A n \in Messages : Active(db', n) =>
            Active(db, n) /\ db'.event[n].start = db.event[n].start
    BY DEF Active
  <1>3. \A m \in Messages : saw[m].events \subseteq Messages
    BY DEF TypeOK
  <1>4. SeenSlotRefused'
    <2> SUFFICES ASSUME NEW m \in Messages, Active(db', m)
                 PROVE  /\ \A n \in saw[m].events :
                            Active(db', n) /\ InScope(Channel(m), Channel(n)) =>
                                \/ EndOf(db', n) <= db'.event[m].start - Buffer[Channel(m)]
                                \/ db'.event[n].start >= EndOf(db', m) + Buffer[Channel(m)]
                        /\ \A x \in saw[m].meetings :
                            Responsible[Channel(m)] # None /\ x.user = Responsible[Channel(m)] =>
                                \/ x.stop <= db'.event[m].start - Buffer[Channel(m)]
                                \/ x.start >= EndOf(db', m) + Buffer[Channel(m)]
      BY DEF SeenSlotRefused, Active, EndOf, Channel, LeadOf
    <2>1. EndOf(db', m) = EndOf(db, m)
      BY <1>2 DEF EndOf
    <2>2. \A n \in saw[m].events : Active(db', n) => EndOf(db', n) = EndOf(db, n)
      BY <1>2, <1>3 DEF EndOf
    <2> QED  BY <1>2, <1>3, <2>1, <2>2 DEF AgendaInv, SeenSlotRefused
  <1> QED  BY <1>1, <1>4 DEF AgendaInv

LEMMA CommitFresh ==
    ASSUME TypeOK, Fresh, NEW w \in Workers, tx[w] # None,
           NEW rows, NEW new, NEW reply \in Replies, Commit(w, rows, new, reply),
           \A n \in Messages \ {tx[w].m} : told[n] = None =>
               new.event[n] = None /\ new.quote[n] = None /\ ends'[n] = 0
    PROVE  Fresh'
  <1>1. db' = new /\ told' = [told EXCEPT ![tx[w].m] = reply] /\ reply # None
    BY NoneAssumption DEF Commit
  <1> QED  BY <1>1, Tasks DEF Fresh, TypeOK

(* A booking of a slot that is free in the snapshot of its transaction.     *)
Booking(w, m, current) ==
    /\ db.event[m] = None /\ ask[m].start \in Nat
    /\ ~SlotConflict(Channel(m), ask[m].start, view[w], current)
    /\ ask' = ask
    /\ saw' = [saw EXCEPT ![m] = Seen(view[w])]
    /\ db'.event[m] = [start |-> ask[m].start, active |-> TRUE]
    /\ \A n \in Messages \ {m} :
          /\ db.event[n] = None => db'.event[n] = None
          /\ db.event[n] # None =>
                /\ db'.event[n] # None
                /\ db'.event[n].start = db.event[n].start
                /\ db'.event[n].active => db.event[n].active /\ n # current

LEMMA BookingSafe ==
    ASSUME TypeOK, AgendaInv, NEW w \in Workers, tx[w] # None, Kept(view[w], db),
           NEW m \in Messages, Channel(m) \in Channels, NEW current, Booking(w, m, current)
    PROVE  AgendaInv'
  <1> USE DEF Booking
  <1> DEFINE c == Channel(m)
             start == ask[m].start
  <1>1. /\ saw' \in [Messages -> [events : SUBSET Messages, meetings : SUBSET Meetings]]
        /\ saw'[m].events = {n \in Messages : view[w].event[n] # None}
        /\ saw'[m].meetings = view[w].meetings
        /\ \A k \in Messages \ {m} : saw'[k] = saw[k]
        /\ view[w] \in Database
    BY DEF TypeOK, Seen, Database
  <1>2. \A n \in Messages : view[w].event[n] # None => db.event[n] # None /\ n # m
    BY DEF Kept
  <1>3. SeenExists'
    BY <1>1, <1>2 DEF AgendaInv, SeenExists
  <1>4. \A n \in Messages \ {m} : Active(db', n) =>
            Active(db, n) /\ n # current /\ db'.event[n].start = db.event[n].start
    BY DEF Active
  <1>5. \A n \in saw'[m].events : Active(db', n) =>
            /\ Active(view[w], n) /\ n # current
            /\ db'.event[n].start = view[w].event[n].start
            /\ EndOf(db', n) = EndOf(view[w], n)
            /\ view[w].event[n].start \in Nat
    <2>1. \A n \in Messages : view[w].event[n] # None => view[w].event[n] \in Event
      BY <1>1 DEF Database
    <2> QED  BY <1>1, <1>2, <1>4, <2>1 DEF Kept, Active, EndOf, Event
  <1>6. EndOf(db', m) = start + Duration[c] /\ db'.event[m].start = start
    BY DEF EndOf
  <1>7. Duration[c] \in Nat /\ Buffer[c] \in Nat /\ start \in Nat
    BY ChannelsAssumption
  <1>8. \A n \in saw'[m].events : Active(db', n) /\ InScope(c, Channel(n)) =>
            \/ EndOf(db', n) <= start - Buffer[c]
            \/ db'.event[n].start >= EndOf(db', m) + Buffer[c]
    <2> SUFFICES ASSUME NEW n \in saw'[m].events, Active(db', n), InScope(c, Channel(n))
                 PROVE  \/ EndOf(db', n) <= start - Buffer[c]
                        \/ db'.event[n].start >= EndOf(db', m) + Buffer[c]
      OBVIOUS
    <2>1. ~Meets(c, start, view[w].event[n].start, EndOf(view[w], n))
      BY <1>1, <1>5 DEF SlotConflict
    <2>2. n \in Messages /\ ask[n] \in Ask
      BY <1>1 DEF TypeOK
    <2>3. Channel(n) \in Channels
      BY <2>2, ChannelsAssumption DEF Channel, LeadOf, Ask
    <2>4. EndOf(view[w], n) \in Nat
      BY <1>5, <2>3, ChannelsAssumption DEF EndOf
    <2> QED  BY <1>5, <1>6, <1>7, <2>1, <2>4 DEF Meets
  <1>9. \A x \in saw'[m].meetings : Responsible[c] # None /\ x.user = Responsible[c] =>
            \/ x.stop <= start - Buffer[c]
            \/ x.start >= EndOf(db', m) + Buffer[c]
    <2> SUFFICES ASSUME NEW x \in view[w].meetings, Responsible[c] # None, x.user = Responsible[c]
                 PROVE  \/ x.stop <= start - Buffer[c]
                        \/ x.start >= EndOf(db', m) + Buffer[c]
      BY <1>1
    <2>1. x \in Meetings
      BY <1>1 DEF Database
    <2>2. x.start \in Nat /\ x.stop \in Nat
      BY <2>1, ChannelsAssumption
    <2>3. ~Meets(c, start, x.start, x.stop)
      BY DEF SlotConflict
    <2> QED  BY <1>6, <1>7, <2>2, <2>3 DEF Meets
  <1>10. ASSUME NEW k \in Messages \ {m}, Active(db', k)
         PROVE  /\ \A n \in saw'[k].events : Active(db', n) /\ InScope(Channel(k), Channel(n)) =>
                    \/ EndOf(db', n) <= db'.event[k].start - Buffer[Channel(k)]
                    \/ db'.event[n].start >= EndOf(db', k) + Buffer[Channel(k)]
                /\ \A x \in saw'[k].meetings :
                    Responsible[Channel(k)] # None /\ x.user = Responsible[Channel(k)] =>
                        \/ x.stop <= db'.event[k].start - Buffer[Channel(k)]
                        \/ x.start >= EndOf(db', k) + Buffer[Channel(k)]
    <2>1. \A n \in saw[k].events : n \in Messages \ {m}
      BY DEF TypeOK, AgendaInv, SeenExists
    <2>2. EndOf(db', k) = EndOf(db, k) /\ db'.event[k].start = db.event[k].start /\ Active(db, k)
      BY <1>4, <1>10 DEF EndOf
    <2>3. \A n \in saw[k].events : Active(db', n) =>
              Active(db, n) /\ EndOf(db', n) = EndOf(db, n) /\ db'.event[n].start = db.event[n].start
      BY <1>4, <2>1 DEF EndOf
    <2> QED  BY <1>1, <2>2, <2>3 DEF AgendaInv, SeenSlotRefused
  <1>11. SeenSlotRefused'
    BY <1>6, <1>8, <1>9, <1>10 DEF SeenSlotRefused, Active, EndOf, Channel, LeadOf
  <1> QED  BY <1>3, <1>11 DEF AgendaInv

-----------------------------------------------------------------------------
(* The facts that every step of a handling starts from.                     *)
LEMMA Handling ==
    ASSUME IInv, NEW w \in Workers, tx[w] # None
    PROVE  /\ tx[w] \in Transaction /\ view[w] \in Database /\ db \in Database
           /\ tx[w].m \in Messages /\ LeadOf(tx[w].m) \in Leads
           /\ Channel(tx[w].m) \in Channels
           /\ told[tx[w].m] = None /\ Decided(tx[w], view[w])
           /\ Later(view[w], db, touched[w])
           /\ db.event[tx[w].m] = None /\ db.quote[tx[w].m] = None /\ ends[tx[w].m] = 0
  BY Tasks DEF IInv, TypeOK, Working, Fresh

LEMMA BookStep == ASSUME IInv, NEW w \in Workers, Book(w)  PROVE IInv'
  <1> DEFINE m == tx[w].m
             new == NewEvent(db, m)
  <1>1. tx[w] # None /\ tx[w].todo = "book"
    BY DEF Book, Ready
  <1>2. /\ m \in Messages /\ Channel(m) \in Channels /\ db \in Database /\ view[w] \in Database
        /\ db.event[m] = None /\ ask[m].start \in Nat
        /\ Later(view[w], db, touched[w])
    BY <1>1, Handling DEF Decided
  <1>3. /\ Commit(w, {}, new, "booked") /\ ends' = ends
        /\ saw' = [saw EXCEPT ![m] = Seen(view[w])]
        /\ ~SlotConflict(Channel(m), ask[m].start, view[w], None)
    BY DEF Book
  <1>4. /\ new \in Database /\ new.quote = db.quote /\ new.pending = db.pending
        /\ new.event = [db.event EXCEPT ![m] = [start |-> ask[m].start, active |-> TRUE]]
    <2> HIDE DEF m
    <2> QED  BY <1>2, EventsType
  <1>5. /\ new.event[m] = [start |-> ask[m].start, active |-> TRUE]
        /\ \A n \in Messages \ {m} : new.event[n] = db.event[n]
    BY <1>2, <1>4 DEF Database
  <1>6. ask' = ask /\ db' = new
    BY <1>3 DEF Commit, End
  <1> HIDE DEF new
  <1>7. Later(db, new, {})
    BY <1>2, <1>4, <1>5 DEF Later, Kept, Same
  <1>8. TypeOK'
    <2>1. Seen(view[w]) \in [events : SUBSET Messages, meetings : SUBSET Meetings]
      BY <1>2 DEF Seen, Database
    <2>2. saw' \in [Messages -> [events : SUBSET Messages, meetings : SUBSET Meetings]]
      BY <1>2, <1>3, <2>1 DEF IInv, TypeOK
    <2>3. ends' \in [Messages -> Nat] /\ "booked" \in Replies
      BY <1>3 DEF IInv, TypeOK, Replies
    <2> QED  BY <1>1, <1>3, <1>4, <2>2, <2>3, CommitType DEF IInv
  <1>9. Working'
    BY <1>1, <1>3, <1>7, CommitWorking DEF IInv
  <1>10. Fresh'
    <2>1. \A n \in Messages \ {m} : told[n] = None =>
              new.event[n] = None /\ new.quote[n] = None /\ ends'[n] = 0
      BY <1>3, <1>4, <1>5 DEF IInv, Fresh
    <2> QED  BY <1>1, <1>3, <2>1, CommitFresh DEF IInv, Replies
  <1>11. OrdersInv'
    BY <1>1, <1>3, <1>4, OrdersUnchanged DEF IInv, OrdersInv, Replies
  <1>12. AgendaInv'
    <2>1. db'.event[m] = [start |-> ask[m].start, active |-> TRUE]
      BY <1>5, <1>6
    <2>2. \A n \in Messages \ {m} :
              /\ db.event[n] = None => db'.event[n] = None
              /\ db.event[n] # None =>
                    /\ db'.event[n] # None
                    /\ db'.event[n].start = db.event[n].start
                    /\ db'.event[n].active => db.event[n].active /\ n # None
      BY <1>5, <1>6, MessagesAssumption
    <2>3. Kept(view[w], db)
      BY <1>2 DEF Later
    <2>4. TypeOK /\ AgendaInv
      BY DEF IInv, AgendaInv
    <2>5. Booking(w, m, None)
      BY <1>2, <1>3, <1>6, <2>1, <2>2 DEF Booking
    <2> HIDE DEF m
    <2> QED  BY <1>1, <1>2, <2>3, <2>4, <2>5, BookingSafe
  <1> QED  BY <1>8, <1>9, <1>10, <1>11, <1>12 DEF IInv, OrdersInv, AgendaInv

LEMMA MoveStep == ASSUME IInv, NEW w \in Workers, Move(w)  PROVE IInv'
  <1> DEFINE m == tx[w].m
             old == tx[w].current
             mid == NewEvent(db, m)
             new == Archived(mid, old)
  <1>1. tx[w] # None /\ tx[w].todo = "move"
    BY DEF Move, Ready
  <1>2. /\ m \in Messages /\ Channel(m) \in Channels /\ db \in Database /\ view[w] \in Database
        /\ db.event[m] = None /\ ask[m].start \in Nat
        /\ Later(view[w], db, touched[w])
        /\ old \in Messages /\ view[w].event[old] # None
    BY <1>1, Handling DEF Decided
  <1>3. /\ Commit(w, {<<"event", old>>}, new, "moved") /\ ends' = ends
        /\ saw' = [saw EXCEPT ![m] = Seen(view[w])]
        /\ ~SlotConflict(Channel(m), ask[m].start, view[w], old)
    BY DEF Move
  <1>4. db.event[old] \in Event /\ db.event[old] # None /\ old # m
    BY <1>2 DEF Later, Kept, Database
  <1>5. /\ mid \in Database /\ mid.quote = db.quote /\ mid.pending = db.pending
        /\ mid.event = [db.event EXCEPT ![m] = [start |-> ask[m].start, active |-> TRUE]]
    <2> HIDE DEF m
    <2> QED  BY <1>2, EventsType
  <1>6. mid.event[old] = db.event[old]
    BY <1>2, <1>4, <1>5 DEF Database
  <1>7. /\ new \in Database /\ new.quote = db.quote /\ new.pending = db.pending
        /\ new.event = [mid.event EXCEPT ![old] = [start |-> mid.event[old].start, active |-> FALSE]]
    <2> HIDE DEF mid, old
    <2> QED  BY <1>2, <1>4, <1>5, <1>6, EventsType
  <1>8. /\ new.event[m] = [start |-> ask[m].start, active |-> TRUE]
        /\ new.event[old] = [start |-> db.event[old].start, active |-> FALSE]
        /\ \A n \in Messages \ {m, old} : new.event[n] = db.event[n]
    <2>1. mid.event \in [Messages -> Event \cup {None}]
      BY <1>5 DEF Database
    <2>2. db.event \in [Messages -> Event \cup {None}]
      BY <1>2 DEF Database
    <2> HIDE DEF m, old, mid, new
    <2>3. mid.event[m] = [start |-> ask[m].start, active |-> TRUE]
      BY <1>2, <1>5, <2>2
    <2>4. \A n \in Messages \ {m, old} : mid.event[n] = db.event[n]
      BY <1>2, <1>5, <2>2
    <2>5. /\ new.event[old] = [start |-> mid.event[old].start, active |-> FALSE]
          /\ \A n \in Messages \ {old} : new.event[n] = mid.event[n]
      BY <1>2, <1>7, <2>1
    <2> QED  BY <1>2, <1>4, <1>6, <2>3, <2>4, <2>5
  <1>9. new.event[old] # None
    <2>1. db.event[old].start \in Nat
      BY <1>4 DEF Event
    <2>2. [start |-> db.event[old].start, active |-> FALSE] \in Event
      BY <2>1 DEF Event
    <2> QED  BY <1>8, <2>2, NoneAssumption
  <1>10. ask' = ask /\ db' = new
    BY <1>3 DEF Commit, End
  <1>11. {<<"event", old>>} \in SUBSET Names
    BY <1>2 DEF Names
  <1> HIDE DEF new, mid
  <1>12. Later(db, new, {<<"event", old>>})
    BY <1>2, <1>4, <1>7, <1>8, <1>9 DEF Later, Kept, Same
  <1>13. TypeOK'
    <2>1. Seen(view[w]) \in [events : SUBSET Messages, meetings : SUBSET Meetings]
      BY <1>2 DEF Seen, Database
    <2>2. saw' \in [Messages -> [events : SUBSET Messages, meetings : SUBSET Meetings]]
      BY <1>2, <1>3, <2>1 DEF IInv, TypeOK
    <2>3. ends' \in [Messages -> Nat] /\ "moved" \in Replies
      BY <1>3 DEF IInv, TypeOK, Replies
    <2> QED  BY <1>1, <1>3, <1>7, <1>11, <2>2, <2>3, CommitType DEF IInv
  <1>14. Working'
    BY <1>1, <1>3, <1>12, CommitWorking DEF IInv
  <1>15. Fresh'
    <2>1. \A n \in Messages \ {m} : told[n] = None =>
              new.event[n] = None /\ new.quote[n] = None /\ ends'[n] = 0
      BY <1>3, <1>4, <1>7, <1>8 DEF IInv, Fresh
    <2> QED  BY <1>1, <1>3, <2>1, CommitFresh DEF IInv, Replies
  <1>16. OrdersInv'
    BY <1>1, <1>3, <1>7, OrdersUnchanged DEF IInv, OrdersInv, Replies
  <1>17. AgendaInv'
    <2>1. db'.event[m] = [start |-> ask[m].start, active |-> TRUE]
      BY <1>8, <1>10
    <2>2. \A n \in Messages \ {m} :
              /\ db.event[n] = None => db'.event[n] = None
              /\ db.event[n] # None =>
                    /\ db'.event[n] # None
                    /\ db'.event[n].start = db.event[n].start
                    /\ db'.event[n].active => db.event[n].active /\ n # old
      BY <1>4, <1>8, <1>9, <1>10
    <2>3. Kept(view[w], db)
      BY <1>2 DEF Later
    <2>4. TypeOK /\ AgendaInv
      BY DEF IInv, AgendaInv
    <2>5. Booking(w, m, old)
      BY <1>2, <1>3, <1>10, <2>1, <2>2 DEF Booking
    <2> HIDE DEF m, old
    <2> QED  BY <1>1, <1>2, <2>3, <2>4, <2>5, BookingSafe
  <1> QED  BY <1>13, <1>14, <1>15, <1>16, <1>17 DEF IInv, OrdersInv, AgendaInv

(* A message that changes nothing of the data.                              *)
LEMMA NothingStep ==
    ASSUME IInv, NEW w \in Workers, tx[w] # None, NEW reply \in Replies,
           Commit(w, {}, db, reply), UNCHANGED <<saw, ends>>
    PROVE  IInv'
  <1>1. ask' = ask /\ db' = db
    BY DEF Commit, End
  <1>2. TypeOK'
    BY CommitType DEF IInv, TypeOK
  <1>3. Working'
    BY LaterRefl, CommitWorking DEF IInv
  <1>4. Fresh'
    <2>1. \A n \in Messages \ {tx[w].m} : told[n] = None =>
              db.event[n] = None /\ db.quote[n] = None /\ ends'[n] = 0
      BY DEF IInv, Fresh
    <2> QED  BY <2>1, CommitFresh DEF IInv
  <1>5. OrdersInv'
    BY OrdersUnchanged DEF IInv, OrdersInv
  <1>6. AgendaInv'
    BY <1>1, AgendaUnchanged DEF IInv, AgendaInv
  <1> QED  BY <1>2, <1>3, <1>4, <1>5, <1>6 DEF IInv, OrdersInv, AgendaInv

LEMMA CancelStep == ASSUME IInv, NEW w \in Workers, Cancel(w)  PROVE IInv'
  <1> DEFINE old == FutureEvent(LeadOf(tx[w].m), view[w])
             new == Archived(db, old)
  <1>1. tx[w] # None
    BY DEF Cancel, Ready
  <1>2. CASE old = None
    BY <1>1, <1>2, NothingStep DEF Cancel, Replies
  <1>3. CASE old # None
    <2>1. /\ Commit(w, {<<"event", old>>}, new, "cancelled") /\ UNCHANGED <<saw, ends>>
      BY <1>3 DEF Cancel
    <2>2. db \in Database /\ view[w] \in Database /\ Later(view[w], db, touched[w])
          /\ ask \in [Messages -> Ask] /\ LeadOf(tx[w].m) \in Leads
      BY <1>1, Handling DEF IInv, TypeOK
    <2>3. old \in Messages /\ view[w].event[old] # None
      BY <1>3, <2>2, NextAppointment DEF FutureEvents, Active
    <2>4. db.event[old] \in Event /\ db.event[old] # None
      BY <2>2, <2>3 DEF Later, Kept, Database
    <2> HIDE DEF old
    <2>5. /\ new \in Database /\ new.quote = db.quote /\ new.pending = db.pending
          /\ new.event = [db.event EXCEPT ![old] = [start |-> db.event[old].start, active |-> FALSE]]
      BY <2>2, <2>3, <2>4, EventsType
    <2>6. /\ new.event[old] = [start |-> db.event[old].start, active |-> FALSE]
          /\ \A n \in Messages \ {old} : new.event[n] = db.event[n]
      BY <2>2, <2>3, <2>5 DEF Database
    <2>7. new.event[old] # None
      <3>1. db.event[old].start \in Nat
        BY <2>4 DEF Event
      <3>2. [start |-> db.event[old].start, active |-> FALSE] \in Event
        BY <3>1 DEF Event
      <3> QED  BY <2>6, <3>2, NoneAssumption
    <2>8. ask' = ask /\ db' = new
      BY <2>1 DEF Commit, End
    <2>9. {<<"event", old>>} \in SUBSET Names
      BY <2>3 DEF Names
    <2> HIDE DEF new
    <2>10. Later(db, new, {<<"event", old>>})
      BY <2>4, <2>5, <2>6, <2>7 DEF Later, Kept, Same
    <2>11. TypeOK'
      BY <1>1, <2>1, <2>5, <2>9, CommitType DEF IInv, TypeOK, Replies
    <2>12. Working'
      BY <1>1, <2>1, <2>10, CommitWorking DEF IInv
    <2>13. Fresh'
      <3>1. \A n \in Messages \ {tx[w].m} : told[n] = None =>
                new.event[n] = None /\ new.quote[n] = None /\ ends'[n] = 0
        BY <2>1, <2>4, <2>5, <2>6 DEF IInv, Fresh
      <3> QED  BY <1>1, <2>1, <3>1, CommitFresh DEF IInv, Replies
    <2>14. OrdersInv'
      BY <1>1, <2>1, <2>5, OrdersUnchanged DEF IInv, OrdersInv, Replies
    <2>15. AgendaInv'
      <3>1. \A n \in Messages :
              /\ db.event[n] = None => db'.event[n] = None
              /\ db.event[n] # None =>
                    /\ db'.event[n] # None
                    /\ db'.event[n].start = db.event[n].start
                    /\ db'.event[n].active => db.event[n].active
        BY <2>4, <2>6, <2>7, <2>8
      <3> QED  BY <2>1, <2>8, <3>1, AgendaArchived DEF IInv, AgendaInv
    <2> QED  BY <2>11, <2>12, <2>13, <2>14, <2>15 DEF IInv, OrdersInv, AgendaInv
  <1> QED  BY <1>2, <1>3

LEMMA BusyStep == ASSUME IInv, NEW w \in Workers, Busy(w)  PROVE IInv'
  <1>1. tx[w] # None
    BY DEF Busy, Ready
  <1> QED  BY <1>1, NothingStep DEF Busy, Replies

LEMMA TalkStep == ASSUME IInv, NEW w \in Workers, Talk(w)  PROVE IInv'
  BY NothingStep DEF Talk, Replies

LEMMA SummaryStep == ASSUME IInv, NEW w \in Workers, Summary(w)  PROVE IInv'
  <1> DEFINE m == tx[w].m
             l == LeadOf(m)
             p == [ref |-> m, product |-> ask[m].product, qty |-> ask[m].qty]
             new == [db EXCEPT !.pending[l] = p]
  <1>1. tx[w] # None /\ tx[w].todo = "summary"
    BY DEF Summary, Ready
  <1>2. /\ m \in Messages /\ l \in Leads /\ db \in Database /\ told[m] = None /\ ends[m] = 0
        /\ ask[m].product \in Products /\ ask[m].qty \in Nat \ {0}
    BY <1>1, Handling DEF Decided
  <1>3. Commit(w, {<<"contact", l>>}, new, "summary") /\ UNCHANGED <<saw, ends>>
    BY DEF Summary
  <1>4. p \in Pending
    BY <1>2 DEF Pending
  <1>5. /\ new \in Database /\ new.event = db.event /\ new.quote = db.quote
        /\ new.pending = [db.pending EXCEPT ![l] = p]
    <2> HIDE DEF p, l
    <2> QED  BY <1>2, <1>4 DEF Database
  <1>6. new.pending[l] = p /\ \A k \in Leads \ {l} : new.pending[k] = db.pending[k]
    BY <1>2, <1>5 DEF Database
  <1>7. /\ ask' = ask /\ db' = new
        /\ told' = [told EXCEPT ![m] = "summary"] /\ "summary" \in Replies /\ "summary" # None
    BY <1>3, NoneAssumption DEF Commit, End, Replies
  <1>8. {<<"contact", l>>} \in SUBSET Names
    BY <1>2 DEF Names
  <1>9. p.ref = m
    OBVIOUS
  <1> HIDE DEF new, p
  <1>10. Later(db, new, {<<"contact", l>>})
    BY <1>2, <1>5, <1>6 DEF Later, Kept, Same
  <1>11. TypeOK'
    BY <1>1, <1>3, <1>5, <1>7, <1>8, CommitType DEF IInv, TypeOK
  <1>12. Working'
    BY <1>1, <1>3, <1>10, CommitWorking DEF IInv
  <1>13. Fresh'
    <2>1. \A n \in Messages \ {m} : told[n] = None =>
              new.event[n] = None /\ new.quote[n] = None /\ ends'[n] = 0
      BY <1>3, <1>5 DEF IInv, Fresh
    <2> QED  BY <1>1, <1>3, <1>7, <2>1, CommitFresh DEF IInv
  <1>14. Waiting'
    <2> SUFFICES ASSUME NEW k \in Leads, db'.pending[k] # None
                 PROVE  /\ LeadOf(db'.pending[k].ref) = k
                        /\ told'[db'.pending[k].ref] # None
                        /\ ends'[db'.pending[k].ref] = 0
      BY <1>7 DEF Waiting, LeadOf
    <2>1. CASE k = l
      BY <1>2, <1>3, <1>6, <1>7, <1>9, <2>1 DEF IInv, TypeOK
    <2>2. CASE k # l
      <3>1. db'.pending[k] = db.pending[k] /\ db.pending[k].ref \in Messages
        BY <1>2, <1>6, <1>7, <2>2 DEF Database, Pending
      <3> QED  BY <1>3, <1>7, <3>1 DEF IInv, TypeOK, Waiting
    <2> QED  BY <2>1, <2>2
  <1>15. SummaryEndsOnce' /\ OneOpenQuote'
    BY <1>3, <1>5, <1>7 DEF IInv, SummaryEndsOnce, OneOpenQuote, LeadOf
  <1>16. AgendaInv'
    BY <1>3, <1>5, <1>7, AgendaUnchanged DEF IInv, AgendaInv
  <1> QED  BY <1>11, <1>12, <1>13, <1>14, <1>15, <1>16 DEF IInv, AgendaInv

(* The summary that a transaction answers is still the one that waits, when *)
(* nobody touched the contact since its snapshot.                           *)
LEMMA StillWaiting ==
    ASSUME IInv, NEW w \in Workers, tx[w] # None, tx[w].todo \in {"confirm", "decline"},
           <<"contact", LeadOf(tx[w].m)>> \notin touched[w]
    PROVE  LET l == LeadOf(tx[w].m)
               p == view[w].pending[l]
           IN  /\ db.pending[l] = p /\ p # None /\ p \in Pending /\ p.ref \in Messages
               /\ LeadOf(p.ref) = l /\ told[p.ref] # None /\ ends[p.ref] = 0
               /\ Same(l, view[w], db)
  <1> DEFINE l == LeadOf(tx[w].m)
             p == view[w].pending[l]
  <1>1. l \in Leads /\ view[w] \in Database /\ p # None /\ Later(view[w], db, touched[w])
    BY Handling DEF Decided
  <1>2. Same(l, view[w], db) /\ db.pending[l] = p
    BY <1>1 DEF Later, Same
  <1>3. p \in Pending /\ p.ref \in Messages
    BY <1>1 DEF Database, Pending
  <1> QED  BY <1>1, <1>2, <1>3 DEF IInv, Waiting

LEMMA PendingEnds ==
    ASSUME IInv, NEW w \in Workers, tx[w] # None, tx[w].todo \in {"confirm", "decline"},
           <<"contact", LeadOf(tx[w].m)>> \notin touched[w],
           NEW rows, NEW new, NEW reply \in Replies, Commit(w, rows, new, reply),
           new.pending = [db.pending EXCEPT ![LeadOf(tx[w].m)] = None],
           Answered(w, view[w])
    PROVE  /\ Waiting' /\ SummaryEndsOnce'
           /\ ends' \in [Messages -> Nat]
           /\ \A n \in Messages : told[n] = None => ends'[n] = 0
  <1> DEFINE l == LeadOf(tx[w].m)
             r == view[w].pending[l].ref
  <1>1. r \in Messages /\ LeadOf(r) = l /\ told[r] # None /\ ends[r] = 0 /\ l \in Leads
    BY StillWaiting, Handling
  <1>2. ends' = [ends EXCEPT ![r] = ends[r] + 1] /\ ends \in [Messages -> Nat]
    BY DEF Answered, IInv, TypeOK
  <1>3. /\ ask' = ask /\ db'.pending = [db.pending EXCEPT ![l] = None]
        /\ told' = [told EXCEPT ![tx[w].m] = reply] /\ reply # None
    BY NoneAssumption DEF Commit, End
  <1> HIDE DEF r, l
  <1>4. ends' \in [Messages -> Nat] /\ ends'[r] = 1 /\ \A n \in Messages \ {r} : ends'[n] = ends[n]
    BY <1>1, <1>2
  <1>5. SummaryEndsOnce'
    BY <1>4 DEF IInv, SummaryEndsOnce
  <1>6. \A n \in Messages : told[n] = None => ends'[n] = 0
    BY <1>1, <1>4 DEF IInv, Fresh
  <1>7. Waiting'
    <2> SUFFICES ASSUME NEW k \in Leads, db'.pending[k] # None
                 PROVE  /\ LeadOf(db'.pending[k].ref) = k
                        /\ told'[db'.pending[k].ref] # None
                        /\ ends'[db'.pending[k].ref] = 0
      BY <1>3 DEF Waiting, LeadOf
    <2>1. k # l /\ db'.pending[k] = db.pending[k] /\ db.pending[k].ref \in Messages
      BY <1>1, <1>3 DEF IInv, TypeOK, Database, Pending
    <2>2. /\ LeadOf(db.pending[k].ref) = k /\ told[db.pending[k].ref] # None
          /\ ends[db.pending[k].ref] = 0
      BY <2>1 DEF IInv, Waiting
    <2>3. told'[db.pending[k].ref] # None
      BY <1>3, <2>1, <2>2 DEF IInv, TypeOK
    <2> QED  BY <1>1, <1>4, <2>1, <2>2, <2>3
  <1> QED  BY <1>4, <1>5, <1>6, <1>7

LEMMA DeclineStep == ASSUME IInv, NEW w \in Workers, Decline(w)  PROVE IInv'
  <1> DEFINE l == LeadOf(tx[w].m)
             new == PendingCleared(db, l)
  <1>1. tx[w] # None /\ tx[w].todo = "decline"
    BY DEF Decline, Ready
  <1>2. l \in Leads /\ db \in Database
    BY <1>1, Handling
  <1>3. /\ Commit(w, {<<"contact", l>>}, new, "declined") /\ Answered(w, view[w])
        /\ saw' = saw /\ "declined" \in Replies
    BY DEF Decline, Replies
  <1>4. <<"contact", l>> \notin touched[w]
    BY <1>3 DEF Commit
  <1>5. /\ new \in Database /\ new.event = db.event /\ new.quote = db.quote
        /\ new.pending = [db.pending EXCEPT ![l] = None]
    <2> HIDE DEF l
    <2> QED  BY <1>2, OrdersType
  <1>6. ask' = ask /\ db' = new
    BY <1>3 DEF Commit, End
  <1>7. {<<"contact", l>>} \in SUBSET Names
    BY <1>2 DEF Names
  <1> HIDE DEF new
  <1>8. /\ Waiting' /\ SummaryEndsOnce' /\ ends' \in [Messages -> Nat]
        /\ \A n \in Messages : told[n] = None => ends'[n] = 0
    BY <1>1, <1>3, <1>4, <1>5, PendingEnds
  <1>9. Later(db, new, {<<"contact", l>>})
    <2>1. \A k \in Leads \ {l} : new.pending[k] = db.pending[k]
      BY <1>2, <1>5 DEF Database
    <2> QED  BY <1>5, <2>1 DEF Later, Kept, Same
  <1>10. TypeOK'
    BY <1>1, <1>3, <1>5, <1>7, <1>8, CommitType DEF IInv, TypeOK
  <1>11. Working'
    BY <1>1, <1>3, <1>9, CommitWorking DEF IInv
  <1>12. Fresh'
    <2>1. \A n \in Messages \ {tx[w].m} : told[n] = None =>
              new.event[n] = None /\ new.quote[n] = None /\ ends'[n] = 0
      BY <1>5, <1>8 DEF IInv, Fresh
    <2> QED  BY <1>1, <1>3, <2>1, CommitFresh DEF IInv
  <1>13. OneOpenQuote'
    BY <1>5, <1>6 DEF IInv, OneOpenQuote, LeadOf
  <1>14. AgendaInv'
    BY <1>3, <1>5, <1>6, AgendaUnchanged DEF IInv, AgendaInv
  <1> QED  BY <1>8, <1>10, <1>11, <1>12, <1>13, <1>14 DEF IInv, AgendaInv

LEMMA ConfirmStep == ASSUME IInv, NEW w \in Workers, Confirm(w)  PROVE IInv'
  <1> DEFINE m == tx[w].m
             l == LeadOf(m)
             p == view[w].pending[l]
             open == OpenQuote(l, p.product, view[w])
             target == IF open = {} THEN m ELSE CHOOSE q \in open : TRUE
             quote == [product |-> p.product, qty |-> p.qty,
                       open |-> IF open = {} THEN TRUE ELSE db.quote[target].open]
             rows == {<<"contact", l>>} \cup
                        {<<"quote", q>> : q \in ToAdjust(l, p, view[w]) \cap {target}}
             new == [PendingCleared(db, l) EXCEPT !.quote[target] = quote]
  <1>1. tx[w] # None /\ tx[w].todo = "confirm"
    BY DEF Confirm, Ready
  <1>2. /\ m \in Messages /\ l \in Leads /\ db \in Database /\ view[w] \in Database
        /\ db.quote[m] = None /\ told[m] = None /\ Kept(view[w], db)
    BY <1>1, Handling DEF Later
  <1>3. /\ Commit(w, rows, new, "quoted") /\ Answered(w, view[w])
        /\ saw' = saw /\ "quoted" \in Replies
    BY DEF Confirm, Replies
  <1>4. <<"contact", l>> \notin touched[w]
    BY <1>3 DEF Commit
  <1>5. p \in Pending /\ Same(l, view[w], db)
    BY <1>1, <1>4, StillWaiting
  <1>6. \A q \in open : /\ q \in Messages /\ LeadOf(q) = l
                        /\ db.quote[q] # None /\ db.quote[q].product = p.product
    BY <1>2, <1>5 DEF OpenQuote, Kept, Same
  <1>7. /\ target \in Messages /\ LeadOf(target) = l
        /\ open = {} => target = m
        /\ open # {} => target \in open
    <2> HIDE DEF open
    <2>1. CASE open = {}
      BY <1>2, <2>1
    <2>2. CASE open # {}
      <3>1. target \in open
        BY <2>2
      <3> QED  BY <1>6, <2>2, <3>1
    <2> QED  BY <2>1, <2>2
  <1>8. quote \in Quote
    <2> HIDE DEF open, target, p
    <2>1. open # {} => db.quote[target].open \in BOOLEAN
      BY <1>2, <1>6, <1>7 DEF Database, Quote
    <2> QED  BY <1>5, <2>1 DEF Pending, Quote
  <1>9. quote # None
    BY <1>8, NoneAssumption
  <1>10. /\ quote.product = p.product
         /\ open # {} => quote.open = db.quote[target].open
    OBVIOUS
  <1>11. /\ new \in Database /\ new.event = db.event
         /\ new.pending = [db.pending EXCEPT ![l] = None]
         /\ new.quote = [db.quote EXCEPT ![target] = quote]
    <2> HIDE DEF quote, target, l
    <2> QED  BY <1>2, <1>7, <1>8 DEF PendingCleared, Database
  <1>12. new.quote[target] = quote /\ \A n \in Messages \ {target} : new.quote[n] = db.quote[n]
    <2> HIDE DEF quote, target, new
    <2> QED  BY <1>2, <1>7, <1>11 DEF Database
  <1>13. ask' = ask /\ db' = new
    BY <1>3 DEF Commit, End
  <1>14. rows \in SUBSET Names
    <2> HIDE DEF target
    <2> QED  BY <1>2, <1>7 DEF Names
  <1> HIDE DEF new, quote, target, open
  <1>15. /\ Waiting' /\ SummaryEndsOnce' /\ ends' \in [Messages -> Nat]
         /\ \A n \in Messages : told[n] = None => ends'[n] = 0
    <2> HIDE DEF rows
    <2> QED  BY <1>1, <1>3, <1>4, <1>11, PendingEnds
  <1>16. Later(db, new, rows)
    <2>1. \A k \in Leads \ {l} : new.pending[k] = db.pending[k]
      BY <1>2, <1>11 DEF Database
    <2>2. Kept(db, new)
      BY <1>9, <1>11, <1>12 DEF Kept
    <2>3. \A k \in Leads : <<"contact", k>> \notin rows => Same(k, db, new)
      BY <1>7, <1>12, <2>1 DEF Same
    <2> QED  BY <2>2, <2>3 DEF Later
  <1> HIDE DEF rows
  <1>17. TypeOK'
    BY <1>1, <1>3, <1>11, <1>14, <1>15, CommitType DEF IInv, TypeOK
  <1>18. Working'
    BY <1>1, <1>3, <1>16, CommitWorking DEF IInv
  <1>19. Fresh'
    <2>1. \A n \in Messages \ {m} : told[n] = None =>
              new.event[n] = None /\ new.quote[n] = None /\ ends'[n] = 0
      BY <1>6, <1>7, <1>11, <1>12, <1>15 DEF IInv, Fresh
    <2> QED  BY <1>1, <1>3, <2>1, CommitFresh DEF IInv
  <1>20. OneOpenQuote'
    <2>1. ASSUME NEW n \in Messages \ {target}, LeadOf(n) = l,
                 new.quote[target].open, new.quote[n] # None, new.quote[n].open
          PROVE  new.quote[n].product # p.product
      <3>1. new.quote[n] = db.quote[n]
        BY <1>12
      <3>2. CASE open = {}
        <4>1. view[w].quote[n] # None /\ view[w].quote[n].open
              /\ view[w].quote[n].product = new.quote[n].product
          BY <1>5, <2>1, <3>1 DEF Same
        <4> QED  BY <2>1, <3>2, <4>1 DEF open, OpenQuote
      <3>3. CASE open # {}
        <4>1. db.quote[target] # None /\ db.quote[target].open
              /\ db.quote[target].product = p.product
          BY <1>6, <1>7, <1>10, <1>12, <2>1, <3>3
        <4> QED  BY <1>7, <2>1, <3>1, <4>1 DEF IInv, OneOpenQuote
      <3> QED  BY <3>2, <3>3
    <2>2. ASSUME NEW a \in Messages, NEW b \in Messages, a # b, LeadOf(a) = LeadOf(b),
                 new.quote[a] # None, new.quote[a].open,
                 new.quote[b] # None, new.quote[b].open
          PROVE  new.quote[a].product # new.quote[b].product
      <3>1. CASE a = target
        BY <1>7, <1>10, <1>12, <2>1, <2>2, <3>1
      <3>2. CASE b = target
        BY <1>7, <1>10, <1>12, <2>1, <2>2, <3>2
      <3>3. CASE a # target /\ b # target
        BY <1>12, <2>2, <3>3 DEF IInv, OneOpenQuote
      <3> QED  BY <3>1, <3>2, <3>3
    <2> QED  BY <1>13, <2>2 DEF OneOpenQuote, LeadOf
  <1>21. AgendaInv'
    BY <1>3, <1>11, <1>13, AgendaUnchanged DEF IInv, AgendaInv
  <1> QED  BY <1>15, <1>17, <1>18, <1>19, <1>20, <1>21 DEF IInv, AgendaInv

-----------------------------------------------------------------------------
(* The steps that commit nothing of a message.                              *)
LEMMA BeginStep ==
    ASSUME IInv, NEW w \in Workers, NEW m \in Messages, Begin(w, m)
    PROVE  IInv'
  <1>1. TypeOK'
    BY BeginType DEF IInv
  <1>2. UNCHANGED <<ask, now, lapsed, db, touched, crashes, told, saw, ends>>
    BY DEF Begin
  <1>3. /\ tx'[w].m = m /\ view'[w] = db /\ told[m] = None
        /\ \A v \in Workers \ {w} : tx'[v] = tx[v] /\ view'[v] = view[v]
        /\ \A v \in Workers : tx[v] # None => tx[v].m # m
    BY DEF Begin, IInv, TypeOK
  <1>4. Decided(tx'[w], db)
    BY DecidedAtBegin DEF IInv
  <1>5. Working'
    <2> SUFFICES ASSUME NEW v \in Workers, tx'[v] # None
                 PROVE  /\ told'[tx'[v].m] = None
                        /\ Decided(tx[v], view[v])'
                        /\ Later(view[v], db, touched[v])'
                        /\ \A u \in Workers \ {v} : tx'[u] # None => tx'[u].m # tx'[v].m
      BY DEF Working
    <2>1. CASE v = w
      <3>1. Decided(tx[v], view[v])'
        BY <1>2, <1>3, <1>4, <2>1 DEF Decided, LeadOf
      <3>2. Later(view[v], db, touched[v])'
        BY <1>2, <1>3, <2>1 DEF Later, Kept, Same, LeadOf
      <3> QED  BY <1>2, <1>3, <2>1, <3>1, <3>2
    <2>2. CASE v # w
      <3>1. Decided(tx[v], view[v])'
        BY <1>2, <1>3, <2>2 DEF IInv, Working, Decided, LeadOf
      <3>2. Later(view[v], db, touched[v])'
        BY <1>2, <1>3, <2>2 DEF IInv, Working, Later, Kept, Same, LeadOf
      <3> QED  BY <1>2, <1>3, <2>2, <3>1, <3>2 DEF IInv, Working
    <2> QED  BY <2>1, <2>2
  <1>6. Fresh' /\ Waiting' /\ SummaryEndsOnce' /\ OneOpenQuote'
    BY <1>2 DEF IInv, Fresh, Waiting, SummaryEndsOnce, OneOpenQuote, LeadOf
  <1>7. AgendaInv'
    BY <1>2, AgendaUnchanged DEF IInv, AgendaInv
  <1> QED  BY <1>1, <1>5, <1>6, <1>7 DEF IInv, AgendaInv

(* A step that only ends transactions, takes locks or moves the clock.      *)
LEMMA QuietStep ==
    ASSUME IInv, TypeOK', UNCHANGED <<ask, db, told, saw, ends>>,
           \A v \in Workers : tx'[v] # None =>
              /\ tx[v] # None
              /\ tx'[v].m = tx[v].m /\ tx'[v].todo = tx[v].todo /\ tx'[v].current = tx[v].current
              /\ view'[v] = view[v] /\ touched'[v] = touched[v]
    PROVE  IInv'
  <1>1. Working'
    <2> SUFFICES ASSUME NEW v \in Workers, tx'[v] # None
                 PROVE  /\ told'[tx'[v].m] = None
                        /\ Decided(tx[v], view[v])'
                        /\ Later(view[v], db, touched[v])'
                        /\ \A u \in Workers \ {v} : tx'[u] # None => tx'[u].m # tx'[v].m
      BY DEF Working
    <2>1. Decided(tx[v], view[v])'
      BY DEF IInv, Working, Decided, LeadOf
    <2>2. Later(view[v], db, touched[v])'
      BY DEF IInv, Working, Later, Kept, Same, LeadOf
    <2> QED  BY <2>1, <2>2 DEF IInv, Working
  <1>2. Fresh' /\ Waiting' /\ SummaryEndsOnce' /\ OneOpenQuote'
    BY DEF IInv, Fresh, Waiting, SummaryEndsOnce, OneOpenQuote, LeadOf
  <1>3. AgendaInv'
    BY AgendaUnchanged DEF IInv, AgendaInv
  <1> QED  BY <1>1, <1>2, <1>3 DEF IInv, AgendaInv

LEMMA LockStep == ASSUME IInv, NEW w \in Workers, Lock(w)  PROVE IInv'
  <1>1. TypeOK'
    BY LockType DEF IInv
  <1>2. tx[w] # None /\ tx[w] \in Transaction
    BY Tasks DEF Lock, IInv
  <1>3. tx'[w] = [tx[w] EXCEPT !.held = tx[w].held + 1] /\ \A v \in Workers \ {w} : tx'[v] = tx[v]
    BY DEF Lock, IInv, TypeOK
  <1>4. tx'[w].m = tx[w].m /\ tx'[w].todo = tx[w].todo /\ tx'[w].current = tx[w].current
    BY <1>2, <1>3 DEF Transaction
  <1> QED  BY <1>1, <1>2, <1>3, <1>4, QuietStep DEF Lock

LEMMA RollBackStep == ASSUME IInv, NEW w \in Workers, Conflict(w) \/ Crash(w)  PROVE IInv'
  <1>1. TypeOK'
    BY RollBackType DEF IInv
  <1>2. RollBack(w)
    BY DEF Conflict, Crash
  <1>3. \A v \in Workers : tx'[v] # None =>
            v # w /\ tx'[v] = tx[v] /\ view'[v] = view[v] /\ touched'[v] = touched[v]
    BY <1>2 DEF RollBack, End, IInv, TypeOK
  <1> QED  BY <1>1, <1>2, <1>3, QuietStep DEF RollBack, End

(* People put meetings into an agenda and close quotations.                 *)
LEMMA HandStep ==
    ASSUME IInv, TypeOK', NEW new, NEW rows, ByHand(new, rows), Later(db, new, rows),
           new.event = db.event, new.pending = db.pending,
           \A n \in Messages :
              /\ db.quote[n] = None => new.quote[n] = None
              /\ new.quote[n] # None => /\ new.quote[n].product = db.quote[n].product
                                        /\ new.quote[n].open => db.quote[n].open
    PROVE  IInv'
  <1>1. db' = new /\ UNCHANGED <<ask, now, lapsed, tx, view, crashes, told, saw, ends>>
    BY DEF ByHand
  <1>2. Working'
    <2> SUFFICES ASSUME NEW v \in Workers, tx'[v] # None
                 PROVE  /\ told'[tx'[v].m] = None
                        /\ Decided(tx[v], view[v])'
                        /\ Later(view[v], db, touched[v])'
                        /\ \A u \in Workers \ {v} : tx'[u] # None => tx'[u].m # tx'[v].m
      BY DEF Working
    <2>1. Decided(tx[v], view[v])'
      BY <1>1 DEF IInv, Working, Decided, LeadOf
    <2>2. touched'[v] = touched[v] \cup rows
      BY <1>1 DEF ByHand
    <2>3. Later(view[v], new, touched[v] \cup rows)
      BY <1>1, LaterTrans DEF IInv, Working
    <2>4. Later(view[v], db, touched[v])'
      BY <1>1, <2>2, <2>3 DEF Later, Kept, Same, LeadOf
    <2> QED  BY <1>1, <2>1, <2>4 DEF IInv, Working
  <1>3. Fresh' /\ Waiting' /\ SummaryEndsOnce'
    BY <1>1 DEF IInv, Fresh, Waiting, SummaryEndsOnce, LeadOf
  <1>4. OneOpenQuote'
    BY <1>1 DEF IInv, OneOpenQuote, LeadOf
  <1>5. AgendaInv'
    BY <1>1, AgendaUnchanged DEF IInv, AgendaInv
  <1> QED  BY <1>2, <1>3, <1>4, <1>5 DEF IInv, AgendaInv

LEMMA OutsideStep ==
    ASSUME IInv,
           \/ Tick
           \/ \E m \in Messages : Lapse(m) \/ CloseQuote(m)
           \/ \E x \in Meetings : AddMeeting(x)
    PROVE  IInv'
  <1>1. TypeOK' /\ db \in Database
    BY OutsideType DEF IInv, TypeOK
  <1>2. CASE Tick
    BY <1>1, <1>2, QuietStep DEF Tick
  <1>3. ASSUME NEW m \in Messages, Lapse(m)  PROVE IInv'
    BY <1>1, <1>3, QuietStep DEF Lapse
  <1>4. ASSUME NEW m \in Messages, CloseQuote(m)  PROVE IInv'
    <2> DEFINE new == [db EXCEPT !.quote[m].open = FALSE]
    <2>1. db.quote[m] # None /\ db.quote[m] \in Quote /\ ByHand(new, {<<"quote", m>>})
      BY <1>1, <1>4 DEF CloseQuote, Database
    <2>2. /\ new.event = db.event /\ new.pending = db.pending
          /\ new.quote = [db.quote EXCEPT ![m].open = FALSE]
      BY <1>1 DEF Database
    <2>3. /\ new.quote[m] = [db.quote[m] EXCEPT !.open = FALSE]
          /\ \A n \in Messages \ {m} : new.quote[n] = db.quote[n]
      <3> HIDE DEF new
      <3> QED  BY <1>1, <2>2 DEF Database
    <2>4. new.quote[m] \in Quote /\ new.quote[m].product = db.quote[m].product /\ ~new.quote[m].open
      BY <2>1, <2>3 DEF Quote
    <2> HIDE DEF new
    <2>5. new.quote[m] # None
      BY <2>4, NoneAssumption
    <2>6. Later(db, new, {<<"quote", m>>})
      BY <2>1, <2>2, <2>3, <2>4, <2>5 DEF Later, Kept, Same
    <2>7. \A n \in Messages :
              /\ db.quote[n] = None => new.quote[n] = None
              /\ new.quote[n] # None => /\ new.quote[n].product = db.quote[n].product
                                        /\ new.quote[n].open => db.quote[n].open
      BY <2>1, <2>3, <2>4
    <2> QED  BY <1>1, <2>1, <2>2, <2>6, <2>7, HandStep
  <1>5. ASSUME NEW x \in Meetings, AddMeeting(x)  PROVE IInv'
    <2> DEFINE new == [db EXCEPT !.meetings = @ \cup {x}]
    <2>1. /\ ByHand(new, {})
          /\ new.event = db.event /\ new.quote = db.quote /\ new.pending = db.pending
      BY <1>1, <1>5 DEF AddMeeting, Database
    <2> HIDE DEF new
    <2>2. Later(db, new, {})
      BY <2>1 DEF Later, Kept, Same
    <2> QED  BY <1>1, <2>1, <2>2, HandStep
  <1> QED  BY <1>2, <1>3, <1>4, <1>5

LEMMA InitIInv == Init => IInv
  <1> SUFFICES ASSUME Init  PROVE IInv
    OBVIOUS
  <1>1. ask \in [Messages -> Ask]
    BY MessagesAssumption DEF Init
  <1>2. /\ db \in Database
        /\ \A m \in Messages : db.event[m] = None /\ db.quote[m] = None
        /\ \A l \in Leads : db.pending[l] = None
    BY DEF Init, Database
  <1>3. /\ tx \in [Workers -> Transaction \cup {None}] /\ \A w \in Workers : tx[w] = None
        /\ view \in [Workers -> Database \cup {None}]
        /\ touched \in [Workers -> SUBSET Names]
    BY DEF Init
  <1>4. /\ told \in [Messages -> Replies \cup {None}]
        /\ saw \in [Messages -> [events : SUBSET Messages, meetings : SUBSET Meetings]]
        /\ \A m \in Messages : saw[m].events = {}
        /\ ends \in [Messages -> Nat] /\ \A m \in Messages : ends[m] = 0
    BY DEF Init
  <1>5. now \in 0..MaxTime /\ lapsed \subseteq Messages /\ crashes \in 0..MaxCrashes
    BY BoundsAssumption DEF Init
  <1>6. TypeOK
    BY <1>1, <1>2, <1>3, <1>4, <1>5 DEF TypeOK, Names
  <1>7. Working /\ Fresh /\ Waiting /\ SeenExists /\ SummaryEndsOnce
    BY <1>2, <1>3, <1>4 DEF Working, Fresh, Waiting, SeenExists, SummaryEndsOnce
  <1>8. OneOpenQuote /\ SeenSlotRefused
    BY <1>2 DEF OneOpenQuote, SeenSlotRefused, Active
  <1> QED  BY <1>6, <1>7, <1>8 DEF IInv

LEMMA NextIInv == IInv /\ [Next]_vars => IInv'
  <1> SUFFICES ASSUME IInv, [Next]_vars  PROVE IInv'
    OBVIOUS
  <1>1. CASE UNCHANGED vars
    <2>1. TypeOK'
      BY <1>1 DEF vars, IInv, TypeOK
    <2> QED  BY <1>1, <2>1, QuietStep DEF vars
  <1>2. ASSUME NEW w \in Workers, WorkerStep(w) \/ Crash(w)  PROVE IInv'
    <2>1. CASE Finish(w)
      BY <2>1, BookStep, MoveStep, BusyStep, CancelStep, SummaryStep, DeclineStep,
         ConfirmStep, TalkStep DEF Finish
    <2> QED  BY <1>2, <2>1, BeginStep, LockStep, RollBackStep DEF WorkerStep
  <1> QED  BY <1>1, <1>2, OutsideStep DEF Next

(* Every step of the runs, the clock and the people keeps the invariant.    *)
THEOREM Invariant == Spec => []IInv
  BY InitIInv, NextIInv, PTL DEF Spec

(* TypeOK: every reachable state has the types the module declares.         *)
THEOREM TypeCorrect == Spec => []TypeOK
  <1>1. IInv => TypeOK
    BY DEF IInv
  <1> QED  BY <1>1, Invariant, PTL

(* SummaryEndsOnce: a purchase summary is confirmed or declined once,       *)
(* whatever runs hold answers of its customer (_handle_pending).            *)
THEOREM SummarySafety == Spec => []SummaryEndsOnce
  <1>1. IInv => SummaryEndsOnce
    BY DEF IInv
  <1> QED  BY <1>1, Invariant, PTL

(* OneOpenQuote: a lead has one open quotation at most for a product        *)
(* (_agent_open_quote under the row of the contact).                        *)
THEOREM QuoteSafety == Spec => []OneOpenQuote
  <1>1. IInv => OneOpenQuote
    BY DEF IInv
  <1> QED  BY <1>1, Invariant, PTL

(* SeenSlotRefused: an appointment never meets an active event that its     *)
(* snapshot showed, nor a meeting (_agent_slot_conflict).                   *)
THEOREM SlotSafety == Spec => []SeenSlotRefused
  <1>1. IInv => SeenSlotRefused
    BY DEF IInv
  <1> QED  BY <1>1, Invariant, PTL

-----------------------------------------------------------------------------
(* What a transaction holds is part of what it takes, and nobody else's.    *)
LockInv ==
    /\ \A w \in Workers : tx[w] # None => tx[w].held <= Len(Locks(tx[w]))
    /\ \A v, w \in Workers : v # w => Held(v) \cap Held(w) = {}

(* Which locks a transaction takes depends on its message only.             *)
LEMMA LocksFixed ==
    ASSUME ask' = ask
    PROVE  \A v \in Workers :
              /\ Locks(tx[v])' = Locks(tx'[v])
              /\ Held(v) = IF tx[v] = None THEN {} ELSE {Locks(tx[v])[i] : i \in 1..tx[v].held}
              /\ Held(v)' = IF tx'[v] = None THEN {} ELSE {Locks(tx'[v])[i] : i \in 1..tx'[v].held}
  <1>1. \A v \in Workers : Locks(tx[v])' = Locks(tx'[v])
    BY DEF Locks, AgendaLocks, Channel, LeadOf
  <1> QED  BY <1>1 DEF Held

LEMMA HeldFits ==
    ASSUME ask' = ask,
           \A v \in Workers : tx'[v] # None => tx'[v].held <= Len(Locks(tx'[v])),
           \A v, u \in Workers : v # u => Held(v)' \cap Held(u)' = {}
    PROVE  LockInv'
  <1>1. \A v \in Workers : tx'[v] # None => tx'[v].held <= Len(Locks(tx[v])')
    <2> SUFFICES ASSUME NEW v \in Workers, tx'[v] # None
                 PROVE  tx'[v].held <= Len(Locks(tx[v])')
      OBVIOUS
    <2>1. Locks(tx[v])' = Locks(tx'[v])
      BY LocksFixed
    <2> QED  BY <2>1
  <1> QED  BY <1>1 DEF LockInv

(* The locks do not change while the transactions that go on keep theirs.   *)
LEMMA LocksKept ==
    ASSUME LockInv, ask' = ask,
           \A v \in Workers : tx'[v] # None => tx'[v] = tx[v] \/ tx'[v].held = 0
    PROVE  LockInv'
  <1>1. \A v \in Workers : Held(v)' \subseteq Held(v)
    <2> SUFFICES ASSUME NEW v \in Workers  PROVE Held(v)' \subseteq Held(v)
      OBVIOUS
    <2>1. CASE tx'[v] = None
      BY <2>1, LocksFixed
    <2>2. CASE tx'[v] # None /\ tx'[v] = tx[v]
      BY <2>2, LocksFixed
    <2>3. CASE tx'[v] # None /\ tx'[v].held = 0
      BY <2>3, LocksFixed
    <2> QED  BY <2>1, <2>2, <2>3
  <1>2. \A v, w \in Workers : v # w => Held(v)' \cap Held(w)' = {}
    BY <1>1 DEF LockInv
  <1>3. \A v \in Workers : tx'[v] # None => tx'[v].held <= Len(Locks(tx'[v]))
    <2> SUFFICES ASSUME NEW v \in Workers, tx'[v] # None
                 PROVE  tx'[v].held <= Len(Locks(tx'[v]))
      OBVIOUS
    <2>1. CASE tx'[v] = tx[v]
      BY <2>1 DEF LockInv
    <2>2. CASE tx'[v].held = 0
      <3>1. Len(Locks(tx'[v])) \in Nat
        BY DEF Locks, AgendaLocks
      <3> QED  BY <2>2, <3>1
    <2> QED  BY <2>1, <2>2
  <1> QED  BY <1>2, <1>3, HeldFits

LEMMA LockTaken == ASSUME TypeOK, LockInv, NEW w \in Workers, Lock(w)  PROVE LockInv'
  <1>1. tx[w] \in Transaction /\ tx[w] # None
    BY Tasks DEF Lock
  <1>2. /\ tx' = [tx EXCEPT ![w].held = tx[w].held + 1] /\ ask' = ask
        /\ tx[w].held < Len(Locks(tx[w]))
        /\ \A v \in Workers : Locks(tx[w])[tx[w].held + 1] \notin Held(v)
    BY DEF Lock
  <1>3. /\ tx'[w] = [tx[w] EXCEPT !.held = tx[w].held + 1]
        /\ \A v \in Workers \ {w} : tx'[v] = tx[v]
    BY <1>2 DEF TypeOK
  <1>4. /\ tx'[w].m = tx[w].m /\ tx'[w].todo = tx[w].todo /\ tx'[w].held = tx[w].held + 1
        /\ tx[w].held \in Nat
    BY <1>1, <1>3 DEF Transaction
  <1>5. Locks(tx'[w]) = Locks(tx[w]) /\ Len(Locks(tx[w])) \in Nat
    <2>1. Locks(tx'[w]) = Locks(tx[w])
      BY <1>4 DEF Locks
    <2>2. Len(Locks(tx[w])) \in Nat
      BY DEF Locks, AgendaLocks
    <2> QED  BY <2>1, <2>2
  <1>6. \A v \in Workers \ {w} : Held(v)' = Held(v)
    <2> SUFFICES ASSUME NEW v \in Workers \ {w}  PROVE Held(v)' = Held(v)
      OBVIOUS
    <2>1. tx'[v] = tx[v]
      BY <1>3
    <2>2. /\ Held(v) = IF tx[v] = None THEN {} ELSE {Locks(tx[v])[i] : i \in 1..tx[v].held}
          /\ Held(v)' = IF tx'[v] = None THEN {} ELSE {Locks(tx'[v])[i] : i \in 1..tx'[v].held}
      BY <1>2, LocksFixed
    <2> QED  BY <2>1, <2>2
  <1>7. Held(w)' \subseteq Held(w) \cup {Locks(tx[w])[tx[w].held + 1]}
    <2>1. \A i \in 1..tx'[w].held : i \in 1..tx[w].held \/ i = tx[w].held + 1
      BY <1>4
    <2>2. Held(w) = {Locks(tx[w])[i] : i \in 1..tx[w].held}
      BY <1>1 DEF Held
    <2>3. Held(w)' \subseteq {Locks(tx[w])[i] : i \in 1..tx'[w].held}
      BY <1>2, <1>5, LocksFixed
    <2> QED  BY <2>1, <2>2, <2>3
  <1>8. \A v, u \in Workers : v # u => Held(v)' \cap Held(u)' = {}
    BY <1>2, <1>6, <1>7 DEF LockInv
  <1>9. ASSUME NEW v \in Workers, tx'[v] # None
        PROVE  tx'[v].held <= Len(Locks(tx'[v]))
    <2>1. CASE v = w
      BY <1>2, <1>4, <1>5, <2>1
    <2>2. CASE v # w
      BY <1>3, <1>9, <2>2 DEF LockInv
    <2> QED  BY <2>1, <2>2
  <1> QED  BY <1>2, <1>8, <1>9, HeldFits

LEMMA NextLockInv == TypeOK /\ LockInv /\ [Next]_vars => LockInv'
  <1> SUFFICES ASSUME TypeOK, LockInv, [Next]_vars  PROVE LockInv'
    OBVIOUS
  <1>1. ASSUME NEW w \in Workers, Lock(w)  PROVE LockInv'
    BY <1>1, LockTaken
  <1>2. ASSUME NEW w \in Workers, NEW m \in Messages, Begin(w, m)  PROVE LockInv'
    <2>1. tx'[w].held = 0 /\ \A v \in Workers \ {w} : tx'[v] = tx[v]
      BY <1>2 DEF Begin, TypeOK
    <2> QED  BY <1>2, <2>1, LocksKept DEF Begin
  <1>3. ASSUME NEW w \in Workers, End(w)  PROVE LockInv'
    <2>1. \A v \in Workers : tx'[v] # None => tx'[v] = tx[v]
      BY <1>3 DEF End, TypeOK
    <2> QED  BY <1>3, <2>1, LocksKept DEF End
  <1>4. ASSUME NEW w \in Workers, Finish(w)  PROVE End(w)
    BY <1>4 DEF Finish, Book, Move, Busy, Cancel, Summary, Decline, Confirm, Talk, Commit
  <1>5. ASSUME NEW w \in Workers, Conflict(w) \/ Crash(w)  PROVE End(w)
    BY <1>5 DEF Conflict, Crash, RollBack
  <1>6. CASE UNCHANGED vars \/ Tick
    BY <1>6, LocksKept DEF vars, Tick
  <1>7. ASSUME NEW m \in Messages, Lapse(m) \/ CloseQuote(m)  PROVE LockInv'
    BY <1>7, LocksKept DEF Lapse, CloseQuote, ByHand
  <1>8. ASSUME NEW x \in Meetings, AddMeeting(x)  PROVE LockInv'
    BY <1>8, LocksKept DEF AddMeeting, ByHand
  <1> QED  BY <1>1, <1>2, <1>3, <1>4, <1>5, <1>6, <1>7, <1>8 DEF Next, WorkerStep

(* LockCoversScope: two runs past the locks of the agenda never work on     *)
(* agendas one of which can show a conflict to the other                    *)
(* (_agent_agenda_lock).                                                    *)
THEOREM LockSafety == Spec => []LockCoversScope
  <1>1. Init => LockInv
    BY DEF Init, LockInv, Held
  <1>2. TypeOK /\ LockInv => LockCoversScope
    <2> SUFFICES ASSUME TypeOK, LockInv, NEW v \in Workers, NEW w \in Workers, v # w,
                        AgendaHeld(v), AgendaHeld(w),
                        InScope(Channel(tx[v].m), Channel(tx[w].m))
                 PROVE  FALSE
      BY DEF LockCoversScope
    <2>1. \A u \in {v, w} : Held(u) = {AgendaLocks(Channel(tx[u].m))[i] :
                                            i \in 1..Len(AgendaLocks(Channel(tx[u].m)))}
      BY DEF Held, AgendaHeld, Locks
    <2>2. \A u \in {v, w} : LET c == Channel(tx[u].m) IN
              /\ <<"company", Company[c]>> \in Held(u)
              /\ Responsible[c] # None => <<"user", Responsible[c]>> \in Held(u)
      BY <2>1 DEF AgendaLocks
    <2> QED  BY <2>2 DEF LockInv, InScope
  <1> QED  BY <1>1, <1>2, TypeCorrect, NextLockInv, PTL DEF Spec

-----------------------------------------------------------------------------
(* The appointments of a lead, and the replies it had.                      *)
ActiveOf(l) == {m \in Messages : LeadOf(m) = l /\ Active(db, m)}
ToldTo(l, S) == {m \in Messages : LeadOf(m) = l /\ told[m] \in S}
Handled == {m \in Messages : told[m] # None}

(* An event that nobody touched is as the snapshot shows it, and the one a  *)
(* customer moves is an appointment of that customer there.                 *)
AsSeen ==
    \A w \in Workers : tx[w] # None =>
        /\ \A n \in Messages : view[w].event[n] # None /\ <<"event", n>> \notin touched[w] =>
              db.event[n] = view[w].event[n]
        /\ tx[w].todo = "move" =>
              LeadOf(tx[w].current) = LeadOf(tx[w].m) /\ Active(view[w], tx[w].current)

(* Messages are without bound; those answered are finite in number.         *)
AgendaExact == IsFiniteSet(Handled) /\ AsSeen /\ AgendaAsTold

LEMMA Counted ==
    AgendaAsTold <=> \A l \in Leads :
        Cardinality(ActiveOf(l))
            = Cardinality(ToldTo(l, {"booked"})) - Cardinality(ToldTo(l, {"cancelled"}))
  BY DEF AgendaAsTold, ActiveOf, ToldTo

(* Who has an appointment or a reply is among the messages answered.        *)
LEMMA Finite ==
    ASSUME Fresh, IsFiniteSet(Handled), NEW l, NEW r \in Replies
    PROVE  /\ IsFiniteSet(ActiveOf(l)) /\ Cardinality(ActiveOf(l)) \in Nat
           /\ IsFiniteSet(ToldTo(l, {r})) /\ Cardinality(ToldTo(l, {r})) \in Nat
  <1>1. ActiveOf(l) \in SUBSET Handled
    BY DEF ActiveOf, Handled, Active, Fresh
  <1>2. ToldTo(l, {r}) \in SUBSET Handled
    BY NoneAssumption DEF ToldTo, Handled
  <1> QED  BY <1>1, <1>2, FS_Subset, FS_CardinalityType

(* A message gets its reply.                                                *)
Replied(m, reply) ==
    /\ told[m] = None /\ told' = [told EXCEPT ![m] = reply]
    /\ ask' = ask

LEMMA RepliesCounted ==
    ASSUME TypeOK, Fresh, IsFiniteSet(Handled), NEW m \in Messages, NEW reply \in Replies,
           Replied(m, reply), NEW l, NEW r \in Replies
    PROVE  /\ IsFiniteSet(Handled')
           /\ Cardinality(ToldTo(l, {r}))' =
                 Cardinality(ToldTo(l, {r})) + (IF l = LeadOf(m) /\ reply = r THEN 1 ELSE 0)
  <1>1. \A n \in Messages : told'[n] = IF n = m THEN reply ELSE told[n]
    BY DEF Replied, TypeOK
  <1>2. \A n : LeadOf(n)' = LeadOf(n)
    BY DEF Replied, LeadOf
  <1>3. told[m] \notin {r} /\ reply # None
    BY NoneAssumption DEF Replied
  <1>4. Handled' = Handled \cup {m}
    BY <1>1, <1>3 DEF Handled
  <1>5. CASE l = LeadOf(m) /\ reply = r
    <2>1. ToldTo(l, {r})' = ToldTo(l, {r}) \cup {m} /\ m \notin ToldTo(l, {r})
      BY <1>1, <1>2, <1>3, <1>5 DEF ToldTo
    <2> QED  BY <1>4, <1>5, <2>1, Finite, FS_AddElement
  <1>6. CASE ~(l = LeadOf(m) /\ reply = r)
    <2>1. ToldTo(l, {r})' = ToldTo(l, {r})
      BY <1>1, <1>2, <1>3, <1>6 DEF ToldTo
    <2> QED  BY <1>4, <1>6, <2>1, Finite, FS_AddElement
  <1> QED  BY <1>5, <1>6

(* The transaction of m adds the events of one set, m at most, and archives *)
(* those of another, an appointment of the same lead at most.               *)
Changed(m, added, dropped) ==
    /\ added \subseteq {m} /\ \A n \in added : ~Active(db, n)
    /\ \A n \in dropped : n \in Messages /\ LeadOf(n) = LeadOf(m) /\ Active(db, n)
    /\ \A n, k \in dropped : n = k
    /\ \A n \in Messages : Active(db', n) <=> n \in added \/ (Active(db, n) /\ n \notin dropped)

(* The appointments of a lead are those before, and the difference.         *)
LEMMA EventsCounted ==
    ASSUME TypeOK, Fresh, IsFiniteSet(Handled), ask' = ask,
           NEW m \in Messages, NEW added, NEW dropped, Changed(m, added, dropped), NEW l
    PROVE  Cardinality(ActiveOf(l))' =
              Cardinality(ActiveOf(l)) + (IF added # {} /\ l = LeadOf(m) THEN 1 ELSE 0)
                                       - (IF dropped # {} /\ l = LeadOf(m) THEN 1 ELSE 0)
  <1>1. ActiveOf(l)' = {n \in Messages : LeadOf(n) = l /\ Active(db', n)}
    BY DEF ActiveOf, Active, LeadOf
  <1>2. IsFiniteSet(ActiveOf(l)) /\ Cardinality(ActiveOf(l)) \in Nat
    BY Finite DEF Replies
  <1> DEFINE A == IF added # {} /\ l = LeadOf(m) THEN ActiveOf(l) \cup {m} ELSE ActiveOf(l)
  <1>3. /\ IsFiniteSet(A)
        /\ Cardinality(A) = Cardinality(ActiveOf(l)) + (IF added # {} /\ l = LeadOf(m) THEN 1 ELSE 0)
    <2>1. CASE added # {} /\ l = LeadOf(m)
      <3>1. m \notin ActiveOf(l)
        BY <2>1 DEF ActiveOf, Changed
      <3> QED  BY <1>2, <2>1, <3>1, FS_AddElement
    <2>2. CASE ~(added # {} /\ l = LeadOf(m))
      BY <1>2, <2>2
    <2> QED  BY <2>1, <2>2
  <1>4. CASE dropped # {} /\ l = LeadOf(m)
    <2>1. PICK old \in dropped : dropped = {old}
      BY <1>4 DEF Changed
    <2>2. old \in A
      BY <1>4 DEF ActiveOf, Changed
    <2>3. ActiveOf(l)' = A \ {old}
      <3>1. added # {} => added = {m}
        BY DEF Changed
      <3> QED  BY <1>1, <1>4, <2>1, <3>1 DEF ActiveOf, Changed
    <2> HIDE DEF A
    <2>4. Cardinality(A \ {old}) = Cardinality(A) - 1
      BY <1>3, <2>2, FS_RemoveElement
    <2>5. Cardinality(ActiveOf(l))' = Cardinality(A) - 1
      BY <2>3, <2>4
    <2> QED  BY <1>2, <1>3, <1>4, <2>5
  <1>5. CASE ~(dropped # {} /\ l = LeadOf(m))
    <2>1. ActiveOf(l)' = A
      <3>1. added # {} => added = {m}
        BY DEF Changed
      <3> QED  BY <1>1, <1>5, <3>1 DEF ActiveOf, Changed
    <2> HIDE DEF A
    <2>2. Cardinality(ActiveOf(l))' = Cardinality(A)
      BY <2>1
    <2> QED  BY <1>2, <1>3, <1>5, <2>2
  <1> QED  BY <1>4, <1>5

(* The reply tells what was done to the agenda.                             *)
LEMMA CountStep ==
    ASSUME TypeOK, Fresh, IsFiniteSet(Handled), AgendaAsTold,
           NEW m \in Messages, NEW reply \in Replies, Replied(m, reply),
           NEW added, NEW dropped, Changed(m, added, dropped),
           reply = "booked" <=> added # {} /\ dropped = {},
           reply = "cancelled" <=> added = {} /\ dropped # {}
    PROVE  IsFiniteSet(Handled') /\ AgendaAsTold'
  <1>1. "booked" \in Replies /\ "cancelled" \in Replies /\ ask' = ask
    BY DEF Replies, Replied
  <1>2. IsFiniteSet(Handled')
    BY <1>1, RepliesCounted
  <1>3. ASSUME NEW l \in Leads
        PROVE  Cardinality(ActiveOf(l))'
                  = Cardinality(ToldTo(l, {"booked"}))' - Cardinality(ToldTo(l, {"cancelled"}))'
    <2>1. /\ Cardinality(ActiveOf(l)) \in Nat
          /\ Cardinality(ToldTo(l, {"booked"})) \in Nat
          /\ Cardinality(ToldTo(l, {"cancelled"})) \in Nat
          /\ Cardinality(ActiveOf(l))
                = Cardinality(ToldTo(l, {"booked"})) - Cardinality(ToldTo(l, {"cancelled"}))
      BY <1>1, Finite, Counted
    <2>2. Cardinality(ActiveOf(l))' =
              Cardinality(ActiveOf(l)) + (IF added # {} /\ l = LeadOf(m) THEN 1 ELSE 0)
                                       - (IF dropped # {} /\ l = LeadOf(m) THEN 1 ELSE 0)
      BY <1>1, EventsCounted
    <2>3. /\ Cardinality(ToldTo(l, {"booked"}))' =
                Cardinality(ToldTo(l, {"booked"})) + (IF l = LeadOf(m) /\ reply = "booked" THEN 1 ELSE 0)
          /\ Cardinality(ToldTo(l, {"cancelled"}))' =
                Cardinality(ToldTo(l, {"cancelled"})) + (IF l = LeadOf(m) /\ reply = "cancelled" THEN 1 ELSE 0)
      BY <1>1, RepliesCounted
    <2> QED  BY <2>1, <2>2, <2>3
  <1>4. AgendaAsTold'
    <2>1. (\A l \in Leads :
            Cardinality(ActiveOf(l))
              = Cardinality(ToldTo(l, {"booked"})) - Cardinality(ToldTo(l, {"cancelled"})))'
            => AgendaAsTold'
      BY DEF AgendaAsTold, ActiveOf, ToldTo
    <2> QED  BY <1>3, <2>1
  <1> QED  BY <1>2, <1>4

-----------------------------------------------------------------------------
(* Who changes an event that was there touches it for the others.           *)
LEMMA CommitSeen ==
    ASSUME IInv, AsSeen, NEW w \in Workers, NEW rows, NEW new, NEW reply,
           Commit(w, rows, new, reply),
           \A n \in Messages : db.event[n] # None /\ <<"event", n>> \notin rows =>
              new.event[n] = db.event[n]
    PROVE  AsSeen'
  <1> SUFFICES ASSUME NEW v \in Workers, tx'[v] # None
               PROVE  /\ \A n \in Messages :
                            view'[v].event[n] # None /\ <<"event", n>> \notin touched'[v] =>
                                db'.event[n] = view'[v].event[n]
                      /\ tx'[v].todo = "move" =>
                            LeadOf(tx[v].current)' = LeadOf(tx[v].m)' /\ Active(view[v], tx[v].current)'
    BY DEF AsSeen
  <1>1. /\ ask' = ask /\ db' = new
        /\ v # w /\ tx'[v] = tx[v] /\ view'[v] = view[v]
        /\ touched'[v] = touched[v] \cup rows
    BY DEF Commit, End, IInv, TypeOK
  <1>2. LeadOf(tx[v].current)' = LeadOf(tx[v].current) /\ LeadOf(tx[v].m)' = LeadOf(tx[v].m)
    BY <1>1 DEF LeadOf
  <1>3. Active(view[v], tx[v].current)' = Active(view[v], tx[v].current)
    BY <1>1 DEF Active
  <1> QED  BY <1>1, <1>2, <1>3 DEF AsSeen

(* The message of a transaction is answered once.                           *)
LEMMA CommitReplied ==
    ASSUME IInv, NEW w \in Workers, tx[w] # None, NEW rows, NEW new, NEW reply,
           Commit(w, rows, new, reply)
    PROVE  Replied(tx[w].m, reply) /\ tx[w].m \in Messages /\ db' = new
  BY Handling DEF Commit, End, Replied

(* A transaction that leaves the agenda as it is.                           *)
LEMMA OrderExact ==
    ASSUME IInv, AgendaExact, NEW w \in Workers, tx[w] # None, NEW rows, NEW new,
           NEW reply \in Replies \ {"booked", "cancelled"}, Commit(w, rows, new, reply),
           new.event = db.event
    PROVE  AgendaExact'
  <1>1. AsSeen'
    BY CommitSeen DEF AgendaExact
  <1>2. Replied(tx[w].m, reply) /\ tx[w].m \in Messages /\ db'.event = db.event
    BY CommitReplied
  <1>3. \A n \in Messages : Active(db', n) <=> Active(db, n)
    BY <1>2 DEF Active
  <1>4. IsFiniteSet(Handled') /\ AgendaAsTold'
    <2>1. TypeOK /\ Fresh /\ IsFiniteSet(Handled) /\ AgendaAsTold
      BY DEF IInv, AgendaExact
    <2>2. Changed(tx[w].m, {}, {})
      BY <1>3 DEF Changed
    <2> QED  BY <1>2, <2>1, <2>2, CountStep
  <1> QED  BY <1>1, <1>4 DEF AgendaExact

LEMMA BookExact == ASSUME IInv, AgendaExact, NEW w \in Workers, Book(w)  PROVE AgendaExact'
  <1> DEFINE m == tx[w].m
             new == NewEvent(db, m)
  <1>1. tx[w] # None /\ tx[w].todo = "book" /\ Commit(w, {}, new, "booked")
    BY DEF Book, Ready
  <1>2. m \in Messages /\ db \in Database /\ db.event[m] = None /\ ask[m].start \in Nat
    BY <1>1, Handling DEF Decided
  <1>3. new.event = [db.event EXCEPT ![m] = [start |-> ask[m].start, active |-> TRUE]]
    <2> HIDE DEF m
    <2> QED  BY <1>2, EventsType
  <1>4. /\ new.event[m] = [start |-> ask[m].start, active |-> TRUE]
        /\ \A n \in Messages \ {m} : new.event[n] = db.event[n]
    BY <1>2, <1>3 DEF Database
  <1>5. [start |-> ask[m].start, active |-> TRUE] # None
    <2> HIDE DEF m
    <2>1. [start |-> ask[m].start, active |-> TRUE] \in Event
      BY <1>2 DEF Event
    <2> QED  BY <2>1, NoneAssumption
  <1>6. Replied(m, "booked") /\ db' = new
    BY <1>1, CommitReplied
  <1> HIDE DEF new, m
  <1>7. AsSeen'
    BY <1>1, <1>2, <1>4, CommitSeen DEF AgendaExact
  <1>8. /\ ~Active(db, m) /\ Active(db', m)
        /\ \A n \in Messages \ {m} : Active(db', n) <=> Active(db, n)
    BY <1>2, <1>4, <1>5, <1>6 DEF Active
  <1>9. IsFiniteSet(Handled') /\ AgendaAsTold'
    <2>1. TypeOK /\ Fresh /\ IsFiniteSet(Handled) /\ AgendaAsTold /\ "booked" \in Replies
      BY DEF IInv, AgendaExact, Replies
    <2>2. Changed(m, {m}, {})
      BY <1>2, <1>8 DEF Changed
    <2> QED  BY <1>2, <1>6, <2>1, <2>2, CountStep
  <1> QED  BY <1>7, <1>9 DEF AgendaExact

(* The event that a commit archives is active, or it would be touched.      *)
LEMMA StillActive ==
    ASSUME AsSeen, NEW w \in Workers, tx[w] # None, NEW n \in Messages,
           Active(view[w], n), <<"event", n>> \notin touched[w]
    PROVE  Active(db, n) /\ db.event[n] = view[w].event[n]
  BY DEF AsSeen, Active

LEMMA MoveExact == ASSUME IInv, AgendaExact, NEW w \in Workers, Move(w)  PROVE AgendaExact'
  <1> DEFINE m == tx[w].m
             old == tx[w].current
             mid == NewEvent(db, m)
             new == Archived(mid, old)
  <1>1. tx[w] # None /\ tx[w].todo = "move" /\ Commit(w, {<<"event", old>>}, new, "moved")
    BY DEF Move, Ready
  <1>2. /\ m \in Messages /\ db \in Database /\ db.event[m] = None /\ ask[m].start \in Nat
        /\ old \in Messages
    BY <1>1, Handling DEF Decided
  <1>3. LeadOf(old) = LeadOf(m) /\ Active(db, old) /\ db.event[old] \in Event /\ old # m
    <2>1. LeadOf(old) = LeadOf(m) /\ Active(view[w], old)
      BY <1>1 DEF AgendaExact, AsSeen
    <2>2. Active(db, old)
      BY <1>1, <1>2, <2>1, StillActive DEF Commit, AgendaExact
    <2> QED  BY <1>2, <2>1, <2>2 DEF Active, Database
  <1>4. mid \in Database /\ mid.event = [db.event EXCEPT ![m] = [start |-> ask[m].start, active |-> TRUE]]
    <2> HIDE DEF m
    <2> QED  BY <1>2, EventsType
  <1>5. mid.event[old] = db.event[old]
    BY <1>2, <1>3, <1>4 DEF Database
  <1>6. new.event = [mid.event EXCEPT ![old] = [start |-> mid.event[old].start, active |-> FALSE]]
    <2> HIDE DEF mid, old
    <2> QED  BY <1>2, <1>3, <1>4, <1>5, EventsType
  <1>7. /\ new.event[m] = [start |-> ask[m].start, active |-> TRUE]
        /\ new.event[old] = [start |-> db.event[old].start, active |-> FALSE]
        /\ \A n \in Messages \ {m, old} : new.event[n] = db.event[n]
    <2>1. mid.event \in [Messages -> Event \cup {None}] /\ db.event \in [Messages -> Event \cup {None}]
      BY <1>2, <1>4 DEF Database
    <2> HIDE DEF m, old, mid, new
    <2>2. mid.event[m] = [start |-> ask[m].start, active |-> TRUE]
      BY <1>2, <1>4, <2>1
    <2>3. \A n \in Messages \ {m, old} : mid.event[n] = db.event[n]
      BY <1>2, <1>4, <2>1
    <2>4. /\ new.event[old] = [start |-> mid.event[old].start, active |-> FALSE]
          /\ \A n \in Messages \ {old} : new.event[n] = mid.event[n]
      BY <1>2, <1>6, <2>1
    <2> QED  BY <1>2, <1>3, <1>5, <2>2, <2>3, <2>4
  <1>8. [start |-> ask[m].start, active |-> TRUE] # None
    <2> HIDE DEF m
    <2>1. [start |-> ask[m].start, active |-> TRUE] \in Event
      BY <1>2 DEF Event
    <2> QED  BY <2>1, NoneAssumption
  <1>9. Replied(m, "moved") /\ db' = new
    BY <1>1, CommitReplied
  <1> HIDE DEF new, mid, m, old
  <1>10. AsSeen'
    BY <1>1, <1>2, <1>7, CommitSeen DEF AgendaExact
  <1>11. /\ ~Active(db, m) /\ Active(db', m) /\ ~Active(db', old)
         /\ \A n \in Messages \ {m, old} : Active(db', n) <=> Active(db, n)
    BY <1>2, <1>7, <1>8, <1>9 DEF Active
  <1>12. IsFiniteSet(Handled') /\ AgendaAsTold'
    <2>1. TypeOK /\ Fresh /\ IsFiniteSet(Handled) /\ AgendaAsTold /\ "moved" \in Replies
      BY DEF IInv, AgendaExact, Replies
    <2>2. Changed(m, {m}, {old})
      BY <1>2, <1>3, <1>11 DEF Changed
    <2> QED  BY <1>2, <1>9, <2>1, <2>2, CountStep
  <1> QED  BY <1>10, <1>12 DEF AgendaExact

LEMMA CancelExact == ASSUME IInv, AgendaExact, NEW w \in Workers, Cancel(w)  PROVE AgendaExact'
  <1> DEFINE m == tx[w].m
             old == FutureEvent(LeadOf(m), view[w])
             new == Archived(db, old)
  <1>1. tx[w] # None
    BY DEF Cancel, Ready
  <1>2. CASE old = None
    BY <1>1, <1>2, OrderExact DEF Cancel, Replies
  <1>3. CASE old # None
    <2>1. Commit(w, {<<"event", old>>}, new, "cancelled")
      BY <1>3 DEF Cancel
    <2>2. /\ m \in Messages /\ LeadOf(m) \in Leads /\ db \in Database /\ view[w] \in Database
          /\ ask \in [Messages -> Ask]
      BY <1>1, Handling DEF IInv, TypeOK
    <2>3. old \in Messages /\ LeadOf(old) = LeadOf(m) /\ Active(view[w], old)
      BY <1>3, <2>2, NextAppointment DEF FutureEvents
    <2> HIDE DEF old, m
    <2>4. Active(db, old) /\ db.event[old] \in Event
      <3>1. Active(db, old)
        BY <1>1, <2>1, <2>3, StillActive DEF Commit, AgendaExact
      <3> QED  BY <2>2, <2>3, <3>1 DEF Active, Database
    <2>5. new.event = [db.event EXCEPT ![old] = [start |-> db.event[old].start, active |-> FALSE]]
      BY <2>2, <2>3, <2>4, EventsType
    <2>6. /\ new.event[old] = [start |-> db.event[old].start, active |-> FALSE]
          /\ \A n \in Messages \ {old} : new.event[n] = db.event[n]
      BY <2>2, <2>3, <2>5 DEF Database
    <2>7. Replied(m, "cancelled") /\ db' = new
      BY <1>1, <2>1, CommitReplied DEF m
    <2> HIDE DEF new
    <2>8. AsSeen'
      BY <2>1, <2>6, CommitSeen DEF AgendaExact
    <2>9. ~Active(db', old) /\ \A n \in Messages \ {old} : Active(db', n) <=> Active(db, n)
      BY <2>6, <2>7 DEF Active
    <2>10. IsFiniteSet(Handled') /\ AgendaAsTold'
      <3>1. TypeOK /\ Fresh /\ IsFiniteSet(Handled) /\ AgendaAsTold /\ "cancelled" \in Replies
        BY DEF IInv, AgendaExact, Replies
      <3>2. Changed(m, {}, {old})
        BY <2>3, <2>4, <2>9 DEF Changed
      <3> QED  BY <2>2, <2>7, <3>1, <3>2, CountStep
    <2> QED  BY <2>8, <2>10 DEF AgendaExact
  <1> QED  BY <1>2, <1>3

(* The other steps of a run that commit.                                    *)
LEMMA OthersExact ==
    ASSUME IInv, AgendaExact, NEW w \in Workers,
           Busy(w) \/ Summary(w) \/ Decline(w) \/ Confirm(w) \/ Talk(w)
    PROVE  AgendaExact'
  <1>0. tx[w] # None /\ db \in Database
    BY DEF Busy, Summary, Decline, Confirm, Talk, Ready, IInv, TypeOK
  <1>1. CASE Busy(w) \/ Talk(w)
    BY <1>0, <1>1, OrderExact DEF Busy, Talk, Replies
  <1>2. CASE Summary(w) \/ Decline(w) \/ Confirm(w)
    <2>1. CASE Summary(w)
      <3> DEFINE m == tx[w].m
                 new == [db EXCEPT !.pending[LeadOf(m)] =
                            [ref |-> m, product |-> ask[m].product, qty |-> ask[m].qty]]
      <3>1. Commit(w, {<<"contact", LeadOf(m)>>}, new, "summary") /\ new.event = db.event
        BY <1>0, <2>1 DEF Summary, Database
      <3> HIDE DEF new, m
      <3> QED  BY <1>0, <3>1, OrderExact DEF Replies
    <2>2. CASE Decline(w)
      <3>1. /\ Commit(w, {<<"contact", LeadOf(tx[w].m)>>}, PendingCleared(db, LeadOf(tx[w].m)), "declined")
            /\ PendingCleared(db, LeadOf(tx[w].m)).event = db.event
        BY <1>0, <2>2, Handling, OrdersType DEF Decline
      <3> QED  BY <1>0, <3>1, OrderExact DEF Replies
    <2>3. CASE Confirm(w)
      <3>1. PICK rows, target, quote :
               Commit(w, rows, [PendingCleared(db, LeadOf(tx[w].m)) EXCEPT !.quote[target] = quote], "quoted")
        BY <2>3 DEF Confirm
      <3> DEFINE new == [PendingCleared(db, LeadOf(tx[w].m)) EXCEPT !.quote[target] = quote]
      <3>2. PendingCleared(db, LeadOf(tx[w].m)) \in Database
        BY <1>0, Handling, OrdersType
      <3>3. new.event = PendingCleared(db, LeadOf(tx[w].m)).event
        BY <3>2 DEF Database
      <3>4. new.event = db.event
        BY <1>0, <3>3, Handling, OrdersType
      <3> HIDE DEF new
      <3>5. Commit(w, rows, new, "quoted")
        BY <3>1 DEF new
      <3> QED  BY <1>0, <3>4, <3>5, OrderExact DEF Replies
    <2> QED  BY <1>2, <2>1, <2>2, <2>3
  <1> QED  BY <1>1, <1>2

(* A step that commits nothing of a message.                                *)
LEMMA QuietExact ==
    ASSUME AgendaExact, UNCHANGED <<ask, told>>, db'.event = db.event,
           \A v \in Workers : tx'[v] # None =>
              /\ tx[v] # None
              /\ tx'[v].m = tx[v].m /\ tx'[v].todo = tx[v].todo /\ tx'[v].current = tx[v].current
              /\ view'[v] = view[v] /\ touched[v] \subseteq touched'[v]
    PROVE  AgendaExact'
  <1>1. IsFiniteSet(Handled')
    BY DEF AgendaExact, Handled
  <1>2. AsSeen'
    BY DEF AgendaExact, AsSeen, Active, LeadOf
  <1>3. AgendaAsTold'
    BY DEF AgendaExact, AgendaAsTold, Active, LeadOf
  <1> QED  BY <1>1, <1>2, <1>3 DEF AgendaExact

LEMMA BeginExact ==
    ASSUME IInv, AgendaExact, NEW w \in Workers, NEW m \in Messages, Begin(w, m)
    PROVE  AgendaExact'
  <1>1. UNCHANGED <<ask, told, db, touched>>
    BY DEF Begin
  <1>2. /\ tx'[w].m = m /\ tx'[w].todo = TodoFor(m, db)
        /\ tx'[w].current = FutureEvent(LeadOf(m), db) /\ view'[w] = db
        /\ \A v \in Workers \ {w} : tx'[v] = tx[v] /\ view'[v] = view[v]
    BY DEF Begin, IInv, TypeOK
  <1>3. tx'[w].todo = "move" => LeadOf(tx'[w].current) = LeadOf(m) /\ Active(db, tx'[w].current)
    <2>1. ask[m] \in Ask /\ LeadOf(m) \in Leads /\ db \in Database /\ ask \in [Messages -> Ask]
      BY DEF IInv, TypeOK, LeadOf, Ask
    <2>2. TodoFor(m, db) = "move" => FutureEvent(LeadOf(m), db) # None
      BY DEF TodoFor, ScheduleTodo
    <2> QED  BY <1>2, <2>1, <2>2, NextAppointment DEF FutureEvents
  <1>4. AsSeen'
    <2> SUFFICES ASSUME NEW v \in Workers, tx'[v] # None
                 PROVE  /\ \A n \in Messages :
                              view'[v].event[n] # None /\ <<"event", n>> \notin touched'[v] =>
                                  db'.event[n] = view'[v].event[n]
                        /\ tx'[v].todo = "move" =>
                              LeadOf(tx[v].current)' = LeadOf(tx[v].m)' /\ Active(view[v], tx[v].current)'
      BY DEF AsSeen
    <2>1. /\ LeadOf(tx[v].current)' = LeadOf(tx'[v].current) /\ LeadOf(tx[v].m)' = LeadOf(tx'[v].m)
          /\ Active(view[v], tx[v].current)' = Active(view'[v], tx'[v].current)
      BY <1>1 DEF LeadOf, Active
    <2>2. CASE v = w
      BY <1>1, <1>2, <1>3, <2>1, <2>2
    <2>3. CASE v # w
      BY <1>1, <1>2, <2>1, <2>3 DEF AgendaExact, AsSeen
    <2> QED  BY <2>2, <2>3
  <1>5. IsFiniteSet(Handled') /\ AgendaAsTold'
    BY <1>1 DEF AgendaExact, Handled, AgendaAsTold, Active, LeadOf
  <1> QED  BY <1>4, <1>5 DEF AgendaExact

-----------------------------------------------------------------------------
LEMMA NextExact == IInv /\ AgendaExact /\ [Next]_vars => AgendaExact'
  <1> SUFFICES ASSUME IInv, AgendaExact, [Next]_vars  PROVE AgendaExact'
    OBVIOUS
  <1>0. db \in Database
    BY DEF IInv, TypeOK
  <1>1. CASE UNCHANGED vars \/ Tick
    BY <1>1, QuietExact DEF vars, Tick
  <1>2. ASSUME NEW w \in Workers, Lock(w)  PROVE AgendaExact'
    <2>1. tx[w] # None /\ tx[w] \in Transaction
      BY <1>2, Tasks DEF Lock, IInv
    <2>2. tx'[w] = [tx[w] EXCEPT !.held = tx[w].held + 1] /\ \A v \in Workers \ {w} : tx'[v] = tx[v]
      BY <1>2 DEF Lock, IInv, TypeOK
    <2>3. tx'[w].m = tx[w].m /\ tx'[w].todo = tx[w].todo /\ tx'[w].current = tx[w].current
      BY <2>1, <2>2 DEF Transaction
    <2> QED  BY <1>2, <2>1, <2>2, <2>3, QuietExact DEF Lock
  <1>3. ASSUME NEW w \in Workers, Conflict(w) \/ Crash(w)  PROVE AgendaExact'
    <2>1. RollBack(w)
      BY <1>3 DEF Conflict, Crash
    <2>2. \A v \in Workers : tx'[v] # None =>
              v # w /\ tx'[v] = tx[v] /\ view'[v] = view[v] /\ touched'[v] = touched[v]
      BY <2>1 DEF RollBack, End, IInv, TypeOK
    <2> QED  BY <2>1, <2>2, QuietExact DEF RollBack, End
  <1>4. ASSUME NEW w \in Workers, Finish(w)  PROVE AgendaExact'
    BY <1>4, BookExact, MoveExact, CancelExact, OthersExact DEF Finish
  <1>5. ASSUME NEW m \in Messages, Lapse(m)  PROVE AgendaExact'
    BY <1>5, QuietExact DEF Lapse
  <1>6. ASSUME NEW new, NEW rows, ByHand(new, rows), new.event = db.event  PROVE AgendaExact'
    <2>1. db' = new /\ UNCHANGED <<ask, tx, view, told>>
      BY <1>6 DEF ByHand
    <2>2. \A v \in Workers : tx'[v] # None => touched[v] \subseteq touched'[v]
      BY <1>6 DEF ByHand
    <2> QED  BY <1>6, <2>1, <2>2, QuietExact
  <1>7. ASSUME NEW m \in Messages, CloseQuote(m)  PROVE AgendaExact'
    <2>1. [db EXCEPT !.quote[m].open = FALSE].event = db.event
      BY <1>0 DEF Database
    <2> QED  BY <1>6, <1>7, <2>1 DEF CloseQuote
  <1>8. ASSUME NEW x \in Meetings, AddMeeting(x)  PROVE AgendaExact'
    <2>1. [db EXCEPT !.meetings = @ \cup {x}].event = db.event
      BY <1>0 DEF Database
    <2> QED  BY <1>6, <1>8, <2>1 DEF AddMeeting
  <1> QED  BY <1>1, <1>2, <1>3, <1>4, <1>5, <1>7, <1>8, BeginExact DEF Next, WorkerStep

(* AgendaAsTold: a lead has an appointment for each booking it was told of, *)
(* less those it was told were cancelled, whatever messages of it are       *)
(* handled at once (_handle_reschedule, _handle_cancel_schedule).           *)
THEOREM AgendaSafety == Spec => []AgendaAsTold
  <1>1. Init => AgendaExact
    <2> SUFFICES ASSUME Init  PROVE AgendaExact
      OBVIOUS
    <2>1. Handled = {} /\ \A l : ActiveOf(l) = {}
      BY DEF Init, Handled, ActiveOf, Active
    <2>2. \A l : ToldTo(l, {"booked"}) = {} /\ ToldTo(l, {"cancelled"}) = {}
      BY NoneAssumption DEF Init, ToldTo, Replies
    <2>3. AsSeen
      BY DEF Init, AsSeen
    <2> QED  BY <2>1, <2>2, <2>3, Counted, FS_EmptySet DEF AgendaExact
  <1>2. AgendaExact => AgendaAsTold
    BY DEF AgendaExact
  <1> QED  BY <1>1, <1>2, Invariant, NextExact, PTL DEF Spec
=============================================================================
