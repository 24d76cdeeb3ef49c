------------------------- MODULE WooviPaymentProofs -------------------------
(***************************************************************************)
(* Proofs about WooviPayment, for any set of webhook bodies and processes: *)
(* the types; a transaction is done only if Woovi was paid; a payment is   *)
(* confirmed once; and what is known of it is not taken back.              *)
(*                                                                         *)
(* DoneMeansPaid is not inductive alone: the answer that will make a       *)
(* transaction done may wait in a process, in an event that a process is   *)
(* handling, or in one that was stored long ago.  Known says that "done"   *)
(* and "completed" are true in all these places, and Tasks says who        *)
(* handles which event, so that the events a process writes at its end are *)
(* still those it read.                                                    *)
(*                                                                         *)
(* ConfirmedOnce and PaymentStays depend on the row lock.  LockInv says    *)
(* that who is not stale sees the row as it is, that what was written      *)
(* under the lock follows from the committed row, and that nothing is      *)
(* known of a payment before its charge: so a status is always compared    *)
(* with the last one, and a confirmation meets a row that has none.        *)
(*                                                                         *)
(* That the shop keeps the ledger needs more: a transaction that shows a   *)
(* payment was confirmed by an event, and an event that confirms left it   *)
(* so.  ShownInv says this of what is committed, and of what a process has *)
(* written and not committed.                                              *)
(***************************************************************************)
EXTENDS WooviPayment, TLAPS, FiniteSetTheorems

Held(w) == todo[w] \cup DOMAIN out[w]

Sound(r) ==
    /\ r.attempts <= MaxAttempts
    /\ r.state \in {"absent", "pending"} => r.attempts < MaxAttempts

(* Before its first query a process holds no event; only the events cron    *)
(* holds several, and what it holds waits; the others hold a new one; no    *)
(* two processes hold the same.                                             *)
Tasks ==
    /\ \A w \in Procs : phase[w] # "events" => Held(w) = {}
    /\ \A w \in Procs \ {EventsCron} :
          /\ DOMAIN out[w] = {}
          /\ \A k \in todo[w] : todo[w] = {k}
    /\ \A w \in Web : todo[w] \subseteq Hooks
    /\ \A w \in Procs : \A k \in Held(w) :
          event[k].state = IF w = EventsCron THEN "pending" ELSE "absent"
    /\ \A v, w \in Procs : v # w => Held(v) \cap Held(w) = {}
    /\ \A k \in Keys : Sound(event[k])
    /\ \A w \in Procs : \A k \in DOMAIN out[w] :
          Sound(out[w][k]) /\ out[w][k].state # "absent"

DoneIsPaid(t) == t.state = "done" => Paid /\ amount = "right"

ChargeIsKnown(t) == t.charge => remote # None

Known ==
    /\ DoneIsPaid(tx) /\ ChargeIsKnown(tx)
    /\ \A w \in Procs : DoneIsPaid(mine[w]) /\ ChargeIsKnown(mine[w])
    /\ \A w \in Procs : phase[w] \in {"answer", "query"} => remote # None
    /\ \A w \in Procs : got[w] = "completed" => Paid
    /\ \A w \in Procs : "completed" \in todo[w] => Paid
    /\ event["completed"].state # "absent" => Paid

IInv == TypeOK /\ Tasks /\ Known

-----------------------------------------------------------------------------
(* The setters and the application of a status give a transaction row.      *)
LEMMA AppliedType ==
    ASSUME NEW t \in Tx, NEW s \in Remote
    PROVE  /\ Applied(t, s) \in Tx
           /\ SetPending(t) \in Tx /\ SetCanceled(t) \in Tx /\ SetError(t) \in Tx
           /\ Applied(t, s).charge = t.charge
           /\ SetPending(t).charge = t.charge
           /\ SetCanceled(t).charge = t.charge
           /\ SetError(t).charge = t.charge
  BY DEF Applied, Confirmed, SetPending, SetCanceled, SetError, SetDone, Moved, Tx, Remote

(* Only a confirmation makes a transaction done.                            *)
LEMMA AppliedDone ==
    ASSUME NEW t \in Tx, NEW s \in Remote, Applied(t, s).state = "done"
    PROVE  t.state = "done" \/ (s = "completed" /\ amount = "right")
  BY DEF Applied, Confirmed, SetPending, SetCanceled, SetError, SetDone, Moved, Tx, Remote

LEMMA SettersDone ==
    ASSUME NEW t \in Tx
    PROVE  /\ SetPending(t).state = "done" => t.state = "done"
           /\ SetCanceled(t).state = "done" => t.state = "done"
           /\ SetError(t).state = "done" => t.state = "done"
  BY DEF SetPending, SetCanceled, SetError, Moved, Tx

LEMMA ClosedType ==
    ASSUME NEW r \in Event, NEW s \in {"pending", "done", "ignored", "rejected", "failed"},
           r.attempts + 1 <= MaxAttempts,
           s = "pending" => r.attempts + 1 < MaxAttempts
    PROVE  Closed(r, s) \in Event /\ Sound(Closed(r, s)) /\ Closed(r, s).state # "absent"
  <1>1. Closed(r, s) \in Event
    BY DEF Closed, Event
  <1>2. Closed(r, s).state = s /\ Closed(r, s).attempts = r.attempts + 1
    BY DEF Closed, Event
  <1> QED  BY <1>1, <1>2 DEF Sound

LEMMA RetriedType ==
    ASSUME NEW r \in Event, Sound(r), r.state \in {"absent", "pending"}
    PROVE  Retried(r) \in Event /\ Sound(Retried(r)) /\ Retried(r).state # "absent"
  <1>1. r.attempts \in Nat /\ MaxAttempts \in Nat /\ r.attempts < MaxAttempts
    BY BodiesAssumption DEF Sound, Event
  <1>2. CASE r.attempts + 1 >= MaxAttempts
    BY <1>1, <1>2, ClosedType DEF Retried
  <1>3. CASE ~(r.attempts + 1 >= MaxAttempts)
    BY <1>1, <1>3, ClosedType DEF Retried
  <1> QED  BY <1>2, <1>3

-----------------------------------------------------------------------------
LEMMA InitInv == Init => IInv
  <1> SUFFICES ASSUME Init  PROVE IInv
    OBVIOUS
  <1> USE DEF Init
  <1>1. TypeOK
    <2>1. NewTx \in Tx
      BY BodiesAssumption DEF Tx, NewTx
    <2>2. event \in [Keys -> Event]
      BY DEF Event
    <2>3. /\ remote \in Remote \cup {None} /\ amount \in Amounts \cup {"right"}
          /\ late \in BOOLEAN /\ wrote \in BOOLEAN
          /\ phase \in [Procs -> {"idle", "post", "answer", "query", "events"}]
          /\ todo \in [Procs -> SUBSET Keys]
          /\ got \in [Procs -> Remote \cup {None}]
          /\ owner \in Procs \cup {None} /\ stale \subseteq Procs
          /\ owner # None => phase[owner] # "idle"
      OBVIOUS
    <2>4. \A w \in Procs : DOMAIN out[w] = {}
      OBVIOUS
    <2>5. kills \in 0..MaxKills /\ \A k \in Keys : event[k].attempts <= MaxAttempts
      BY BodiesAssumption
    <2>6. mine \in [Procs -> Tx] /\ DOMAIN out = Procs
      BY <2>1
    <2> QED  BY <2>1, <2>2, <2>3, <2>4, <2>5, <2>6 DEF TypeOK
  <1>2. Tasks
    <2>1. \A w \in Procs : Held(w) = {}
      BY DEF Held
    <2>2. \A k \in Keys : Sound(event[k])
      BY BodiesAssumption DEF Sound
    <2> QED  BY <2>1, <2>2 DEF Tasks, Held, Procs
  <1>3. Known
    BY BodiesAssumption DEF Known, DoneIsPaid, ChargeIsKnown, Keys, Remote, NewTx
  <1> QED  BY <1>1, <1>2, <1>3 DEF IInv

(* What a process knows of the event it handles.                            *)
LEMMA Handled ==
    ASSUME IInv, NEW w \in Procs, NEW k \in todo[w]
    PROVE  /\ phase[w] = "events" /\ k \in Keys
           /\ event[k] \in Event /\ Sound(event[k])
           /\ event[k].state \in {"absent", "pending"}
           /\ mine[w] \in Tx /\ DoneIsPaid(mine[w]) /\ ChargeIsKnown(mine[w])
           /\ k = "completed" => Paid
  <1>1. k \in Held(w) /\ k \in Keys
    BY DEF Held, IInv, TypeOK
  <1>2. phase[w] = "events" /\ event[k].state \in {"absent", "pending"} /\ Sound(event[k])
    BY <1>1 DEF IInv, Tasks
  <1>3. mine[w] \in Tx /\ event[k] \in Event
    BY <1>1, <1>2 DEF IInv, TypeOK
  <1> QED  BY <1>1, <1>2, <1>3 DEF IInv, Known

-----------------------------------------------------------------------------
(* The last event of a process commits what the process holds.              *)
LEMMA LastInv ==
    ASSUME IInv, NEW w \in Procs, NEW k \in todo[w], NEW t \in Tx, NEW r \in Event,
           Sound(r), r.state # "absent", DoneIsPaid(t), ChargeIsKnown(t),
           NEW dirty \in BOOLEAN, SettleLast(w, k, r, t, dirty)
    PROVE  IInv'
  <1> USE DEF IInv, SettleLast, provider
  <1>0. /\ phase' = [phase EXCEPT ![w] = "idle"] /\ todo' = [todo EXCEPT ![w] = {}]
        /\ got' = [got EXCEPT ![w] = None] /\ mine' = [mine EXCEPT ![w] = NewTx]
        /\ out' = [out EXCEPT ![w] = <<>>]
    BY DEF End
  <1> NewTx \in Tx /\ NewTx.state = "draft" /\ ~NewTx.charge
    BY DEF Tx, NewTx
  <1>1. /\ \A v \in Procs \ {w} : /\ phase'[v] = phase[v] /\ todo'[v] = todo[v]
                                  /\ got'[v] = got[v] /\ mine'[v] = mine[v]
                                  /\ out'[v] = out[v]
        /\ phase'[w] = "idle" /\ todo'[w] = {} /\ got'[w] = None /\ mine'[w] = NewTx
        /\ DOMAIN out'[w] = {}
    <2>1. \A v \in Procs : /\ phase'[v] = IF v = w THEN "idle" ELSE phase[v]
                           /\ todo'[v] = IF v = w THEN {} ELSE todo[v]
                           /\ got'[v] = IF v = w THEN None ELSE got[v]
                           /\ mine'[v] = IF v = w THEN NewTx ELSE mine[v]
                           /\ out'[v] = IF v = w THEN <<>> ELSE out[v]
      BY <1>0 DEF TypeOK
    <2> QED  BY <2>1
  <1>2. \A e \in Keys : /\ event'[e] \in Event /\ Sound(event'[e])
                        /\ e \notin Held(w) => event'[e] = event[e]
                        /\ e \in Held(w) => event'[e].state # "absent"
    BY DEF TypeOK, Tasks, Held
  <1>3. TypeOK'
    <2>1. tx' \in Tx /\ event' \in [Keys -> Event]
      BY <1>2 DEF TypeOK
    <2>2. \A v \in Procs :
            /\ DOMAIN out'[v] \subseteq Keys
            /\ \A e \in DOMAIN out'[v] : out'[v][e] \in Event
      BY <1>1 DEF TypeOK
    <2>3. /\ owner' \in Procs \cup {None} /\ wrote' \in BOOLEAN
          /\ owner' # None => phase'[owner'] # "idle"
      <3>1. wrote' \in BOOLEAN
        BY DEF Released
      <3>2. owner' = IF owner = w THEN None ELSE owner
        BY DEF Released
      <3>3. owner' # None => owner' \in Procs \ {w} /\ phase[owner'] # "idle"
        BY <3>2 DEF TypeOK
      <3> QED  BY <3>1, <3>2, <3>3, <1>1 DEF TypeOK
    <2>4. stale' \subseteq Procs
      BY DEF TypeOK, Busy
    <2>5. /\ phase' \in [Procs -> {"idle", "post", "answer", "query", "events"}]
          /\ todo' \in [Procs -> SUBSET Keys]
          /\ got' \in [Procs -> Remote \cup {None}]
          /\ mine' \in [Procs -> Tx] /\ DOMAIN out' = Procs
      BY <1>0 DEF TypeOK
    <2>6. /\ remote' \in Remote \cup {None} /\ amount' \in Amounts \cup {"right"}
          /\ late' \in BOOLEAN /\ kills' \in 0..MaxKills
          /\ \A e \in Keys : event'[e].attempts <= MaxAttempts
      BY <1>2 DEF TypeOK, Sound
    <2> QED  BY <2>1, <2>2, <2>3, <2>4, <2>5, <2>6 DEF TypeOK
  <1>4. Tasks'
    <2>1. Held(w)' = {} /\ \A v \in Procs \ {w} : Held(v)' = Held(v)
      BY <1>1 DEF Held
    <2>2. \A v \in Procs : \A e \in Held(v)' :
             event'[e].state = IF v = EventsCron THEN "pending" ELSE "absent"
      <3> SUFFICES ASSUME NEW v \in Procs, NEW e \in Held(v)'
                   PROVE  event'[e].state = IF v = EventsCron THEN "pending" ELSE "absent"
        OBVIOUS
      <3>1. v # w /\ e \in Held(v)
        BY <2>1
      <3>2. e \notin Held(w) /\ e \in Keys
        BY <3>1 DEF Tasks, Held, TypeOK
      <3> QED  BY <3>1, <3>2, <1>2 DEF Tasks
    <2>3. \A v \in Procs : phase'[v] # "events" => Held(v)' = {}
      BY <2>1, <1>1 DEF Tasks
    <2>4. \A v \in Procs \ {EventsCron} :
             DOMAIN out'[v] = {} /\ \A e \in todo'[v] : todo'[v] = {e}
      BY <1>1 DEF Tasks
    <2>5. \A v \in Web : todo'[v] \subseteq Hooks
      BY <1>1 DEF Tasks, Procs
    <2>6. \A u, v \in Procs : u # v => Held(u)' \cap Held(v)' = {}
      BY <2>1 DEF Tasks
    <2>7. /\ \A e \in Keys : Sound(event[e])'
          /\ \A v \in Procs : \A e \in DOMAIN out'[v] :
                Sound(out[v][e])' /\ out'[v][e].state # "absent"
      BY <1>1, <1>2 DEF Tasks, Sound
    <2> QED  BY <2>2, <2>3, <2>4, <2>5, <2>6, <2>7 DEF Tasks
  <1>5. Known'
    <2>1. DoneIsPaid(tx)' /\ ChargeIsKnown(tx)'
      BY DEF Known, DoneIsPaid, ChargeIsKnown, Paid
    <2>2. \A v \in Procs : DoneIsPaid(mine[v])' /\ ChargeIsKnown(mine[v])'
      BY <1>1 DEF Known, DoneIsPaid, ChargeIsKnown, Paid
    <2>3. event'["completed"].state # "absent" => Paid'
      <3>1. CASE "completed" \in Held(w)
        <4>1. CASE "completed" \in todo[w]
          BY <4>1 DEF Known, Paid
        <4>2. CASE "completed" \in DOMAIN out[w]
          <5>1. w = EventsCron /\ event["completed"].state = "pending"
            BY <4>2, <3>1 DEF Tasks
          <5> QED  BY <5>1 DEF Known, Paid
        <4> QED  BY <3>1, <4>1, <4>2 DEF Held
      <3>2. CASE "completed" \notin Held(w)
        BY <3>2, <1>2 DEF Known, Paid, Keys, Remote
      <3> QED  BY <3>1, <3>2
    <2>4. /\ \A v \in Procs : phase'[v] \in {"answer", "query"} => remote' # None
          /\ \A v \in Procs : got'[v] = "completed" => Paid'
          /\ \A v \in Procs : "completed" \in todo'[v] => Paid'
      BY <1>1, BodiesAssumption DEF Known, Paid, Keys, Remote
    <2> QED  BY <2>1, <2>2, <2>3, <2>4 DEF Known
  <1> QED  BY <1>3, <1>4, <1>5

(* An event that is not the last moves to what the events cron has handled. *)
LEMMA OneInv ==
    ASSUME IInv, NEW w \in Procs, NEW k \in todo[w], NEW t \in Tx, NEW r \in Event,
           Sound(r), r.state # "absent", DoneIsPaid(t), ChargeIsKnown(t),
           SettleOne(w, k, r, t), owner' \in {owner, w}, wrote' \in BOOLEAN
    PROVE  IInv'
  <1> USE DEF IInv, SettleOne, provider, db
  <1>0. k \in Keys /\ phase[w] = "events" /\ k \in Held(w)
    BY Handled DEF Held
  <1>1. /\ \A v \in Procs \ {w} : /\ todo'[v] = todo[v] /\ got'[v] = got[v]
                                  /\ mine'[v] = mine[v] /\ out'[v] = out[v]
        /\ todo'[w] = todo[w] \ {k} /\ got'[w] = None /\ mine'[w] = t
        /\ DOMAIN out'[w] = DOMAIN out[w] \cup {k}
        /\ \A e \in DOMAIN out'[w] : out'[w][e] = IF e = k THEN r ELSE out[w][e]
    BY DEF TypeOK
  <1>2. w = EventsCron
    BY DEF Tasks
  <1>3. TypeOK'
    <2>1. \A v \in Procs :
            /\ DOMAIN out'[v] \subseteq Keys
            /\ \A e \in DOMAIN out'[v] : out'[v][e] \in Event
      <3> SUFFICES ASSUME NEW v \in Procs
                   PROVE  /\ DOMAIN out'[v] \subseteq Keys
                          /\ \A e \in DOMAIN out'[v] : out'[v][e] \in Event
        OBVIOUS
      <3>2. CASE v = w
        BY <3>2, <1>0, <1>1 DEF TypeOK
      <3>3. CASE v # w
        BY <3>3, <1>1 DEF TypeOK
      <3> QED  BY <3>2, <3>3
    <2>2. /\ todo' \in [Procs -> SUBSET Keys]
          /\ got' \in [Procs -> Remote \cup {None}]
          /\ mine' \in [Procs -> Tx] /\ DOMAIN out' = Procs
      BY DEF TypeOK
    <2>3. owner' \in Procs \cup {None} /\ (owner' # None => phase'[owner'] # "idle")
      BY <1>0 DEF TypeOK
    <2> QED  BY <2>1, <2>2, <2>3 DEF TypeOK
  <1>4. Tasks'
    <2>1. \A v \in Procs : Held(v)' = Held(v)
      BY <1>1, <1>0 DEF Held
    <2>2. \A v \in Procs \ {EventsCron} :
             DOMAIN out'[v] = {} /\ \A e \in todo'[v] : todo'[v] = {e}
      BY <1>1, <1>2 DEF Tasks
    <2>3. \A v \in Web : todo'[v] \subseteq Hooks
      BY <1>1, <1>2, ProcsAssumption DEF Tasks, Procs
    <2>4. \A v \in Procs : \A e \in DOMAIN out'[v] :
             Sound(out[v][e])' /\ out'[v][e].state # "absent"
      <3> SUFFICES ASSUME NEW v \in Procs, NEW e \in DOMAIN out'[v]
                   PROVE  Sound(out[v][e])' /\ out'[v][e].state # "absent"
        OBVIOUS
      <3>1. CASE v = w
        BY <3>1, <1>1 DEF Tasks, Sound
      <3>2. CASE v # w
        BY <3>2, <1>1 DEF Tasks, Sound
      <3> QED  BY <3>1, <3>2
    <2> QED  BY <2>1, <2>2, <2>3, <2>4 DEF Tasks, Sound
  <1>5. Known'
    <2>1. \A v \in Procs : DoneIsPaid(mine[v])' /\ ChargeIsKnown(mine[v])'
      BY <1>1 DEF Known, DoneIsPaid, ChargeIsKnown, Paid
    <2>2. /\ \A v \in Procs : got'[v] = "completed" => Paid'
          /\ \A v \in Procs : "completed" \in todo'[v] => Paid'
      BY <1>1, BodiesAssumption DEF Known, Paid, Keys, Remote
    <2> QED  BY <2>1, <2>2 DEF Known, DoneIsPaid, ChargeIsKnown, Paid
  <1> QED  BY <1>3, <1>4, <1>5

(* _process_one, whichever way it ends the event.                           *)
LEMMA SettleInv ==
    ASSUME IInv, NEW w \in Procs, NEW k \in todo[w], NEW r \in Event,
           Sound(r), r.state # "absent", Settle(w, k, r)
    PROVE  IInv'
  <1>1. mine[w] \in Tx /\ DoneIsPaid(mine[w]) /\ ChargeIsKnown(mine[w])
    BY Handled
  <1>2. CASE SettleLast(w, k, r, mine[w], wrote /\ owner = w)
    <2>1. (wrote /\ owner = w) \in BOOLEAN
      OBVIOUS
    <2> QED  BY <1>1, <1>2, <2>1, LastInv
  <1>3. CASE SettleOne(w, k, r, mine[w]) /\ UNCHANGED <<owner, wrote>>
    <2>1. owner' \in {owner, w} /\ wrote' \in BOOLEAN
      BY <1>3 DEF IInv, TypeOK
    <2> QED  BY <1>1, <1>3, <2>1, OneInv
  <1> QED  BY <1>2, <1>3 DEF Settle

LEMMA RefusedInv ==
    ASSUME IInv, NEW w \in Procs, NEW k \in Keys, Refused(w, k)
    PROVE  IInv'
  <1>1. k \in todo[w]
    BY DEF Refused, Handling
  <1>2. \A s \in {"ignored", "rejected"} :
           /\ Closed(event[k], s) \in Event /\ Sound(Closed(event[k], s))
           /\ Closed(event[k], s).state # "absent"
    BY <1>1, Handled, ClosedType, BodiesAssumption DEF Sound, Event
  <1> QED  BY <1>1, <1>2, SettleInv DEF Refused

LEMMA RetriedInv ==
    ASSUME IInv, NEW w \in Procs, NEW k \in todo[w], Settle(w, k, Retried(event[k]))
    PROVE  IInv'
  <1>1. /\ Retried(event[k]) \in Event /\ Sound(Retried(event[k]))
        /\ Retried(event[k]).state # "absent"
    BY Handled, RetriedType
  <1> QED  BY <1>1, SettleInv

LEMMA ApplyInv ==
    ASSUME IInv, NEW w \in Procs, NEW k \in Keys, Apply(w, k)
    PROVE  IInv'
  <1> DEFINE s == Trusted(w, k)
             outcome == Outcome(mine[w], s)
             writes == outcome \in {"done", "rejected"}
             t == IF writes THEN Applied(mine[w], s) ELSE mine[w]
             r == [Closed(event[k], outcome)
                   EXCEPT !.confirmed = (outcome = "done" /\ s = "completed")]
             dirty == writes \/ (wrote /\ owner = w)
  <1>1. /\ k \in todo[w] /\ (k \in Hooks => got[w] # None)
        /\ \/ SettleLast(w, k, r, t, dirty)
           \/ /\ SettleOne(w, k, r, t) /\ wrote' = dirty
              /\ owner' = IF outcome = "failed" THEN owner ELSE w
    BY DEF Apply, Ready, Handling
  <1>2. s \in Remote /\ (s = "completed" => Paid)
    <2>1. CASE k \in Hooks
      BY <2>1, <1>1 DEF Trusted, IInv, TypeOK, Known
    <2>2. CASE k \notin Hooks
      BY <2>2, <1>1, Handled DEF Trusted, Keys
    <2> QED  BY <2>1, <2>2
  <1>3. /\ mine[w] \in Tx /\ DoneIsPaid(mine[w]) /\ ChargeIsKnown(mine[w])
        /\ event[k] \in Event /\ Sound(event[k])
        /\ event[k].state \in {"absent", "pending"}
    BY <1>1, Handled
  <1>4. outcome \in {"ignored", "failed", "rejected", "done"}
    BY DEF Outcome
  <1>5. t \in Tx /\ DoneIsPaid(t) /\ ChargeIsKnown(t)
    <2>1. CASE writes
      BY <2>1, <1>2, <1>3, AppliedType, AppliedDone DEF DoneIsPaid, ChargeIsKnown
    <2>2. CASE ~writes
      BY <2>2, <1>3
    <2> QED  BY <2>1, <2>2
  <1>6. r \in Event /\ Sound(r) /\ r.state # "absent"
    <2>1. /\ Closed(event[k], outcome) \in Event /\ Sound(Closed(event[k], outcome))
          /\ Closed(event[k], outcome).state # "absent"
      BY <1>3, <1>4, ClosedType, BodiesAssumption DEF Sound, Event
    <2> HIDE DEF outcome
    <2>2. r.state = Closed(event[k], outcome).state /\ r.attempts = Closed(event[k], outcome).attempts
      BY <2>1 DEF Event
    <2>3. r \in Event
      BY <2>1 DEF Event
    <2> QED  BY <2>1, <2>2, <2>3 DEF Sound
  <1>7. dirty \in BOOLEAN
    OBVIOUS
  <1>8. CASE SettleLast(w, k, r, t, dirty)
    <2> HIDE DEF t, r, dirty
    <2> QED  BY <1>1, <1>5, <1>6, <1>7, <1>8, LastInv
  <1>9. CASE /\ SettleOne(w, k, r, t) /\ wrote' = dirty
             /\ owner' = IF outcome = "failed" THEN owner ELSE w
    <2> HIDE DEF t, r, dirty, outcome
    <2> QED  BY <1>1, <1>5, <1>6, <1>7, <1>9, OneInv
  <1> QED  BY <1>1, <1>8, <1>9

-----------------------------------------------------------------------------
(* A process ends and leaves its events as they were.                       *)
LEMMA EndInv ==
    ASSUME IInv, NEW w \in Procs, End(w),
           tx' \in Tx, DoneIsPaid(tx'), ChargeIsKnown(tx'),
           UNCHANGED <<provider, late, event>>,
           owner' \in {owner, None}, owner' # w, wrote' \in BOOLEAN,
           stale' \subseteq Procs, kills' \in 0..MaxKills
    PROVE  IInv'
  <1> USE DEF IInv, End, provider
  <1> NewTx \in Tx /\ NewTx.state = "draft" /\ ~NewTx.charge
    BY BodiesAssumption DEF Tx, NewTx
  <1>1. /\ \A v \in Procs \ {w} : /\ phase'[v] = phase[v] /\ todo'[v] = todo[v]
                                  /\ got'[v] = got[v] /\ mine'[v] = mine[v]
                                  /\ out'[v] = out[v]
        /\ phase'[w] = "idle" /\ todo'[w] = {} /\ got'[w] = None /\ mine'[w] = NewTx
        /\ DOMAIN out'[w] = {}
    <2>1. \A v \in Procs : /\ phase'[v] = IF v = w THEN "idle" ELSE phase[v]
                           /\ todo'[v] = IF v = w THEN {} ELSE todo[v]
                           /\ got'[v] = IF v = w THEN None ELSE got[v]
                           /\ mine'[v] = IF v = w THEN NewTx ELSE mine[v]
                           /\ out'[v] = IF v = w THEN <<>> ELSE out[v]
      BY DEF TypeOK
    <2> QED  BY <2>1
  <1>2. TypeOK'
    <2>1. \A v \in Procs :
            DOMAIN out'[v] \subseteq Keys /\ \A e \in DOMAIN out'[v] : out'[v][e] \in Event
      BY <1>1 DEF TypeOK
    <2>2. /\ phase' \in [Procs -> {"idle", "post", "answer", "query", "events"}]
          /\ todo' \in [Procs -> SUBSET Keys]
          /\ got' \in [Procs -> Remote \cup {None}]
          /\ mine' \in [Procs -> Tx] /\ DOMAIN out' = Procs
      BY DEF TypeOK
    <2>3. owner' \in Procs \cup {None} /\ (owner' # None => phase'[owner'] # "idle")
      BY <1>1, ProcsAssumption DEF TypeOK
    <2> QED  BY <2>1, <2>2, <2>3 DEF TypeOK
  <1>3. Tasks'
    <2>1. Held(w)' = {} /\ \A v \in Procs \ {w} : Held(v)' = Held(v)
      BY <1>1 DEF Held
    <2>2. \A v \in Procs : Held(v)' \subseteq Held(v)
      BY <2>1
    <2>3. \A v \in Procs : phase'[v] # "events" => Held(v)' = {}
      BY <2>1, <1>1 DEF Tasks
    <2>4. \A v \in Procs \ {EventsCron} :
             DOMAIN out'[v] = {} /\ \A e \in todo'[v] : todo'[v] = {e}
      BY <1>1 DEF Tasks
    <2>5. \A v \in Web : todo'[v] \subseteq Hooks
      BY <1>1 DEF Tasks, Procs
    <2>6. \A u, v \in Procs : u # v => Held(u)' \cap Held(v)' = {}
      BY <2>1 DEF Tasks
    <2>7. \A v \in Procs : \A e \in DOMAIN out'[v] :
             Sound(out[v][e])' /\ out'[v][e].state # "absent"
      BY <1>1 DEF Tasks, Sound
    <2> QED  BY <2>2, <2>3, <2>4, <2>5, <2>6, <2>7 DEF Tasks, Sound
  <1>4. Known'
    BY <1>1, BodiesAssumption DEF Known, DoneIsPaid, ChargeIsKnown, Paid, Remote, Keys
  <1> QED  BY <1>2, <1>3, <1>4

LEMMA ReleasedType ==
    ASSUME NEW w \in Procs, Released(w)
    PROVE  owner' \in {owner, None} /\ owner' # w /\ wrote' \in BOOLEAN
  <1>1. owner' \in {owner, None} /\ owner' # w
    BY ProcsAssumption DEF Released
  <1>2. wrote' \in BOOLEAN
    BY DEF Released
  <1> QED  BY <1>1, <1>2

(* The payment page and the end of a process.                               *)
LEMMA PageInv ==
    ASSUME IInv, NEW w \in Procs,
           RenderExpired(w) \/ PostAnswered(w) \/ PostFailed(w) \/ Crash(w)
    PROVE  IInv'
  <1> USE DEF IInv
  <1>1. ASSUME NEW t \in Tx, DoneIsPaid(t), ChargeIsKnown(t), CommitTx(w, t)
        PROVE  IInv'
    <2>1. tx' = t
      BY <1>1 DEF CommitTx
    <2>2. stale' \subseteq Procs /\ kills' \in 0..MaxKills
      BY <1>1 DEF CommitTx, Busy, TypeOK
    <2> QED  BY <1>1, <2>1, <2>2, ReleasedType, EndInv DEF CommitTx, provider
  <1>2. CASE RenderExpired(w)
    <2> DEFINE shown == IF tx.status = "active" THEN [tx EXCEPT !.status = "expired"] ELSE tx
    <2>1. shown \in Tx /\ shown.state = tx.state /\ shown.charge = tx.charge
      BY DEF TypeOK, Tx, Remote
    <2>2. CommitTx(w, SetCanceled(shown))
      BY <1>2 DEF RenderExpired
    <2> HIDE DEF shown
    <2>3. /\ SetCanceled(shown) \in Tx /\ SetCanceled(shown).charge = shown.charge
          /\ SetCanceled(shown).state = "done" => shown.state = "done"
      BY <2>1, AppliedType, SettersDone DEF Remote
    <2>4. DoneIsPaid(SetCanceled(shown)) /\ ChargeIsKnown(SetCanceled(shown))
      BY <2>1, <2>3 DEF Known, DoneIsPaid, ChargeIsKnown
    <2> QED  BY <1>1, <2>2, <2>3, <2>4
  <1>3. CASE PostAnswered(w)
    <2> DEFINE shown == [mine[w] EXCEPT !.charge = TRUE, !.status = "active"]
    <2>1. shown \in Tx /\ shown.state = mine[w].state
      BY DEF TypeOK, Tx, Remote
    <2>2. CommitTx(w, SetPending(shown)) /\ remote # None
      BY <1>3 DEF PostAnswered, Known
    <2>3. DoneIsPaid(mine[w])
      BY DEF Known
    <2> HIDE DEF shown
    <2>4. /\ SetPending(shown) \in Tx
          /\ SetPending(shown).state = "done" => shown.state = "done"
      BY <2>1, AppliedType, SettersDone DEF Remote
    <2>5. DoneIsPaid(SetPending(shown)) /\ ChargeIsKnown(SetPending(shown))
      BY <2>1, <2>2, <2>3, <2>4 DEF DoneIsPaid, ChargeIsKnown
    <2> QED  BY <1>1, <2>2, <2>4, <2>5
  <1>4. CASE PostFailed(w)
    <2>1. mine[w] \in Tx /\ DoneIsPaid(mine[w]) /\ ChargeIsKnown(mine[w])
      BY DEF TypeOK, Known
    <2>2. /\ SetError(mine[w]) \in Tx /\ SetError(mine[w]).charge = mine[w].charge
          /\ SetError(mine[w]).state = "done" => mine[w].state = "done"
      BY <2>1, AppliedType, SettersDone DEF Remote
    <2>3. DoneIsPaid(SetError(mine[w])) /\ ChargeIsKnown(SetError(mine[w]))
      BY <2>1, <2>2 DEF DoneIsPaid, ChargeIsKnown
    <2> QED  BY <1>1, <1>4, <2>2, <2>3 DEF PostFailed
  <1>5. CASE Crash(w)
    <2>1. stale' \subseteq Procs /\ kills' \in 0..MaxKills
      BY <1>5, BodiesAssumption DEF Crash, TypeOK
    <2>2. tx' \in Tx /\ DoneIsPaid(tx') /\ ChargeIsKnown(tx')
      BY <1>5 DEF Crash, db, TypeOK, Known
    <2> QED  BY <1>5, <2>1, <2>2, ReleasedType, EndInv DEF Crash, db, provider
  <1> QED  BY <1>2, <1>3, <1>4, <1>5

LEMMA QueryKnownInv ==
    ASSUME IInv, QueryKnown
    PROVE  IInv'
  <1>1. Reconciler \in Procs /\ tx' \in Tx /\ DoneIsPaid(tx') /\ ChargeIsKnown(tx')
    BY DEF QueryKnown, IInv, TypeOK, Known, Procs, db
  <1>2. stale' \subseteq Procs /\ kills' \in 0..MaxKills
    BY DEF QueryKnown, IInv, TypeOK
  <1> QED  BY <1>1, <1>2, ReleasedType, EndInv DEF QueryKnown, provider, db

-----------------------------------------------------------------------------
(* What Woovi and the clock do.                                             *)
LEMMA ProviderInv ==
    ASSUME IInv, Pay \/ Expire \/ Refund \/ ClockPasses
    PROVE  IInv'
  <1> USE DEF IInv
  <1>1. UNCHANGED <<db, local, locks, kills>>
    BY DEF Pay, Expire, Refund, ClockPasses, provider
  <1>2. /\ remote' \in Remote \cup {None} /\ amount' \in Amounts \cup {"right"}
        /\ late' \in BOOLEAN
        /\ remote # None => remote' # None
        /\ Paid => Paid' /\ amount' = amount
    BY BodiesAssumption
    DEF Pay, Expire, Refund, ClockPasses, provider, TypeOK, Remote, Paid, Keys
  <1>3. TypeOK'
    BY <1>1, <1>2 DEF TypeOK, db, local, locks
  <1>4. Tasks'
    BY <1>1 DEF Tasks, Held, Sound, db, local, locks
  <1>5. Known'
    BY <1>1, <1>2 DEF Known, DoneIsPaid, ChargeIsKnown, db, local
  <1> QED  BY <1>3, <1>4, <1>5

(* A call to Woovi begins or is accepted.                                   *)
LEMMA PostInv ==
    ASSUME IInv, NEW w \in Procs, RenderNew(w) \/ PostAccepted(w)
    PROVE  IInv'
  <1> USE DEF IInv
  <1>1. CASE RenderNew(w)
    <2>1. /\ phase' = [phase EXCEPT ![w] = "post"] /\ phase[w] = "idle"
          /\ mine' = [mine EXCEPT ![w] = tx] /\ owner' = w
          /\ UNCHANGED <<remote, amount, late, tx, event, todo, got, out, wrote, stale, kills>>
      BY <1>1 DEF RenderNew, provider, db
    <2>2. TypeOK'
      BY <2>1 DEF TypeOK
    <2>3. Tasks'
      BY <2>1 DEF Tasks, Held, Sound, TypeOK
    <2>4. \A v \in Procs : /\ mine'[v] \in {mine[v], tx}
                           /\ phase'[v] \in {"answer", "query"} => phase[v] = phase'[v]
      BY <2>1 DEF TypeOK
    <2>5. Known'
      BY <2>1, <2>4 DEF Known, DoneIsPaid, ChargeIsKnown, Paid
    <2> QED  BY <2>2, <2>3, <2>5
  <1>2. CASE PostAccepted(w)
    <2>1. /\ phase' = [phase EXCEPT ![w] = "answer"] /\ phase[w] = "post"
          /\ remote = None /\ remote' = "active"
          /\ UNCHANGED <<amount, late, tx, event, todo, got, mine, out, owner, wrote, stale, kills>>
      BY <1>2 DEF PostAccepted, db, locks
    <2>2. TypeOK'
      BY <2>1 DEF TypeOK, Remote
    <2>3. Tasks'
      BY <2>1 DEF Tasks, Held, Sound, TypeOK
    <2>4. ~Paid /\ remote' # None
      BY <2>1, BodiesAssumption DEF Paid, Keys, Remote
    <2>5. Known'
      BY <2>1, <2>4 DEF Known, DoneIsPaid, ChargeIsKnown, Paid
    <2> QED  BY <2>2, <2>3, <2>5
  <1> QED  BY <1>1, <1>2

(* A process begins to handle the events of S.                              *)
LEMMA BeginInv ==
    ASSUME IInv, NEW w \in Procs, NEW S \in SUBSET Keys, NEW p \in {"query", "events"},
           Begin(w, p, S), p = "query" => S = {} /\ remote # None,
           \A k \in S : event[k].state = IF w = EventsCron THEN "pending" ELSE "absent",
           w # EventsCron => \A k \in S : S = {k},
           \A v \in Procs : S \cap todo[v] = {},
           w \in Web => S \subseteq Hooks,
           "completed" \in S => Paid
    PROVE  IInv'
  <1> USE DEF IInv
  <1>1. /\ phase' = [phase EXCEPT ![w] = p] /\ phase[w] = "idle"
        /\ mine' = [mine EXCEPT ![w] = tx] /\ todo' = [todo EXCEPT ![w] = S]
        /\ UNCHANGED <<remote, amount, late, tx, event, got, out, owner, wrote, stale, kills>>
    BY DEF Begin, provider, db, locks
  <1>2. \A v \in Procs : /\ phase'[v] = IF v = w THEN p ELSE phase[v]
                         /\ mine'[v] = IF v = w THEN tx ELSE mine[v]
                         /\ todo'[v] = IF v = w THEN S ELSE todo[v]
    BY <1>1 DEF TypeOK
  <1>3. Held(w) = {} /\ Held(w)' = S /\ \A v \in Procs \ {w} : Held(v)' = Held(v)
    BY <1>1, <1>2 DEF Held, Tasks
  <1>4. TypeOK'
    BY <1>1 DEF TypeOK
  <1>5. Tasks'
    <2>1. \A v \in Procs : phase'[v] # "events" => Held(v)' = {}
      BY <1>2, <1>3 DEF Tasks
    <2>2. \A v \in Procs \ {EventsCron} :
             DOMAIN out'[v] = {} /\ \A e \in todo'[v] : todo'[v] = {e}
      BY <1>1, <1>2 DEF Tasks
    <2>3. \A v \in Web : todo'[v] \subseteq Hooks
      BY <1>2 DEF Tasks, Procs
    <2>4. \A v \in Procs : \A e \in Held(v)' :
             event'[e].state = IF v = EventsCron THEN "pending" ELSE "absent"
      BY <1>1, <1>3 DEF Tasks
    <2>5. \A v \in Procs \ {w} : S \cap Held(v) = {}
      <3> SUFFICES ASSUME NEW v \in Procs \ {w}, NEW e \in S, e \in Held(v)
                   PROVE  FALSE
        OBVIOUS
      <3>1. e \in DOMAIN out[v]
        BY DEF Held
      <3>2. v = EventsCron /\ event[e].state = "pending"
        BY <3>1 DEF Tasks, Held
      <3> QED  BY <3>2
    <2>6. \A u, v \in Procs : u # v => Held(u)' \cap Held(v)' = {}
      BY <1>3, <2>5 DEF Tasks
    <2> QED  BY <1>1, <2>1, <2>2, <2>3, <2>4, <2>6 DEF Tasks, Sound
  <1>6. Known'
    BY <1>1, <1>2 DEF Known, DoneIsPaid, ChargeIsKnown, Paid
  <1> QED  BY <1>4, <1>5, <1>6

LEMMA BeginsInv ==
    ASSUME IInv,
           \/ \E w \in Web, h \in Hooks : Deliver(w, h)
           \/ RunEventsCron \/ RunReconcile
    PROVE  IInv'
  <1>1. ASSUME NEW w \in Web, NEW h \in Hooks, Deliver(w, h)
        PROVE  IInv'
    <2>1. w \in Procs /\ w # EventsCron /\ h \in Keys /\ h # "completed"
      BY ProcsAssumption, BodiesAssumption DEF Procs, Keys, Remote
    <2> QED  BY <1>1, <2>1, BeginInv DEF Deliver
  <1>2. CASE RunEventsCron
    <2> DEFINE S == {k \in Keys : event[k].state = "pending"}
    <2>1. /\ EventsCron \in Procs /\ EventsCron \notin Web
          /\ Begin(EventsCron, "events", S)
      BY <1>2, ProcsAssumption DEF RunEventsCron, Procs
    <2>2. \A v \in Procs : S \cap todo[v] = {}
      <3>1. Held(EventsCron) = {}
        BY <2>1 DEF Begin, IInv, Tasks
      <3>2. \A v \in Procs \ {EventsCron} : \A k \in todo[v] : event[k].state = "absent"
        BY DEF IInv, Tasks, Held
      <3> QED  BY <3>1, <3>2 DEF Held
    <2>3. "completed" \in S => Paid
      BY DEF IInv, Known
    <2> HIDE DEF S
    <2>4. S \in SUBSET Keys /\ \A k \in S : event[k].state = "pending"
      BY DEF S
    <2> QED  BY <2>1, <2>2, <2>3, <2>4, BeginInv
  <1>3. CASE RunReconcile
    <2>1. Reconciler \in Procs /\ Reconciler \notin Web /\ remote # None
      BY <1>3, ProcsAssumption DEF RunReconcile, Procs, IInv, Known, ChargeIsKnown
    <2>2. Begin(Reconciler, "query", {})
      BY <1>3 DEF RunReconcile
    <2> QED  BY <2>1, <2>2, BeginInv
  <1> QED  BY <1>1, <1>2, <1>3

(* The API answers: to the reconciliation, which makes an event of it, or   *)
(* to a process that handles a webhook.                                     *)
LEMMA AnswerInv ==
    ASSUME IInv, QueryAnswered
    PROVE  IInv'
  <1> USE DEF IInv
  <1> DEFINE w == Reconciler
  <1>1. /\ phase' = [phase EXCEPT ![w] = "events"] /\ phase[w] = "query"
        /\ todo' = [todo EXCEPT ![w] = {remote}] /\ event[remote].state = "absent"
        /\ UNCHANGED <<remote, amount, late, tx, event, got, mine, out, owner, wrote, stale, kills>>
    BY DEF QueryAnswered, provider, db, locks
  <1>2. w \in Procs /\ w # EventsCron /\ w \notin Web
    BY ProcsAssumption DEF Procs
  <1>3. remote \in Remote /\ remote \in Keys /\ remote \notin Hooks
    BY <1>1, <1>2, BodiesAssumption DEF TypeOK, Known, Keys
  <1> HIDE DEF w
  <1>4. \A v \in Procs : /\ phase'[v] = IF v = w THEN "events" ELSE phase[v]
                         /\ todo'[v] = IF v = w THEN {remote} ELSE todo[v]
    BY <1>1 DEF TypeOK
  <1>5. Held(w) = {} /\ Held(w)' = {remote} /\ \A v \in Procs \ {w} : Held(v)' = Held(v)
    BY <1>1, <1>2, <1>4 DEF Held, Tasks
  <1>6. TypeOK'
    BY <1>1, <1>3 DEF TypeOK
  <1>7. Tasks'
    <2>1. \A v \in Procs : phase'[v] # "events" => Held(v)' = {}
      BY <1>4, <1>5 DEF Tasks
    <2>2. \A v \in Procs \ {EventsCron} :
             DOMAIN out'[v] = {} /\ \A e \in todo'[v] : todo'[v] = {e}
      BY <1>1, <1>4 DEF Tasks
    <2>3. \A v \in Web : todo'[v] \subseteq Hooks
      BY <1>2, <1>4 DEF Tasks, Procs
    <2>4. \A v \in Procs : \A e \in Held(v)' :
             event'[e].state = IF v = EventsCron THEN "pending" ELSE "absent"
      BY <1>1, <1>2, <1>5 DEF Tasks
    <2>5. \A v \in Procs \ {w} : remote \notin Held(v)
      <3> SUFFICES ASSUME NEW v \in Procs \ {w}, remote \in Held(v)
                   PROVE  FALSE
        OBVIOUS
      <3>1. v # EventsCron
        BY <1>1 DEF Tasks
      <3>2. v \in Web /\ remote \in todo[v]
        BY <3>1 DEF Held, Tasks, Procs, w
      <3> QED  BY <3>2, <1>3 DEF Tasks
    <2>6. \A u, v \in Procs : u # v => Held(u)' \cap Held(v)' = {}
      BY <1>5, <2>5 DEF Tasks
    <2> QED  BY <1>1, <2>1, <2>2, <2>3, <2>4, <2>6 DEF Tasks, Sound
  <1>8. Known'
    BY <1>1, <1>4, <1>3 DEF Known, DoneIsPaid, ChargeIsKnown, Paid
  <1> QED  BY <1>6, <1>7, <1>8

LEMMA QueryInv ==
    ASSUME IInv, NEW w \in Procs, NEW k \in Keys, Query(w, k)
    PROVE  IInv'
  <1> USE DEF IInv
  <1>1. /\ got' = [got EXCEPT ![w] = remote] /\ mine[w].charge
        /\ UNCHANGED <<remote, amount, late, tx, event, phase, todo, mine, out, owner, wrote, stale, kills>>
    BY DEF Query, provider, db, locks
  <1>2. remote \in Remote
    BY <1>1 DEF TypeOK, Known, ChargeIsKnown
  <1>3. TypeOK'
    BY <1>1, <1>2 DEF TypeOK
  <1>4. Tasks'
    BY <1>1 DEF Tasks, Held, Sound
  <1>5. \A v \in Procs : got'[v] \in {got[v], remote}
    BY <1>1 DEF TypeOK
  <1>6. Known'
    BY <1>1, <1>5 DEF Known, DoneIsPaid, ChargeIsKnown, Paid
  <1> QED  BY <1>3, <1>4, <1>6

-----------------------------------------------------------------------------
LEMMA StepInv == IInv /\ [Next]_vars => IInv'
  <1> SUFFICES ASSUME IInv, [Next]_vars  PROVE IInv'
    OBVIOUS
  <1>1. CASE UNCHANGED vars
    BY <1>1 DEF vars, provider, db, local, locks, IInv, TypeOK, Tasks, Known, Held, Sound,
                DoneIsPaid, ChargeIsKnown, Paid
  <1>2. CASE Pay \/ Expire \/ Refund \/ ClockPasses
    BY <1>2, ProviderInv
  <1>3. ASSUME NEW w \in Web, Render(w)
        PROVE  IInv'
    BY <1>3, PageInv, PostInv DEF Render, Procs
  <1>4. CASE \/ \E w \in Web, h \in Hooks : Deliver(w, h)
             \/ RunEventsCron \/ RunReconcile
    BY <1>4, BeginsInv
  <1>5. CASE QueryAnswered \/ QueryKnown
    BY <1>5, AnswerInv, QueryKnownInv
  <1>6. ASSUME NEW w \in Procs, HandleEvent(w)
        PROVE  IInv'
    <2> PICK k \in Keys :
           Refused(w, k) \/ Query(w, k) \/ QueryFailed(w, k) \/ Conflict(w, k) \/ Apply(w, k)
      BY <1>6 DEF HandleEvent
    <2>1. CASE QueryFailed(w, k) \/ Conflict(w, k)
      BY <2>1, RetriedInv DEF QueryFailed, Conflict, Ready, Handling
    <2> QED  BY <2>1, RefusedInv, QueryInv, ApplyInv
  <1>7. ASSUME NEW w \in Procs, Crash(w)
        PROVE  IInv'
    BY <1>7, PageInv
  <1> QED  BY <1>1, <1>2, <1>3, <1>4, <1>5, <1>6, <1>7 DEF Next

LEMMA Inductive == Spec => []IInv
  BY InitInv, StepInv, PTL DEF Spec

(* The variables keep their types, an event is never tried more than        *)
(* _MAX_ATTEMPTS times, and the row lock is held by a process at work.      *)
THEOREM TypeCorrect == Spec => []TypeOK
  BY Inductive, PTL DEF IInv

(* A transaction is done only if Woovi was paid with the right value,       *)
(* whatever webhooks arrive, and however late a stored answer is applied.   *)
THEOREM PaidSafety == Spec => []DoneMeansPaid
  <1>1. IInv => DoneMeansPaid
    BY DEF IInv, Known, DoneIsPaid, DoneMeansPaid, Received
  <1> QED  BY <1>1, Inductive, PTL

-----------------------------------------------------------------------------
(* What a payment that is known may become.                                 *)
Settled == {"completed", "refunded"}

Stays(t, u) ==
    /\ Ledger!Leads(t.state, u.state)
    /\ t.status = "completed" => u.status \in Settled
    /\ t.status = "refunded" => u.status = "refunded"
    /\ t.status \in Settled /\ u.state # t.state => u.state = "cancel"

Follows(t, u) == Stays(t, u) /\ u.charge = t.charge

(* Process w has written the row and not committed it.                      *)
Writing(w) == wrote /\ owner = w

(* Only a process at work has a snapshot that can be older than the row.    *)
StaleBusy == \A w \in stale : phase[w] # "idle"

(* What was written under the lock follows from the committed row.          *)
Writer ==
    wrote => owner # None /\ phase[owner] = "events" /\ Follows(tx, mine[owner])

(* The page creates the charge under the lock, on the row as it is.         *)
PageLocks ==
    \A w \in Procs : phase[w] \in {"post", "answer"} =>
        owner = w /\ mine[w] = tx /\ ~tx.charge

(* A process that is not stale sees the row as it is, or wrote it.          *)
Fresh ==
    \A w \in Procs : phase[w] \in {"query", "events"} /\ w \notin stale /\ ~Writing(w) =>
        mine[w] = tx

(* Nothing is known of a payment before its charge.                         *)
ChargeFirst ==
    /\ ~tx.charge => tx.status = None
    /\ \A w \in Procs :
          /\ mine[w].charge => tx.charge
          /\ ~mine[w].charge => mine[w].status = None
          /\ got[w] # None \/ phase[w] = "query" \/ todo[w] \cap Remote # {} => mine[w].charge
    /\ \A k \in Keys \cap Remote : event[k].state # "absent" => tx.charge

(* One event bears the confirmation: a committed one, and then the row      *)
(* shows it, or one that waits with the row in the process that wrote both. *)
OnceSoFar ==
    /\ \A k \in Keys : event[k].confirmed => tx.status \in Settled
    /\ \A k, l \in Keys : event[k].confirmed /\ event[l].confirmed => k = l
    /\ \A w \in Procs : \A k \in DOMAIN out[w] : out[w][k].confirmed =>
          Writing(w) /\ tx.status \notin Settled /\ mine[w].status \in Settled
    /\ \A w \in Procs : \A k, l \in DOMAIN out[w] :
          out[w][k].confirmed /\ out[w][l].confirmed => k = l

LockInv ==
    StaleBusy /\ Writer /\ PageLocks /\ Fresh /\ ChargeFirst /\ OnceSoFar

LEMMA FollowsTwice ==
    ASSUME NEW t, NEW u, NEW v, Follows(t, u), Follows(u, v)
    PROVE  Follows(t, v)
  BY DEF Follows, Stays, Settled, Ledger!Leads

LEMMA FollowsSelf == ASSUME NEW t PROVE Follows(t, t)
  BY DEF Follows, Stays, Settled, Ledger!Leads

(* The order of the statuses.                                               *)
LEMMA Ranks ==
    /\ Rank["active"] = 10 /\ Rank["error"] = 15 /\ Rank["expired"] = 20
    /\ Rank["completed"] = 30 /\ Rank["refunded"] = 40
  BY DEF Rank

(* A status that is not ignored takes nothing back (STATUS_RANK).           *)
LEMMA AppliedFollows ==
    ASSUME NEW t \in Tx, NEW s \in Remote, ~Ignored(t, s)
    PROVE  Follows(t, Applied(t, s))
  <1>1. None \notin {"completed", "refunded"}
    BY BodiesAssumption DEF Keys, Remote
  <1>2. t.status = "refunded" => s = "refunded" /\ FALSE
    <2> SUFFICES ASSUME t.status = "refunded"  PROVE FALSE
      OBVIOUS
    <2>1. ~(Rank[s] < Rank["refunded"]) /\ s # "refunded"
      BY <1>1 DEF Ignored
    <2> QED  BY <2>1, Ranks DEF Remote
  <1>3. t.status = "completed" => s = "refunded"
    <2> SUFFICES ASSUME t.status = "completed"  PROVE s = "refunded"
      OBVIOUS
    <2>1. ~(Rank[s] < Rank["completed"]) /\ s # "completed"
      BY <1>1 DEF Ignored
    <2> QED  BY <2>1, Ranks DEF Remote
  <1>4. Applied(t, s).charge = t.charge
    BY AppliedType
  <1>5. /\ Ledger!Leads(t.state, Applied(t, s).state)
        /\ s = "refunded" => Applied(t, s).state = t.state
    BY DEF Applied, Confirmed, SetPending, SetCanceled, SetError, SetDone, Moved, Tx, Remote,
           Ledger!Leads
  <1>6. s = "refunded" => Applied(t, s).status = "refunded"
    BY DEF Applied, Tx
  <1> QED  BY <1>2, <1>3, <1>4, <1>5, <1>6 DEF Follows, Stays, Settled, Ledger!Leads

(* A confirmation is the first.                                             *)
LEMMA ConfirmedFirst ==
    ASSUME NEW t \in Tx, ~Ignored(t, "completed"), amount = "right"
    PROVE  t.status \notin Settled /\ Applied(t, "completed").status = "completed"
  <1>1. None \notin {"completed", "refunded"}
    BY BodiesAssumption DEF Keys, Remote
  <1>2. t.status \notin Settled
    BY <1>1, Ranks DEF Ignored, Settled
  <1>3. Applied(t, "completed").status = "completed"
    BY DEF Applied, Confirmed, SetDone, Moved, Tx, Remote
  <1> QED  BY <1>2, <1>3

(* The setters of the page take nothing back.                               *)
LEMMA SettersStay ==
    ASSUME NEW t \in Tx
    PROVE  /\ Follows(t, SetCanceled(t))
           /\ t.status \notin Settled => Follows(t, SetPending(t)) /\ Follows(t, SetError(t))
           /\ SetPending(t).status = t.status /\ SetCanceled(t).status = t.status
           /\ SetError(t).status = t.status
  BY DEF SetPending, SetCanceled, SetError, Moved, Tx, Follows, Stays, Settled, Ledger!Leads

-----------------------------------------------------------------------------
LEMMA LockInit == Init => LockInv
  <1> SUFFICES ASSUME Init  PROVE LockInv
    OBVIOUS
  <1>1. NewTx.charge = FALSE /\ NewTx.status = None
    BY DEF NewTx
  <1>2. StaleBusy /\ Writer /\ PageLocks /\ Fresh
    BY DEF Init, StaleBusy, Writer, PageLocks, Fresh
  <1>3. ChargeFirst
    BY <1>1 DEF Init, ChargeFirst, Keys
  <1>4. OnceSoFar
    BY DEF Init, OnceSoFar
  <1> QED  BY <1>2, <1>3, <1>4 DEF LockInv

-----------------------------------------------------------------------------
(* The event handled is the first that confirms.                            *)
First(w, t) ==
    /\ tx.status \notin Settled /\ t.status \in Settled
    /\ \A e \in DOMAIN out[w] : ~out[w][e].confirmed

(* The last event of a process commits the row if it was written.           *)
LEMMA LastLock ==
    ASSUME IInv, LockInv, NEW w \in Procs, NEW k \in todo[w], NEW t \in Tx, NEW r \in Event,
           NEW dirty \in BOOLEAN, SettleLast(w, k, r, t, dirty),
           Follows(mine[w], t), ~t.charge => t.status = None,
           dirty => Follows(tx, t) /\ Free(w),
           ~dirty => ~Writing(w),
           r.confirmed => dirty /\ First(w, t)
    PROVE  LockInv' /\ Stays(tx, tx')
  <1> USE DEF IInv, LockInv, SettleLast
  <1>0. w # None /\ k \in Keys
    BY ProcsAssumption DEF TypeOK
  <1>1. /\ \A v \in Procs \ {w} : /\ phase'[v] = phase[v] /\ todo'[v] = todo[v]
                                  /\ got'[v] = got[v] /\ mine'[v] = mine[v]
                                  /\ out'[v] = out[v]
        /\ phase'[w] = "idle" /\ todo'[w] = {} /\ got'[w] = None /\ mine'[w] = NewTx
        /\ DOMAIN out'[w] = {}
    <2>1. \A v \in Procs : /\ phase'[v] = IF v = w THEN "idle" ELSE phase[v]
                           /\ todo'[v] = IF v = w THEN {} ELSE todo[v]
                           /\ got'[v] = IF v = w THEN None ELSE got[v]
                           /\ mine'[v] = IF v = w THEN NewTx ELSE mine[v]
                           /\ out'[v] = IF v = w THEN <<>> ELSE out[v]
      BY DEF End, TypeOK
    <2> QED  BY <2>1
  <1>2. /\ owner' = IF owner = w THEN None ELSE owner
        /\ wrote' = (wrote /\ owner # w)
        /\ \A v \in Procs \ {w} : Writing(v)' = Writing(v)
        /\ ~Writing(w)'
    BY <1>0 DEF Released, Writing
  <1>3. /\ tx' = IF dirty THEN t ELSE tx
        /\ stale' = (IF dirty THEN stale \cup Busy(w) ELSE stale) \ {w}
    OBVIOUS
  <1>4. dirty => \A v \in Procs \ {w} : owner # v /\ ~Writing(v)
    BY <1>0, ProcsAssumption DEF Free, Writing
  <1>5. Follows(tx, tx')
    BY <1>3, FollowsSelf
  <1>6. StaleBusy'
    BY <1>1, <1>3 DEF StaleBusy, Busy, TypeOK
  <1>7. Writer'
    <2> SUFFICES ASSUME wrote'  PROVE owner' # None /\ phase'[owner'] = "events" /\ Follows(tx', mine'[owner'])
      BY DEF Writer
    <2>1. wrote /\ owner # w /\ owner' = owner /\ owner # None
      BY <1>2 DEF Writer
    <2>2. ~dirty
      BY <2>1 DEF Free
    <2>3. tx' = tx /\ owner \in Procs \ {w}
      BY <2>1, <2>2, <1>3 DEF TypeOK
    <2> QED  BY <2>1, <2>3, <1>1 DEF Writer
  <1>8. PageLocks'
    <2> SUFFICES ASSUME NEW v \in Procs, phase'[v] \in {"post", "answer"}
                 PROVE  owner' = v /\ mine'[v] = tx' /\ ~tx'.charge
      BY DEF PageLocks
    <2>1. v # w /\ phase[v] = phase'[v]
      BY <1>1
    <2>2. owner = v /\ mine[v] = tx /\ ~tx.charge
      BY <2>1 DEF PageLocks
    <2>3. ~dirty
      BY <2>1, <2>2, <1>4
    <2> QED  BY <2>1, <2>2, <2>3, <1>1, <1>2, <1>3
  <1>9. Fresh'
    <2> SUFFICES ASSUME NEW v \in Procs, phase'[v] \in {"query", "events"}, v \notin stale',
                        ~Writing(v)'
                 PROVE  mine'[v] = tx'
      BY DEF Fresh
    <2>1. v # w /\ phase[v] = phase'[v]
      BY <1>1
    <2>2. v \in Busy(w)
      BY <2>1 DEF Busy
    <2>3. ~dirty /\ v \notin stale
      BY <2>1, <2>2, <1>3
    <2> QED  BY <2>1, <2>3, <1>1, <1>2, <1>3 DEF Fresh
  <1>10. ChargeFirst'
    <2>1. tx'.charge = tx.charge /\ (~tx'.charge => tx'.status = None)
      BY <1>3, <1>5 DEF Follows, ChargeFirst
    <2>2. \A v \in Procs :
             /\ mine'[v].charge => tx'.charge
             /\ ~mine'[v].charge => mine'[v].status = None
             /\ (got'[v] # None \/ phase'[v] = "query" \/ todo'[v] \cap Remote # {}) => mine'[v].charge
      <3> SUFFICES ASSUME NEW v \in Procs
                   PROVE  /\ mine'[v].charge => tx'.charge
                          /\ ~mine'[v].charge => mine'[v].status = None
                          /\ (got'[v] # None \/ phase'[v] = "query" \/ todo'[v] \cap Remote # {})
                                 => mine'[v].charge
        OBVIOUS
      <3>1. CASE v = w
        BY <3>1, <1>1 DEF NewTx
      <3>2. CASE v # w
        BY <3>2, <1>1, <2>1 DEF ChargeFirst
      <3> QED  BY <3>1, <3>2
    <2>3. \A e \in Keys \cap Remote : event'[e].state # "absent" => tx'.charge
      <3> SUFFICES ASSUME NEW e \in Keys \cap Remote, event'[e].state # "absent"
                   PROVE  tx.charge
        BY <2>1
      <3>1. CASE e = k
        BY <3>1 DEF ChargeFirst
      <3>2. CASE e # k /\ e \in DOMAIN out[w]
        <4>1. event[e].state = "pending"
          BY <3>2 DEF Tasks, Held
        <4> QED  BY <4>1 DEF ChargeFirst
      <3>3. CASE e # k /\ e \notin DOMAIN out[w]
        BY <3>3 DEF ChargeFirst
      <3> QED  BY <3>1, <3>2, <3>3
    <2> QED  BY <2>1, <2>2, <2>3 DEF ChargeFirst
  <1>11. OnceSoFar'
    <2>1. /\ event'[k] = r
          /\ \A e \in Keys : e # k => event'[e] = IF e \in DOMAIN out[w] THEN out[w][e] ELSE event[e]
      BY <1>0
    <2>2. \A e \in DOMAIN out[w] : out[w][e].confirmed =>
             /\ dirty /\ tx.status \notin Settled /\ tx'.status \in Settled
      BY <1>3 DEF OnceSoFar, Follows, Stays, Settled, Ledger!Leads
    <2>3. r.confirmed => tx.status \notin Settled /\ tx'.status \in Settled
      BY <1>3 DEF First
    <2>4. tx.status \in Settled => tx'.status \in Settled
      BY <1>5 DEF Follows, Stays, Settled, Ledger!Leads
    <2>5. \A e \in Keys : event'[e].confirmed => tx'.status \in Settled
      BY <2>1, <2>2, <2>3, <2>4 DEF OnceSoFar
    <2>6. \A d, e \in Keys : event'[d].confirmed /\ event'[e].confirmed => d = e
      <3> SUFFICES ASSUME NEW d \in Keys, NEW e \in Keys, event'[d].confirmed, event'[e].confirmed
                   PROVE  d = e
        OBVIOUS
      <3>1. CASE tx.status \in Settled
        BY <3>1, <2>1, <2>2, <2>3 DEF OnceSoFar
      <3>2. CASE tx.status \notin Settled
        <4>1. ~event[d].confirmed /\ ~event[e].confirmed
          BY <3>2 DEF OnceSoFar
        <4>2. CASE r.confirmed
          BY <4>1, <4>2, <2>1 DEF First
        <4>3. CASE ~r.confirmed
          BY <4>1, <4>3, <2>1 DEF OnceSoFar
        <4> QED  BY <4>2, <4>3
      <3> QED  BY <3>1, <3>2
    <2>7. \A v \in Procs : \A e \in DOMAIN out'[v] : out'[v][e].confirmed =>
             Writing(v)' /\ tx'.status \notin Settled /\ mine'[v].status \in Settled
      <3> SUFFICES ASSUME NEW v \in Procs, NEW e \in DOMAIN out'[v], out'[v][e].confirmed
                   PROVE  Writing(v)' /\ tx'.status \notin Settled /\ mine'[v].status \in Settled
        OBVIOUS
      <3>1. v # w /\ out'[v] = out[v]
        BY <1>1
      <3>2. Writing(v) /\ tx.status \notin Settled /\ mine[v].status \in Settled
        BY <3>1 DEF OnceSoFar
      <3> QED  BY <3>1, <3>2, <1>1, <1>2, <1>3, <1>4
    <2>8. \A v \in Procs : \A d, e \in DOMAIN out'[v] :
             out'[v][d].confirmed /\ out'[v][e].confirmed => d = e
      BY <1>1 DEF OnceSoFar
    <2> QED  BY <2>5, <2>6, <2>7, <2>8 DEF OnceSoFar
  <1> QED  BY <1>5, <1>6, <1>7, <1>8, <1>9, <1>10, <1>11 DEF Follows

(* An event that is not the last leaves the row to the process.             *)
LEMMA OneLock ==
    ASSUME IInv, LockInv, NEW w \in Procs, NEW k \in todo[w], NEW t \in Tx, NEW r \in Event,
           SettleOne(w, k, r, t),
           Follows(mine[w], t), ~t.charge => t.status = None,
           owner' = owner \/ (owner = None /\ owner' = w),
           wrote' \in BOOLEAN,
           \A v \in Procs \ {w} : Writing(v)' = Writing(v),
           wrote' => owner' # None,
           Writing(w)' => Follows(tx, t),
           ~Writing(w)' => ~Writing(w) /\ t = mine[w],
           r.confirmed => Writing(w)' /\ First(w, t)
    PROVE  LockInv' /\ Stays(tx, tx')
  <1> USE DEF IInv, LockInv, SettleOne, db
  <1>0. k \in Keys /\ phase[w] = "events" /\ w # None
    BY Handled, ProcsAssumption
  <1>1. /\ \A v \in Procs \ {w} : /\ todo'[v] = todo[v] /\ got'[v] = got[v]
                                  /\ mine'[v] = mine[v] /\ out'[v] = out[v]
        /\ todo'[w] = todo[w] \ {k} /\ got'[w] = None /\ mine'[w] = t
        /\ DOMAIN out'[w] = DOMAIN out[w] \cup {k}
        /\ \A e \in DOMAIN out'[w] : out'[w][e] = IF e = k THEN r ELSE out[w][e]
        /\ tx' = tx /\ event' = event /\ phase' = phase /\ stale' = stale
    BY DEF TypeOK
  <1>2. StaleBusy'
    BY <1>1 DEF StaleBusy
  <1>3. Writer'
    <2> SUFFICES ASSUME wrote'  PROVE owner' # None /\ phase'[owner'] = "events" /\ Follows(tx', mine'[owner'])
      BY DEF Writer
    <2>1. CASE owner' = w
      BY <2>1, <1>0, <1>1 DEF Writing
    <2>2. CASE owner' # w
      <3>1. owner' = owner /\ owner # None /\ owner \in Procs \ {w}
        BY <2>2 DEF TypeOK
      <3>2. Writing(owner)' = Writing(owner)
        BY <3>1
      <3>3. wrote
        BY <3>1, <3>2 DEF Writing
      <3> QED  BY <3>1, <3>3, <1>1 DEF Writer
    <2> QED  BY <2>1, <2>2
  <1>4. PageLocks'
    <2> SUFFICES ASSUME NEW v \in Procs, phase'[v] \in {"post", "answer"}
                 PROVE  owner' = v /\ mine'[v] = tx' /\ ~tx'.charge
      BY DEF PageLocks
    <2>1. v # w /\ phase[v] = phase'[v] /\ v # None
      BY <1>0, <1>1, ProcsAssumption
    <2> QED  BY <2>1, <1>1 DEF PageLocks
  <1>5. Fresh'
    <2> SUFFICES ASSUME NEW v \in Procs, phase'[v] \in {"query", "events"}, v \notin stale',
                        ~Writing(v)'
                 PROVE  mine'[v] = tx'
      BY DEF Fresh
    <2>1. mine'[v] = mine[v] /\ ~Writing(v)
      BY <1>1
    <2> QED  BY <2>1, <1>1 DEF Fresh
  <1>6. ChargeFirst'
    <2>1. t.charge = mine[w].charge
      BY DEF Follows
    <2>2. \A v \in Procs :
             /\ mine'[v].charge => tx'.charge
             /\ ~mine'[v].charge => mine'[v].status = None
             /\ (got'[v] # None \/ phase'[v] = "query" \/ todo'[v] \cap Remote # {}) => mine'[v].charge
      <3> SUFFICES ASSUME NEW v \in Procs
                   PROVE  /\ mine'[v].charge => tx'.charge
                          /\ ~mine'[v].charge => mine'[v].status = None
                          /\ (got'[v] # None \/ phase'[v] = "query" \/ todo'[v] \cap Remote # {})
                                 => mine'[v].charge
        OBVIOUS
      <3>1. CASE v = w
        BY <3>1, <1>0, <1>1, <2>1 DEF ChargeFirst
      <3>2. CASE v # w
        BY <3>2, <1>1 DEF ChargeFirst
      <3> QED  BY <3>1, <3>2
    <2> QED  BY <1>1, <2>2 DEF ChargeFirst
  <1>7. OnceSoFar'
    <2>1. \A v \in Procs : \A e \in DOMAIN out'[v] : out'[v][e].confirmed =>
             Writing(v)' /\ tx'.status \notin Settled /\ mine'[v].status \in Settled
      <3> SUFFICES ASSUME NEW v \in Procs, NEW e \in DOMAIN out'[v], out'[v][e].confirmed
                   PROVE  Writing(v)' /\ tx'.status \notin Settled /\ mine'[v].status \in Settled
        OBVIOUS
      <3>1. CASE v # w
        BY <3>1, <1>1 DEF OnceSoFar
      <3>2. CASE v = w /\ e = k
        BY <3>2, <1>1 DEF First
      <3>3. CASE v = w /\ e # k
        <4>1. e \in DOMAIN out[w] /\ out[w][e].confirmed
          BY <3>3, <1>1
        <4>2. Writing(w) /\ tx.status \notin Settled /\ mine[w].status \in Settled
          BY <4>1 DEF OnceSoFar
        <4> QED  BY <3>3, <4>2, <1>1 DEF Follows, Stays, Settled, Ledger!Leads
      <3> QED  BY <3>1, <3>2, <3>3
    <2>2. \A v \in Procs : \A d, e \in DOMAIN out'[v] :
             out'[v][d].confirmed /\ out'[v][e].confirmed => d = e
      <3> SUFFICES ASSUME NEW v \in Procs, NEW d \in DOMAIN out'[v], NEW e \in DOMAIN out'[v],
                          out'[v][d].confirmed, out'[v][e].confirmed
                   PROVE  d = e
        OBVIOUS
      <3>1. CASE v # w
        BY <3>1, <1>1 DEF OnceSoFar
      <3>2. CASE v = w /\ r.confirmed
        BY <3>2, <1>1 DEF First
      <3>3. CASE v = w /\ ~r.confirmed
        BY <3>3, <1>1 DEF OnceSoFar
      <3> QED  BY <3>1, <3>2, <3>3
    <2> QED  BY <1>1, <2>1, <2>2 DEF OnceSoFar
  <1>8. Stays(tx, tx')
    BY <1>1 DEF Stays, Settled, Ledger!Leads
  <1> QED  BY <1>2, <1>3, <1>4, <1>5, <1>6, <1>7, <1>8

LEMMA SettleLock ==
    ASSUME IInv, LockInv, NEW w \in Procs, NEW k \in todo[w], NEW r \in Event,
           ~r.confirmed, Settle(w, k, r)
    PROVE  LockInv' /\ Stays(tx, tx')
  <1>1. mine[w] \in Tx /\ Follows(mine[w], mine[w]) /\ (~mine[w].charge => mine[w].status = None)
    BY Handled, FollowsSelf DEF LockInv, ChargeFirst
  <1>2. Writing(w) => Follows(tx, mine[w])
    BY DEF Writing, LockInv, Writer
  <1>3. CASE SettleLast(w, k, r, mine[w], wrote /\ owner = w)
    <2> DEFINE dirty == wrote /\ owner = w
    <2>1. dirty \in BOOLEAN /\ (dirty <=> Writing(w)) /\ (dirty => Free(w))
      BY DEF Writing, Free
    <2> HIDE DEF dirty
    <2>2. SettleLast(w, k, r, mine[w], dirty)
      BY <1>3 DEF dirty
    <2> QED  BY <1>1, <1>2, <2>1, <2>2, LastLock
  <1>4. CASE SettleOne(w, k, r, mine[w]) /\ UNCHANGED <<owner, wrote>>
    <2>1. wrote' \in BOOLEAN /\ owner' = owner /\ (wrote' => owner' # None)
      BY <1>4 DEF IInv, TypeOK, LockInv, Writer
    <2>2. \A v \in Procs : Writing(v)' = Writing(v)
      BY <1>4 DEF Writing
    <2> QED  BY <1>1, <1>2, <1>4, <2>1, <2>2, OneLock
  <1> QED  BY <1>3, <1>4 DEF Settle

LEMMA ClosedRow ==
    ASSUME NEW r \in Event, NEW s \in {"pending", "done", "ignored", "rejected", "failed"}
    PROVE  Closed(r, s) \in Event /\ ~Closed(r, s).confirmed
  BY DEF Closed, Event

LEMMA EndsLock ==
    ASSUME IInv, LockInv, NEW w \in Procs, NEW k \in Keys,
           Refused(w, k) \/ QueryFailed(w, k) \/ Conflict(w, k)
    PROVE  LockInv' /\ Stays(tx, tx')
  <1>1. k \in todo[w]
    BY DEF Refused, QueryFailed, Conflict, Ready, Handling
  <1>2. event[k] \in Event
    BY <1>1, Handled
  <1>3. \E s \in {"pending", "ignored", "rejected", "failed"} : Settle(w, k, Closed(event[k], s))
    BY DEF Refused, QueryFailed, Conflict, Retried
  <1> QED  BY <1>1, <1>2, <1>3, ClosedRow, SettleLock

(* A status is applied under the lock, on the row as it is.                 *)
LEMMA ApplyLock ==
    ASSUME IInv, LockInv, NEW w \in Procs, NEW k \in Keys, Apply(w, k)
    PROVE  LockInv' /\ Stays(tx, tx')
  <1> DEFINE s == Trusted(w, k)
             outcome == Outcome(mine[w], s)
             writes == outcome \in {"done", "rejected"}
             t == IF writes THEN Applied(mine[w], s) ELSE mine[w]
             r == [Closed(event[k], outcome)
                   EXCEPT !.confirmed = (outcome = "done" /\ s = "completed")]
             dirty == writes \/ (wrote /\ owner = w)
  <1>1. /\ k \in todo[w] /\ (k \in Hooks => got[w] # None)
        /\ Free(w) /\ w \notin stale
        /\ \/ SettleLast(w, k, r, t, dirty)
           \/ /\ SettleOne(w, k, r, t) /\ wrote' = dirty
              /\ owner' = IF outcome = "failed" THEN owner ELSE w
    BY DEF Apply, Ready, Handling
  <1>2. s \in Remote /\ mine[w].charge
    <2>1. CASE k \in Hooks
      BY <2>1, <1>1 DEF Trusted, IInv, TypeOK, LockInv, ChargeFirst
    <2>2. CASE k \notin Hooks
      <3>1. k \in Remote
        BY <2>2 DEF Keys
      <3> QED  BY <3>1, <2>2, <1>1 DEF Trusted, LockInv, ChargeFirst
    <2> QED  BY <2>1, <2>2
  <1>3. mine[w] \in Tx /\ event[k] \in Event /\ phase[w] = "events"
    BY <1>1, Handled
  <1>4. Follows(tx, mine[w])
    <2>1. CASE Writing(w)
      BY <2>1 DEF Writing, LockInv, Writer
    <2>2. CASE ~Writing(w)
      BY <2>2, <1>1, <1>3, FollowsSelf DEF LockInv, Fresh
    <2> QED  BY <2>1, <2>2
  <1>5. outcome \in {"ignored", "failed", "rejected", "done"}
    BY DEF Outcome
  <1>6. t \in Tx /\ Follows(mine[w], t)
    <2>1. CASE writes
      <3>1. ~Ignored(mine[w], s)
        BY <2>1 DEF Outcome
      <3> QED  BY <2>1, <3>1, <1>2, <1>3, AppliedType, AppliedFollows
    <2>2. CASE ~writes
      BY <2>2, <1>3, FollowsSelf
    <2> QED  BY <2>1, <2>2
  <1>7. Follows(tx, t) /\ t.charge
    BY <1>2, <1>4, <1>6, FollowsTwice DEF Follows
  <1>8. r \in Event /\ (r.confirmed <=> (outcome = "done" /\ s = "completed"))
    <2>1. Closed(event[k], outcome) \in Event
      BY <1>3, <1>5, ClosedRow
    <2> HIDE DEF outcome, s
    <2> QED  BY <2>1 DEF Event
  <1>9. r.confirmed => dirty /\ First(w, t)
    <2> SUFFICES ASSUME outcome = "done", s = "completed"  PROVE First(w, t)
      BY <1>8
    <2>1. ~Ignored(mine[w], "completed") /\ amount # "wrong" /\ amount # "missing"
      BY DEF Outcome, NoValue
    <2>2. amount = "right"
      BY <2>1, BodiesAssumption DEF IInv, TypeOK
    <2>3. mine[w].status \notin Settled /\ Applied(mine[w], "completed").status = "completed"
      BY <1>3, <2>1, <2>2, ConfirmedFirst
    <2>4. t.status \in Settled
      BY <2>3 DEF Settled
    <2>5. tx.status \notin Settled
      BY <1>4, <2>3 DEF Follows, Stays, Settled, Ledger!Leads
    <2>6. \A e \in DOMAIN out[w] : ~out[w][e].confirmed
      BY <2>3 DEF LockInv, OnceSoFar
    <2> HIDE DEF t
    <2> QED  BY <2>4, <2>5, <2>6 DEF First
  <1>10. dirty \in BOOLEAN /\ (~dirty => ~Writing(w) /\ t = mine[w]) /\ (writes => dirty)
    BY DEF Writing
  <1>11. CASE SettleLast(w, k, r, t, dirty)
    <2> HIDE DEF t, r, dirty
    <2> QED  BY <1>1, <1>6, <1>7, <1>8, <1>9, <1>10, <1>11, LastLock
  <1>12. CASE /\ SettleOne(w, k, r, t) /\ wrote' = dirty
              /\ owner' = IF outcome = "failed" THEN owner ELSE w
    <2>1. w # None /\ owner \in {None, w} /\ owner' \in {owner, w}
      BY <1>1, <1>12, ProcsAssumption DEF Free
    <2>2. dirty => owner' = w
      <3>1. CASE writes
        BY <3>1, <1>12
      <3>2. CASE ~writes
        BY <3>2, <1>12
      <3> QED  BY <3>1, <3>2
    <2>3. Writing(w)' <=> dirty
      BY <1>12, <2>2 DEF Writing
    <2>4. \A v \in Procs \ {w} : Writing(v)' = Writing(v)
      <3> SUFFICES ASSUME NEW v \in Procs \ {w}  PROVE ~(owner = v) /\ ~(owner' = v)
        BY DEF Writing
      <3> QED  BY <2>1, ProcsAssumption
    <2>5. SettleOne(w, k, r, t) /\ wrote' = dirty
      BY <1>12
    <2> HIDE DEF t, r, dirty, outcome
    <2>6. wrote' \in BOOLEAN /\ (wrote' => owner' # None)
      BY <2>1, <2>2, <2>5, <1>10
    <2>7. owner' = owner \/ (owner = None /\ owner' = w)
      BY <2>1
    <2>8. /\ Writing(w)' => Follows(tx, t)
          /\ ~Writing(w)' => ~Writing(w) /\ t = mine[w]
          /\ r.confirmed => Writing(w)' /\ First(w, t)
          /\ ~t.charge => t.status = None
      BY <2>3, <1>7, <1>9, <1>10
    <2> QED  BY <1>1, <1>6, <1>8, <2>4, <2>5, <2>6, <2>7, <2>8, OneLock
  <1> QED  BY <1>1, <1>11, <1>12

-----------------------------------------------------------------------------
(* A process ends; the row is as it was, or written at once.                *)
Written(w) ==
    /\ Free(w) /\ Stays(tx, tx')
    /\ tx.charge => tx'.charge
    /\ ~tx'.charge => tx'.status = None
    /\ stale' = (stale \cup Busy(w)) \ {w}

LEMMA EndLock ==
    ASSUME IInv, LockInv, NEW w \in Procs, End(w), Released(w), event' = event,
           (tx' = tx /\ stale' = stale \ {w}) \/ Written(w)
    PROVE  LockInv' /\ Stays(tx, tx')
  <1> USE DEF IInv, LockInv
  <1>0. w # None
    BY ProcsAssumption
  <1>1. /\ \A v \in Procs \ {w} : /\ phase'[v] = phase[v] /\ todo'[v] = todo[v]
                                  /\ got'[v] = got[v] /\ mine'[v] = mine[v]
                                  /\ out'[v] = out[v]
        /\ phase'[w] = "idle" /\ todo'[w] = {} /\ got'[w] = None /\ mine'[w] = NewTx
        /\ DOMAIN out'[w] = {}
    <2>1. \A v \in Procs : /\ phase'[v] = IF v = w THEN "idle" ELSE phase[v]
                           /\ todo'[v] = IF v = w THEN {} ELSE todo[v]
                           /\ got'[v] = IF v = w THEN None ELSE got[v]
                           /\ mine'[v] = IF v = w THEN NewTx ELSE mine[v]
                           /\ out'[v] = IF v = w THEN <<>> ELSE out[v]
      BY DEF End, TypeOK
    <2> QED  BY <2>1
  <1>2. /\ owner' = IF owner = w THEN None ELSE owner
        /\ wrote' = (wrote /\ owner # w)
        /\ \A v \in Procs \ {w} : Writing(v)' = Writing(v)
        /\ ~Writing(w)'
    BY <1>0 DEF Released, Writing
  <1>3. \A v \in Procs \ {w} : tx' = tx \/ (owner # v /\ ~Writing(v))
    BY ProcsAssumption DEF Written, Free, Writing
  <1>4. /\ Stays(tx, tx') /\ (tx.charge => tx'.charge)
        /\ ~tx'.charge => tx'.status = None
    BY FollowsSelf DEF Written, ChargeFirst, Follows
  <1>5. StaleBusy'
    BY <1>1 DEF StaleBusy, Busy, Written, TypeOK
  <1>6. Writer'
    <2> SUFFICES ASSUME wrote'  PROVE owner' # None /\ phase'[owner'] = "events" /\ Follows(tx', mine'[owner'])
      BY DEF Writer
    <2>1. wrote /\ owner # w /\ owner' = owner /\ owner # None
      BY <1>2 DEF Writer
    <2>2. owner \in Procs \ {w} /\ tx' = tx
      BY <2>1, <1>3 DEF TypeOK
    <2> QED  BY <2>1, <2>2, <1>1 DEF Writer
  <1>7. PageLocks'
    <2> SUFFICES ASSUME NEW v \in Procs, phase'[v] \in {"post", "answer"}
                 PROVE  owner' = v /\ mine'[v] = tx' /\ ~tx'.charge
      BY DEF PageLocks
    <2>1. v # w /\ phase[v] = phase'[v]
      BY <1>1
    <2>2. owner = v /\ mine[v] = tx /\ ~tx.charge
      BY <2>1 DEF PageLocks
    <2> QED  BY <2>1, <2>2, <1>1, <1>2, <1>3
  <1>8. Fresh'
    <2> SUFFICES ASSUME NEW v \in Procs, phase'[v] \in {"query", "events"}, v \notin stale',
                        ~Writing(v)'
                 PROVE  mine'[v] = tx'
      BY DEF Fresh
    <2>1. v # w /\ phase[v] = phase'[v]
      BY <1>1
    <2>2. v \in Busy(w)
      BY <2>1 DEF Busy
    <2>3. tx' = tx /\ v \notin stale
      BY <2>1, <2>2 DEF Written
    <2> QED  BY <2>1, <2>3, <1>1, <1>2 DEF Fresh
  <1>9. ChargeFirst'
    <2>1. \A v \in Procs :
             /\ mine'[v].charge => tx'.charge
             /\ ~mine'[v].charge => mine'[v].status = None
             /\ (got'[v] # None \/ phase'[v] = "query" \/ todo'[v] \cap Remote # {}) => mine'[v].charge
      <3> SUFFICES ASSUME NEW v \in Procs
                   PROVE  /\ mine'[v].charge => tx'.charge
                          /\ ~mine'[v].charge => mine'[v].status = None
                          /\ (got'[v] # None \/ phase'[v] = "query" \/ todo'[v] \cap Remote # {})
                                 => mine'[v].charge
        OBVIOUS
      <3>1. CASE v = w
        BY <3>1, <1>1 DEF NewTx
      <3>2. CASE v # w
        BY <3>2, <1>1, <1>4 DEF ChargeFirst
      <3> QED  BY <3>1, <3>2
    <2> QED  BY <1>4, <2>1 DEF ChargeFirst
  <1>10. OnceSoFar'
    <2>1. tx.status \in Settled => tx'.status \in Settled
      BY <1>4 DEF Stays, Settled, Ledger!Leads
    <2>2. \A v \in Procs : \A e \in DOMAIN out'[v] : out'[v][e].confirmed =>
             Writing(v)' /\ tx'.status \notin Settled /\ mine'[v].status \in Settled
      <3> SUFFICES ASSUME NEW v \in Procs, NEW e \in DOMAIN out'[v], out'[v][e].confirmed
                   PROVE  Writing(v)' /\ tx'.status \notin Settled /\ mine'[v].status \in Settled
        OBVIOUS
      <3>1. v # w /\ out'[v] = out[v]
        BY <1>1
      <3>2. Writing(v) /\ tx.status \notin Settled /\ mine[v].status \in Settled
        BY <3>1 DEF OnceSoFar
      <3> QED  BY <3>1, <3>2, <1>1, <1>2, <1>3
    <2>3. \A v \in Procs : \A d, e \in DOMAIN out'[v] :
             out'[v][d].confirmed /\ out'[v][e].confirmed => d = e
      BY <1>1 DEF OnceSoFar
    <2> QED  BY <2>1, <2>2, <2>3 DEF OnceSoFar
  <1> QED  BY <1>4, <1>5, <1>6, <1>7, <1>8, <1>9, <1>10

LEMMA PageLock ==
    ASSUME IInv, LockInv, NEW w \in Procs,
           RenderExpired(w) \/ PostAnswered(w) \/ PostFailed(w) \/ Crash(w)
    PROVE  LockInv' /\ Stays(tx, tx')
  <1> USE DEF IInv, LockInv
  <1>1. ASSUME NEW t, CommitTx(w, t), Free(w), Stays(tx, t), tx.charge => t.charge,
               ~t.charge => t.status = None
        PROVE  LockInv' /\ Stays(tx, tx')
    <2>1. Written(w) /\ End(w) /\ Released(w) /\ event' = event
      BY <1>1 DEF CommitTx, Written
    <2> QED  BY <2>1, EndLock
  <1>2. CASE RenderExpired(w)
    <2> DEFINE shown == IF tx.status = "active" THEN [tx EXCEPT !.status = "expired"] ELSE tx
    <2>1. /\ shown \in Tx /\ shown.state = tx.state /\ shown.charge = tx.charge
          /\ tx.status \in Settled => shown.status = tx.status
      BY DEF TypeOK, Tx, Remote, Settled
    <2>2. CommitTx(w, SetCanceled(shown)) /\ Free(w) /\ tx.charge
      BY <1>2 DEF RenderExpired, Free
    <2> HIDE DEF shown
    <2>3. Follows(shown, SetCanceled(shown)) /\ SetCanceled(shown).status = shown.status
      BY <2>1, SettersStay
    <2>4. Stays(tx, SetCanceled(shown)) /\ SetCanceled(shown).charge
      BY <2>1, <2>2, <2>3 DEF Follows, Stays, Settled, Ledger!Leads
    <2> QED  BY <1>1, <2>2, <2>4
  <1>3. CASE PostAnswered(w)
    <2> DEFINE shown == [mine[w] EXCEPT !.charge = TRUE, !.status = "active"]
    <2>1. owner = w /\ mine[w] = tx /\ ~tx.charge /\ tx.status = None
      BY <1>3 DEF PostAnswered, PageLocks, ChargeFirst
    <2>2. shown \in Tx /\ shown.state = tx.state /\ shown.charge /\ shown.status \notin Settled
      BY <2>1 DEF TypeOK, Tx, Remote, Settled
    <2>3. CommitTx(w, SetPending(shown)) /\ Free(w)
      BY <1>3, <2>1 DEF PostAnswered, Free
    <2> HIDE DEF shown
    <2>4. Follows(shown, SetPending(shown))
      BY <2>2, SettersStay
    <2>5. tx.status \notin Settled
      BY <2>1, BodiesAssumption DEF Settled, Keys, Remote
    <2>6. Stays(tx, SetPending(shown)) /\ SetPending(shown).charge
      BY <2>2, <2>4, <2>5 DEF Follows, Stays, Settled, Ledger!Leads
    <2> QED  BY <1>1, <2>3, <2>6
  <1>4. CASE PostFailed(w)
    <2>1. owner = w /\ mine[w] = tx /\ tx \in Tx
      BY <1>4 DEF PostFailed, PageLocks, TypeOK
    <2>2. CommitTx(w, SetError(tx)) /\ Free(w)
      BY <1>4, <2>1 DEF PostFailed, Free
    <2>3. tx.status \notin Settled
      BY <2>1, <1>4, BodiesAssumption DEF PostFailed, PageLocks, ChargeFirst, Settled, Keys, Remote
    <2>4. Follows(tx, SetError(tx)) /\ SetError(tx).status = tx.status
      BY <2>1, <2>3, SettersStay
    <2>5. Stays(tx, SetError(tx)) /\ SetError(tx).charge = tx.charge
      BY <2>4 DEF Follows
    <2>6. ~SetError(tx).charge => SetError(tx).status = None
      BY <2>4, <2>5 DEF ChargeFirst
    <2> QED  BY <1>1, <2>2, <2>5, <2>6
  <1>5. CASE Crash(w)
    BY <1>5, EndLock DEF Crash, db
  <1> QED  BY <1>2, <1>3, <1>4, <1>5

LEMMA QueryKnownLock ==
    ASSUME IInv, LockInv, QueryKnown
    PROVE  LockInv' /\ Stays(tx, tx')
  BY EndLock DEF QueryKnown, db, Procs

-----------------------------------------------------------------------------
(* Woovi and the clock leave the database alone.                            *)
LEMMA ProviderLock ==
    ASSUME IInv, LockInv, Pay \/ Expire \/ Refund \/ ClockPasses
    PROVE  LockInv' /\ tx' = tx
  <1>1. UNCHANGED <<tx, event, phase, todo, got, mine, out, owner, wrote, stale>>
    BY DEF Pay, Expire, Refund, ClockPasses, db, local, locks
  <1> QED  BY <1>1 DEF LockInv, StaleBusy, Writer, PageLocks, Fresh, ChargeFirst, OnceSoFar, Writing

LEMMA PostLock ==
    ASSUME IInv, LockInv, NEW w \in Procs, RenderNew(w) \/ PostAccepted(w)
    PROVE  LockInv' /\ tx' = tx
  <1> USE DEF IInv, LockInv
  <1>0. w # None
    BY ProcsAssumption
  <1>1. CASE RenderNew(w)
    <2>1. /\ phase[w] = "idle" /\ owner = None /\ ~tx.charge /\ ~wrote
          /\ owner' = w
          /\ UNCHANGED <<tx, event, todo, got, out, wrote, stale>>
      BY <1>1 DEF RenderNew, db, Writer
    <2>2. \A v \in Procs : /\ phase'[v] = IF v = w THEN "post" ELSE phase[v]
                           /\ mine'[v] = IF v = w THEN tx ELSE mine[v]
      BY <1>1 DEF RenderNew, TypeOK
    <2>3. todo[w] = {} /\ got[w] \in {None} \cup Remote /\ \A v \in Procs : ~Writing(v) /\ ~Writing(v)'
      BY <2>1 DEF Tasks, Held, Writing, TypeOK
    <2>4. StaleBusy' /\ Writer'
      BY <2>1, <2>2 DEF StaleBusy, Writer, TypeOK
    <2>5. PageLocks'
      <3>1. \A v \in Procs : v # w => phase[v] \notin {"post", "answer"}
        BY <2>1, ProcsAssumption DEF PageLocks
      <3> QED  BY <2>1, <2>2, <3>1 DEF PageLocks
    <2>6. Fresh'
      BY <2>1, <2>2, <2>3 DEF Fresh
    <2>7. ChargeFirst'
      <3>1. got[w] # None => tx.charge
        BY DEF ChargeFirst
      <3>2. \A v \in Procs :
               /\ mine'[v].charge => tx.charge
               /\ ~mine'[v].charge => mine'[v].status = None
               /\ (got[v] # None \/ phase'[v] = "query" \/ todo[v] \cap Remote # {}) => mine'[v].charge
        <4> SUFFICES ASSUME NEW v \in Procs
                     PROVE  /\ mine'[v].charge => tx.charge
                            /\ ~mine'[v].charge => mine'[v].status = None
                            /\ (got[v] # None \/ phase'[v] = "query" \/ todo[v] \cap Remote # {})
                                   => mine'[v].charge
          OBVIOUS
        <4>1. CASE v = w
          BY <4>1, <2>1, <2>2, <2>3, <3>1 DEF ChargeFirst
        <4>2. CASE v # w
          BY <4>2, <2>2 DEF ChargeFirst
        <4> QED  BY <4>1, <4>2
      <3> QED  BY <2>1, <3>2 DEF ChargeFirst
    <2>8. OnceSoFar'
      <3>1. \A v \in Procs : \A k \in DOMAIN out[v] : ~out[v][k].confirmed
        BY <2>3 DEF OnceSoFar
      <3> QED  BY <2>1, <3>1 DEF OnceSoFar
    <2> QED  BY <2>1, <2>4, <2>5, <2>6, <2>7, <2>8
  <1>2. CASE PostAccepted(w)
    <2>1. /\ phase[w] = "post"
          /\ UNCHANGED <<tx, event, todo, got, mine, out, owner, wrote, stale>>
      BY <1>2 DEF PostAccepted, db, locks
    <2>2. \A v \in Procs : phase'[v] = IF v = w THEN "answer" ELSE phase[v]
      BY <1>2 DEF PostAccepted, TypeOK
    <2>3. StaleBusy' /\ PageLocks' /\ Fresh'
      BY <2>1, <2>2 DEF StaleBusy, PageLocks, Fresh, Writing, TypeOK
    <2>4. Writer'
      BY <2>1, <2>2 DEF Writer, TypeOK
    <2>5. ChargeFirst' /\ OnceSoFar'
      BY <2>1, <2>2 DEF ChargeFirst, OnceSoFar, Writing
    <2> QED  BY <2>1, <2>3, <2>4, <2>5
  <1> QED  BY <1>1, <1>2

(* A process takes its snapshot of the row as it is.                        *)
LEMMA BeginLock ==
    ASSUME IInv, LockInv, NEW w \in Procs, NEW S \in SUBSET Keys, NEW p \in {"query", "events"},
           Begin(w, p, S), p = "query" => tx.charge, S \cap Remote # {} => tx.charge
    PROVE  LockInv' /\ tx' = tx
  <1> USE DEF IInv, LockInv
  <1>1. /\ phase[w] = "idle"
        /\ UNCHANGED <<tx, event, got, out, owner, wrote, stale>>
    BY DEF Begin, db, locks
  <1>2. \A v \in Procs : /\ phase'[v] = IF v = w THEN p ELSE phase[v]
                         /\ mine'[v] = IF v = w THEN tx ELSE mine[v]
                         /\ todo'[v] = IF v = w THEN S ELSE todo[v]
    BY DEF Begin, TypeOK
  <1>3. ~Writing(w) /\ w # owner
    <2>1. w # None
      BY ProcsAssumption
    <2> QED  BY <1>1, <2>1 DEF Writing, TypeOK
  <1>4. StaleBusy' /\ PageLocks'
    BY <1>1, <1>2 DEF StaleBusy, PageLocks, TypeOK
  <1>5. Writer'
    BY <1>1, <1>2, <1>3 DEF Writer, TypeOK
  <1>6. Fresh'
    BY <1>1, <1>2 DEF Fresh, Writing
  <1>7. ChargeFirst'
    <2>1. got[w] # None => tx.charge
      BY DEF ChargeFirst
    <2>2. \A v \in Procs :
             /\ mine'[v].charge => tx.charge
             /\ ~mine'[v].charge => mine'[v].status = None
             /\ (got[v] # None \/ phase'[v] = "query" \/ todo'[v] \cap Remote # {}) => mine'[v].charge
      <3> SUFFICES ASSUME NEW v \in Procs
                   PROVE  /\ mine'[v].charge => tx.charge
                          /\ ~mine'[v].charge => mine'[v].status = None
                          /\ (got[v] # None \/ phase'[v] = "query" \/ todo'[v] \cap Remote # {})
                                 => mine'[v].charge
        OBVIOUS
      <3>1. CASE v = w
        BY <3>1, <1>2, <2>1 DEF ChargeFirst
      <3>2. CASE v # w
        BY <3>2, <1>2 DEF ChargeFirst
      <3> QED  BY <3>1, <3>2
    <2> QED  BY <1>1, <2>2 DEF ChargeFirst
  <1>8. OnceSoFar'
    <2>1. \A v \in Procs : \A k \in DOMAIN out[v] : out[v][k].confirmed => v # w /\ Writing(v)
      BY <1>3 DEF OnceSoFar
    <2> QED  BY <1>1, <1>2, <2>1 DEF OnceSoFar, Writing
  <1> QED  BY <1>1, <1>4, <1>5, <1>6, <1>7, <1>8

LEMMA BeginsLock ==
    ASSUME IInv, LockInv,
           \/ \E w \in Web, h \in Hooks : Deliver(w, h)
           \/ RunEventsCron \/ RunReconcile
    PROVE  LockInv' /\ tx' = tx
  <1>1. ASSUME NEW w \in Web, NEW h \in Hooks, Deliver(w, h)
        PROVE  LockInv' /\ tx' = tx
    <2>1. w \in Procs /\ {h} \in SUBSET Keys /\ {h} \cap Remote = {}
      BY BodiesAssumption DEF Procs, Keys
    <2> QED  BY <1>1, <2>1, BeginLock DEF Deliver
  <1>2. CASE RunEventsCron
    <2> DEFINE S == {k \in Keys : event[k].state = "pending"}
    <2>1. EventsCron \in Procs /\ Begin(EventsCron, "events", S)
      BY <1>2 DEF RunEventsCron, Procs
    <2>2. S \cap Remote # {} => tx.charge
      BY DEF LockInv, ChargeFirst
    <2> HIDE DEF S
    <2>3. S \in SUBSET Keys
      BY DEF S
    <2> QED  BY <2>1, <2>2, <2>3, BeginLock
  <1>3. CASE RunReconcile
    <2>1. Reconciler \in Procs /\ {} \in SUBSET Keys /\ tx.charge
      BY <1>3 DEF RunReconcile, Procs
    <2> QED  BY <1>3, <2>1, BeginLock DEF RunReconcile
  <1> QED  BY <1>1, <1>2, <1>3

(* An answer comes only to a process that knows of the charge.              *)
LEMMA AnswerLock ==
    ASSUME IInv, LockInv, QueryAnswered
    PROVE  LockInv' /\ tx' = tx
  <1> USE DEF IInv, LockInv
  <1> DEFINE w == Reconciler
  <1>1. /\ phase[w] = "query" /\ w \in Procs
        /\ UNCHANGED <<tx, event, got, mine, out, owner, wrote, stale>>
    BY DEF QueryAnswered, db, locks, Procs
  <1>2. \A v \in Procs : /\ phase'[v] = IF v = w THEN "events" ELSE phase[v]
                         /\ todo'[v] = IF v = w THEN {remote} ELSE todo[v]
    BY DEF QueryAnswered, TypeOK
  <1> HIDE DEF w
  <1>3. mine[w].charge
    BY <1>1 DEF ChargeFirst
  <1>4. StaleBusy' /\ PageLocks' /\ Fresh'
    BY <1>1, <1>2 DEF StaleBusy, PageLocks, Fresh, Writing, TypeOK
  <1>5. Writer'
    BY <1>1, <1>2 DEF Writer, TypeOK
  <1>6. ChargeFirst' /\ OnceSoFar'
    BY <1>1, <1>2, <1>3 DEF ChargeFirst, OnceSoFar, Writing
  <1> QED  BY <1>1, <1>4, <1>5, <1>6

LEMMA QueryLock ==
    ASSUME IInv, LockInv, NEW w \in Procs, NEW k \in Keys, Query(w, k)
    PROVE  LockInv' /\ tx' = tx
  <1> USE DEF IInv, LockInv
  <1>1. /\ mine[w].charge
        /\ UNCHANGED <<tx, event, phase, todo, mine, out, owner, wrote, stale>>
    BY DEF Query, db, locks
  <1>2. \A v \in Procs : got'[v] = IF v = w THEN remote ELSE got[v]
    BY DEF Query, TypeOK
  <1>3. StaleBusy' /\ Writer' /\ PageLocks' /\ Fresh' /\ OnceSoFar'
    BY <1>1 DEF StaleBusy, Writer, PageLocks, Fresh, OnceSoFar, Writing
  <1>4. ChargeFirst'
    BY <1>1, <1>2 DEF ChargeFirst
  <1> QED  BY <1>1, <1>3, <1>4

-----------------------------------------------------------------------------
LEMMA LockStep == IInv /\ LockInv /\ [Next]_vars => LockInv' /\ Stays(tx, tx')
  <1> SUFFICES ASSUME IInv, LockInv, [Next]_vars  PROVE LockInv' /\ Stays(tx, tx')
    OBVIOUS
  <1>0. tx' = tx => Stays(tx, tx')
    BY DEF Stays, Settled, Ledger!Leads
  <1>1. CASE UNCHANGED vars
    BY <1>0, <1>1 DEF vars, db, local, locks, LockInv, StaleBusy, Writer, PageLocks, Fresh,
                      ChargeFirst, OnceSoFar, Writing
  <1>2. CASE Pay \/ Expire \/ Refund \/ ClockPasses
    BY <1>0, <1>2, ProviderLock
  <1>3. ASSUME NEW w \in Web, Render(w)
        PROVE  LockInv' /\ Stays(tx, tx')
    BY <1>0, <1>3, PageLock, PostLock DEF Render, Procs
  <1>4. CASE \/ \E w \in Web, h \in Hooks : Deliver(w, h)
             \/ RunEventsCron \/ RunReconcile
    BY <1>0, <1>4, BeginsLock
  <1>5. CASE QueryAnswered \/ QueryKnown
    BY <1>0, <1>5, AnswerLock, QueryKnownLock
  <1>6. ASSUME NEW w \in Procs, HandleEvent(w)
        PROVE  LockInv' /\ Stays(tx, tx')
    <2> PICK k \in Keys :
           Refused(w, k) \/ Query(w, k) \/ QueryFailed(w, k) \/ Conflict(w, k) \/ Apply(w, k)
      BY <1>6 DEF HandleEvent
    <2> QED  BY <1>0, EndsLock, QueryLock, ApplyLock
  <1>7. ASSUME NEW w \in Procs, Crash(w)
        PROVE  LockInv' /\ Stays(tx, tx')
    BY <1>7, PageLock
  <1> QED  BY <1>1, <1>2, <1>3, <1>4, <1>5, <1>6, <1>7 DEF Next

LEMMA LockInductive == Spec => [](IInv /\ LockInv)
  BY InitInv, LockInit, StepInv, LockStep, PTL DEF Spec

-----------------------------------------------------------------------------
(* What shows a confirmation, and where the confirmation is then recorded.  *)
Shown(t) == t.status = "completed" \/ t.state = "done"

Over(t) == t.status \in Settled /\ t.state \in {"done", "cancel"}

Committed == \E k \in Keys : event[k].confirmed

Waiting(w) == \E k \in DOMAIN out[w] : out[w][k].confirmed

(* Who confirmed had the money; a transaction that shows a confirmation is  *)
(* over, and some event bears it.                                           *)
ShownInv ==
    /\ \A k \in Keys : event[k].confirmed => event[k].state = "done" /\ Received
    /\ \A w \in Procs : \A k \in DOMAIN out[w] : out[w][k].confirmed =>
          out[w][k].state = "done" /\ Over(mine[w]) /\ Received
    /\ (Shown(tx) => Committed) /\ (Committed => Over(tx))
    /\ \A w \in Procs : Writing(w) /\ Shown(mine[w]) =>
          Over(mine[w]) /\ (Committed \/ Waiting(w))
    /\ \A w \in Procs : todo[w] \cap DOMAIN out[w] = {}

(* A confirmation is kept, and a new one meets a row that has none.         *)
Kept ==
    \A k \in Keys :
        /\ event[k].confirmed => event'[k].confirmed
        /\ event'[k].confirmed => event[k].confirmed \/ tx.status \notin Settled

LEMMA StaysOver ==
    ASSUME NEW t, NEW u, Over(t), Stays(t, u)
    PROVE  Over(u)
  BY DEF Over, Stays, Settled, Ledger!Leads

LEMMA ShownInit == Init => ShownInv
  <1> SUFFICES ASSUME Init  PROVE ShownInv
    OBVIOUS
  <1>1. ~Shown(NewTx)
    BY BodiesAssumption DEF Shown, NewTx, Keys, Remote
  <1>2. ~Committed
    BY DEF Init, Committed
  <1> QED  BY <1>1, <1>2 DEF Init, ShownInv, Writing

(* The last event of a process. *)
LEMMA ShownLast ==
    ASSUME IInv, LockInv, ShownInv, NEW w \in Procs, NEW k \in todo[w], NEW t \in Tx,
           NEW r \in Event, NEW dirty \in BOOLEAN, SettleLast(w, k, r, t, dirty),
           dirty /\ Shown(t) => Over(t) /\ (Committed \/ Waiting(w) \/ r.confirmed),
           dirty => Free(w), ~dirty => ~Writing(w), Stays(mine[w], t), Stays(tx, tx'),
           r.confirmed => dirty /\ First(w, t) /\ r.state = "done" /\ Over(t) /\ Received
    PROVE  ShownInv' /\ Kept
  <1> USE DEF IInv, LockInv, SettleLast
  <1>0. w # None /\ k \in Keys /\ UNCHANGED <<remote, amount>> /\ DOMAIN out[w] \subseteq Keys
    BY ProcsAssumption DEF TypeOK, provider
  <1>1. /\ \A v \in Procs \ {w} : todo'[v] = todo[v] /\ mine'[v] = mine[v] /\ out'[v] = out[v]
        /\ todo'[w] = {} /\ DOMAIN out'[w] = {}
    <2>1. \A v \in Procs : /\ todo'[v] = IF v = w THEN {} ELSE todo[v]
                           /\ mine'[v] = IF v = w THEN NewTx ELSE mine[v]
                           /\ out'[v] = IF v = w THEN <<>> ELSE out[v]
      BY DEF End, TypeOK
    <2> QED  BY <2>1
  <1>2. /\ \A v \in Procs \ {w} : Writing(v)' = Writing(v)
        /\ ~Writing(w)'
    BY <1>0 DEF Released, Writing
  <1>3. /\ tx' = IF dirty THEN t ELSE tx
        /\ event'[k] = r
        /\ \A e \in Keys : e # k => event'[e] = IF e \in DOMAIN out[w] THEN out[w][e] ELSE event[e]
    BY <1>0
  <1>4. Received' = Received
    BY <1>0 DEF Received, Paid
  <1>5. Kept
    <2> SUFFICES ASSUME NEW e \in Keys
                 PROVE  /\ event[e].confirmed => event'[e].confirmed
                        /\ event'[e].confirmed => event[e].confirmed \/ tx.status \notin Settled
      BY DEF Kept
    <2>1. event[e].confirmed => e \notin Held(w)
      BY DEF ShownInv, Tasks
    <2>2. CASE e = k
      BY <2>1, <2>2, <1>3 DEF Held, First
    <2>3. CASE e # k /\ e \in DOMAIN out[w]
      BY <2>1, <2>3, <1>3 DEF Held, OnceSoFar
    <2>4. CASE e # k /\ e \notin DOMAIN out[w]
      BY <2>4, <1>3
    <2> QED  BY <2>2, <2>3, <2>4
  <1>6. \A e \in Keys : event'[e].confirmed => event'[e].state = "done" /\ Received
    BY <1>3 DEF ShownInv
  <1>7. Committed => Committed'
    BY <1>5 DEF Committed, Kept
  <1>8. Shown(tx') => Committed'
    <2> SUFFICES ASSUME Shown(tx')  PROVE Committed'
      OBVIOUS
    <2>1. CASE ~dirty
      BY <2>1, <1>3, <1>7 DEF ShownInv
    <2>2. CASE dirty
      <3>1. Committed \/ Waiting(w) \/ r.confirmed
        BY <2>2, <1>3
      <3>2. r.confirmed => Committed'
        BY <1>0, <1>3 DEF Committed
      <3>3. Waiting(w) => Committed'
        <4> SUFFICES ASSUME NEW e \in DOMAIN out[w], out[w][e].confirmed  PROVE Committed'
          BY DEF Waiting
        <4>1. e \in Keys /\ e # k
          BY <1>0 DEF ShownInv
        <4> QED  BY <4>1, <1>3 DEF Committed
      <3> QED  BY <3>1, <3>2, <3>3, <1>7
    <2> QED  BY <2>1, <2>2
  <1>12. Committed' => Over(tx')
    <2> SUFFICES ASSUME NEW e \in Keys, event'[e].confirmed  PROVE Over(tx')
      BY DEF Committed
    <2>1. CASE e = k
      BY <2>1, <1>3
    <2>2. CASE e # k /\ e \in DOMAIN out[w]
      <3>1. Over(mine[w]) /\ Writing(w)
        BY <2>2, <1>3 DEF ShownInv, OnceSoFar
      <3> QED  BY <3>1, <1>3, StaysOver
    <2>3. CASE e # k /\ e \notin DOMAIN out[w]
      <3>1. Over(tx)
        BY <2>3, <1>3 DEF ShownInv, Committed
      <3> QED  BY <3>1, StaysOver
    <2> QED  BY <2>1, <2>2, <2>3
  <1>9. \A v \in Procs : \A e \in DOMAIN out'[v] : out'[v][e].confirmed =>
           out'[v][e].state = "done" /\ Over(mine'[v]) /\ Received
    BY <1>1 DEF ShownInv
  <1>10. \A v \in Procs : Writing(v)' /\ Shown(mine'[v]) =>
            Over(mine'[v]) /\ (Committed' \/ Waiting(v)')
    <2> SUFFICES ASSUME NEW v \in Procs, Writing(v)', Shown(mine'[v])
                 PROVE  Over(mine'[v]) /\ (Committed' \/ Waiting(v)')
      OBVIOUS
    <2>1. v # w /\ mine'[v] = mine[v] /\ out'[v] = out[v] /\ Writing(v)
      BY <1>1, <1>2
    <2>2. Over(mine[v]) /\ (Committed \/ Waiting(v))
      BY <2>1 DEF ShownInv
    <2> QED  BY <2>1, <2>2, <1>7 DEF Waiting
  <1>11. \A v \in Procs : todo'[v] \cap DOMAIN out'[v] = {}
    BY <1>1 DEF ShownInv
  <1> QED  BY <1>4, <1>5, <1>6, <1>8, <1>9, <1>10, <1>11, <1>12 DEF ShownInv, Shown, Over

(* An event that is not the last. *)
LEMMA ShownOne ==
    ASSUME IInv, LockInv, ShownInv, NEW w \in Procs, NEW k \in todo[w], NEW t \in Tx,
           NEW r \in Event, SettleOne(w, k, r, t), Stays(mine[w], t),
           \A v \in Procs \ {w} : Writing(v)' = Writing(v),
           Writing(w)' /\ Shown(t) => Over(t) /\ (Committed \/ Waiting(w) \/ r.confirmed),
           r.confirmed => r.state = "done" /\ Over(t) /\ Received
    PROVE  ShownInv' /\ Kept
  <1> USE DEF IInv, LockInv, SettleOne, db, provider
  <1>1. /\ \A v \in Procs \ {w} : todo'[v] = todo[v] /\ mine'[v] = mine[v] /\ out'[v] = out[v]
        /\ todo'[w] = todo[w] \ {k} /\ mine'[w] = t
        /\ DOMAIN out'[w] = DOMAIN out[w] \cup {k}
        /\ \A e \in DOMAIN out'[w] : out'[w][e] = IF e = k THEN r ELSE out[w][e]
        /\ UNCHANGED <<tx, event, remote, amount>>
    BY DEF TypeOK
  <1>2. Received' = Received /\ Committed' = Committed /\ Kept
    BY <1>1 DEF Received, Paid, Committed, Kept
  <1> HIDE DEF SettleOne, IInv, LockInv
  <1>3. \A v \in Procs : \A e \in DOMAIN out'[v] : out'[v][e].confirmed =>
           out'[v][e].state = "done" /\ Over(mine'[v]) /\ Received
    <2> SUFFICES ASSUME NEW v \in Procs, NEW e \in DOMAIN out'[v], out'[v][e].confirmed
                 PROVE  out'[v][e].state = "done" /\ Over(mine'[v]) /\ Received
      OBVIOUS
    <2>1. CASE v # w
      BY <2>1, <1>1 DEF ShownInv
    <2>2. CASE v = w /\ e = k
      BY <2>2, <1>1
    <2>3. CASE v = w /\ e # k
      <3>1. e \in DOMAIN out[w] /\ out'[w][e] = out[w][e]
        BY <2>3, <1>1
      <3>2. out[w][e].state = "done" /\ Over(mine[w]) /\ Received
        BY <2>3, <3>1 DEF ShownInv
      <3> QED  BY <2>3, <3>1, <3>2, <1>1, StaysOver
    <2> QED  BY <2>1, <2>2, <2>3
  <1>4. \A v \in Procs : Writing(v)' /\ Shown(mine'[v]) =>
           Over(mine'[v]) /\ (Committed \/ Waiting(v)')
    <2> SUFFICES ASSUME NEW v \in Procs, Writing(v)', Shown(mine'[v])
                 PROVE  Over(mine'[v]) /\ (Committed \/ Waiting(v)')
      OBVIOUS
    <2>1. CASE v # w
      <3>1. mine'[v] = mine[v] /\ out'[v] = out[v] /\ Writing(v)
        BY <2>1, <1>1
      <3> QED  BY <3>1 DEF ShownInv, Waiting
    <2>2. CASE v = w
      <3>1. Over(t) /\ (Committed \/ Waiting(w) \/ r.confirmed)
        BY <2>2, <1>1
      <3>2. r.confirmed => Waiting(w)'
        <4>1. k \in DOMAIN out'[w] /\ out'[w][k] = r
          BY <1>1
        <4> QED  BY <4>1 DEF Waiting
      <3>3. Waiting(w) => Waiting(w)'
        <4> SUFFICES ASSUME NEW e \in DOMAIN out[w], out[w][e].confirmed  PROVE Waiting(w)'
          BY DEF Waiting
        <4>1. e # k
          BY DEF ShownInv
        <4> QED  BY <4>1, <1>1 DEF Waiting
      <3> QED  BY <2>2, <3>1, <3>2, <3>3, <1>1
    <2> QED  BY <2>1, <2>2
  <1>5. \A v \in Procs : todo'[v] \cap DOMAIN out'[v] = {}
    <2> SUFFICES ASSUME NEW v \in Procs  PROVE todo'[v] \cap DOMAIN out'[v] = {}
      OBVIOUS
    <2>1. todo[v] \cap DOMAIN out[v] = {}
      BY DEF ShownInv
    <2> QED  BY <2>1, <1>1
  <1>6. /\ \A e \in Keys : event'[e].confirmed => event'[e].state = "done" /\ Received
        /\ (Shown(tx') => Committed) /\ (Committed => Over(tx'))
    BY <1>1 DEF ShownInv
  <1> QED  BY <1>2, <1>3, <1>4, <1>5, <1>6 DEF ShownInv, Shown, Over

LEMMA SettleShown ==
    ASSUME IInv, LockInv, ShownInv, NEW w \in Procs, NEW k \in todo[w], NEW r \in Event,
           ~r.confirmed, Settle(w, k, r), Stays(tx, tx')
    PROVE  ShownInv' /\ Kept
  <1>1. mine[w] \in Tx /\ Stays(mine[w], mine[w])
    BY Handled, FollowsSelf DEF Follows
  <1>2. Writing(w) /\ Shown(mine[w]) => Over(mine[w]) /\ (Committed \/ Waiting(w))
    BY DEF ShownInv
  <1>3. CASE SettleLast(w, k, r, mine[w], wrote /\ owner = w)
    <2> DEFINE dirty == wrote /\ owner = w
    <2>1. dirty \in BOOLEAN /\ (dirty <=> Writing(w)) /\ (dirty => Free(w))
      BY DEF Writing, Free
    <2> HIDE DEF dirty
    <2>2. SettleLast(w, k, r, mine[w], dirty)
      BY <1>3 DEF dirty
    <2> QED  BY <1>1, <1>2, <2>1, <2>2, ShownLast
  <1>4. CASE SettleOne(w, k, r, mine[w]) /\ UNCHANGED <<owner, wrote>>
    <2>1. \A v \in Procs : Writing(v)' = Writing(v)
      BY <1>4 DEF Writing
    <2> QED  BY <1>1, <1>2, <1>4, <2>1, ShownOne
  <1> QED  BY <1>3, <1>4 DEF Settle

LEMMA EndsShown ==
    ASSUME IInv, LockInv, ShownInv, NEW w \in Procs, NEW k \in Keys,
           Refused(w, k) \/ QueryFailed(w, k) \/ Conflict(w, k)
    PROVE  ShownInv' /\ Kept
  <1>1. k \in todo[w]
    BY DEF Refused, QueryFailed, Conflict, Ready, Handling
  <1>2. event[k] \in Event
    BY <1>1, Handled
  <1>3. \E s \in {"pending", "ignored", "rejected", "failed"} : Settle(w, k, Closed(event[k], s))
    BY DEF Refused, QueryFailed, Conflict, Retried
  <1>4. Stays(tx, tx')
    BY EndsLock
  <1> QED  BY <1>1, <1>2, <1>3, <1>4, ClosedRow, SettleShown

(* What the application of a status shows, if the row showed it already or  *)
(* the status confirms.                                                     *)
LEMMA AppliedShown ==
    ASSUME NEW t \in Tx, NEW s \in Remote, ~Ignored(t, s), Shown(Applied(t, s)),
           Shown(t) => Over(t)
    PROVE  /\ Over(Applied(t, s))
           /\ Shown(t) \/ (s = "completed" /\ amount = "right")
  <1>1. None \notin {"completed", "refunded"}
    BY BodiesAssumption DEF Keys, Remote
  <1>2. t.status \in Settled => s = "refunded"
    <2> SUFFICES ASSUME t.status \in Settled, s # "refunded"  PROVE FALSE
      OBVIOUS
    <2>1. t.status # None /\ t.status # "active" /\ s # None
      BY <1>1, BodiesAssumption DEF Settled, Keys
    <2>2. CASE s = t.status
      BY <2>1, <2>2 DEF Ignored
    <2>3. CASE s # t.status
      <3>1. Rank[s] < Rank[t.status]
        BY <2>3, Ranks DEF Settled, Remote
      <3> QED  BY <2>1, <3>1 DEF Ignored
    <2> QED  BY <2>2, <2>3
  <1>3. CASE s = "refunded"
    <2>1. Applied(t, s).status = "refunded" /\ Applied(t, s).state = t.state
      BY <1>3 DEF Applied, Tx
    <2>2. t.state = "done"
      BY <2>1 DEF Shown
    <2> QED  BY <2>1, <2>2 DEF Over, Shown, Settled
  <1>4. CASE s # "refunded"
    <2>1. ~Shown(t) /\ t.state # "done"
      BY <1>2, <1>4 DEF Over, Shown
    <2>2. CASE s = "completed" /\ amount = "right"
      <3> DEFINE u == [t EXCEPT !.status = "completed"]
      <3>1. Applied(t, s) = SetDone(u)
        BY <2>2 DEF Applied, Confirmed
      <3>2. u \in Tx /\ u.status = "completed" /\ u.state # "done"
        BY <2>1 DEF Tx, Remote
      <3> HIDE DEF u
      <3>3. Over(SetDone(u))
        BY <3>2 DEF SetDone, Moved, Over, Settled, Tx
      <3> QED  BY <2>2, <3>1, <3>3
    <2>3. CASE ~(s = "completed" /\ amount = "right")
      <3>1. Applied(t, s).status # "completed" /\ Applied(t, s).state # "done"
        BY <1>4, <2>1, <2>3 DEF Applied, Confirmed, SetPending, SetCanceled, SetError, Moved,
                                Tx, Remote
      <3> QED  BY <3>1 DEF Shown
    <2> QED  BY <2>2, <2>3
  <1> QED  BY <1>3, <1>4

LEMMA ApplyShown ==
    ASSUME IInv, LockInv, ShownInv, NEW w \in Procs, NEW k \in Keys, Apply(w, k)
    PROVE  ShownInv' /\ Kept
  <1> DEFINE s == Trusted(w, k)
             outcome == Outcome(mine[w], s)
             writes == outcome \in {"done", "rejected"}
             t == IF writes THEN Applied(mine[w], s) ELSE mine[w]
             r == [Closed(event[k], outcome)
                   EXCEPT !.confirmed = (outcome = "done" /\ s = "completed")]
             dirty == writes \/ (wrote /\ owner = w)
  <1>1. /\ k \in todo[w] /\ (k \in Hooks => got[w] # None)
        /\ Free(w) /\ w \notin stale
        /\ \/ SettleLast(w, k, r, t, dirty)
           \/ /\ SettleOne(w, k, r, t) /\ wrote' = dirty
              /\ owner' = IF outcome = "failed" THEN owner ELSE w
    BY DEF Apply, Ready, Handling
  <1>2. s \in Remote /\ (s = "completed" => Paid)
    <2>1. CASE k \in Hooks
      BY <2>1, <1>1 DEF Trusted, IInv, TypeOK, Known
    <2>2. CASE k \notin Hooks
      BY <2>2, <1>1 DEF Trusted, Keys, IInv, Known
    <2> QED  BY <2>1, <2>2
  <1>3. mine[w] \in Tx /\ event[k] \in Event /\ phase[w] = "events" /\ Stays(tx, tx')
    BY <1>1, Handled, ApplyLock
  <1>4. /\ Follows(tx, mine[w])
        /\ Shown(mine[w]) => Over(mine[w]) /\ (Committed \/ Waiting(w))
    <2>1. CASE Writing(w)
      BY <2>1 DEF Writing, LockInv, Writer, ShownInv
    <2>2. CASE ~Writing(w)
      BY <2>2, <1>1, <1>3, FollowsSelf DEF LockInv, Fresh, ShownInv
    <2> QED  BY <2>1, <2>2
  <1>5. outcome \in {"ignored", "failed", "rejected", "done"}
    BY DEF Outcome
  <1>6. t \in Tx /\ Stays(mine[w], t)
    <2>1. CASE writes
      <3>1. ~Ignored(mine[w], s)
        BY <2>1 DEF Outcome
      <3> QED  BY <2>1, <3>1, <1>2, <1>3, AppliedType, AppliedFollows DEF Follows
    <2>2. CASE ~writes
      BY <2>2, <1>3, FollowsSelf DEF Follows
    <2> QED  BY <2>1, <2>2
  <1>7. /\ r \in Event /\ (r.confirmed <=> (outcome = "done" /\ s = "completed"))
        /\ r.state = outcome
    <2>1. Closed(event[k], outcome) \in Event /\ Closed(event[k], outcome).state = outcome
      BY <1>3, <1>5, ClosedRow DEF Closed
    <2> HIDE DEF outcome, s
    <2> QED  BY <2>1 DEF Event
  <1>8. r.confirmed => dirty /\ First(w, t) /\ r.state = "done" /\ Over(t) /\ Received
    <2> SUFFICES ASSUME outcome = "done", s = "completed"
                 PROVE  First(w, t) /\ Over(t) /\ Received
      BY <1>7
    <2>1. ~Ignored(mine[w], "completed") /\ amount # "wrong" /\ amount # "missing"
      BY DEF Outcome, NoValue
    <2>2. amount = "right"
      BY <2>1, BodiesAssumption DEF IInv, TypeOK
    <2>3. mine[w].status \notin Settled /\ Applied(mine[w], "completed").status = "completed"
      BY <1>3, <2>1, <2>2, ConfirmedFirst
    <2>4. t = Applied(mine[w], "completed") /\ Shown(t) /\ t.status \in Settled
      BY <2>3 DEF Settled, Shown
    <2>5. tx.status \notin Settled
      BY <1>4, <2>3 DEF Follows, Stays, Settled, Ledger!Leads
    <2>6. \A e \in DOMAIN out[w] : ~out[w][e].confirmed
      BY <2>3 DEF LockInv, OnceSoFar
    <2>7. Over(t)
      BY <1>2, <1>3, <1>4, <2>1, <2>4, AppliedShown
    <2> HIDE DEF t
    <2> QED  BY <1>2, <2>2, <2>4, <2>5, <2>6, <2>7 DEF First, Received
  <1>9. Shown(t) => Over(t) /\ (Committed \/ Waiting(w) \/ r.confirmed)
    <2> SUFFICES ASSUME Shown(t)  PROVE Over(t) /\ (Committed \/ Waiting(w) \/ r.confirmed)
      OBVIOUS
    <2>1. CASE writes
      <3>1. ~Ignored(mine[w], s) /\ t = Applied(mine[w], s)
        BY <2>1 DEF Outcome
      <3>2. Over(t) /\ (Shown(mine[w]) \/ (s = "completed" /\ amount = "right"))
        BY <3>1, <1>2, <1>3, <1>4, AppliedShown
      <3>3. s = "completed" /\ amount = "right" => outcome = "done"
        BY <3>1 DEF Outcome, NoValue
      <3> QED  BY <3>2, <3>3, <1>4, <1>7
    <2>2. CASE ~writes
      BY <2>2, <1>4
    <2> QED  BY <2>1, <2>2
  <1>10. dirty \in BOOLEAN /\ (~dirty => ~Writing(w)) /\ (writes => dirty)
    BY DEF Writing
  <1>11. CASE SettleLast(w, k, r, t, dirty)
    <2> HIDE DEF t, r, dirty
    <2> QED  BY <1>1, <1>3, <1>6, <1>7, <1>8, <1>9, <1>10, <1>11, ShownLast
  <1>12. CASE /\ SettleOne(w, k, r, t) /\ wrote' = dirty
              /\ owner' = IF outcome = "failed" THEN owner ELSE w
    <2>1. w # None /\ owner \in {None, w} /\ owner' \in {owner, w}
      BY <1>1, <1>12, ProcsAssumption DEF Free
    <2>2. \A v \in Procs \ {w} : Writing(v)' = Writing(v)
      <3> SUFFICES ASSUME NEW v \in Procs \ {w}  PROVE ~(owner = v) /\ ~(owner' = v)
        BY DEF Writing
      <3> QED  BY <2>1, ProcsAssumption
    <2>3. SettleOne(w, k, r, t)
      BY <1>12
    <2> HIDE DEF t, r, dirty, outcome
    <2> QED  BY <1>1, <1>6, <1>7, <1>8, <1>9, <2>2, <2>3, ShownOne
  <1> QED  BY <1>1, <1>11, <1>12

(* A process ends; the row shows nothing it did not show.                   *)
LEMMA EndShown ==
    ASSUME IInv, LockInv, ShownInv, NEW w \in Procs, End(w), Released(w), event' = event,
           UNCHANGED provider, Stays(tx, tx'), Shown(tx') => Shown(tx)
    PROVE  ShownInv' /\ Kept
  <1>1. \A v \in Procs : /\ todo'[v] = IF v = w THEN {} ELSE todo[v]
                         /\ mine'[v] = IF v = w THEN NewTx ELSE mine[v]
                         /\ out'[v] = IF v = w THEN <<>> ELSE out[v]
    BY DEF End, IInv, TypeOK
  <1>2. /\ \A v \in Procs \ {w} : Writing(v)' = Writing(v)
        /\ ~Writing(w)'
    BY ProcsAssumption DEF Released, Writing
  <1>3. Received' = Received /\ Committed' = Committed /\ Kept
    BY DEF provider, Received, Paid, Committed, Kept
  <1>4. (Shown(tx') => Committed) /\ (Committed => Over(tx'))
    BY StaysOver DEF ShownInv
  <1>5. \A v \in Procs : \A e \in DOMAIN out'[v] : out'[v][e].confirmed =>
           out'[v][e].state = "done" /\ Over(mine'[v]) /\ Received
    BY <1>1 DEF ShownInv
  <1>6. \A v \in Procs : Writing(v)' /\ Shown(mine'[v]) =>
           Over(mine'[v]) /\ (Committed \/ Waiting(v)')
    <2> SUFFICES ASSUME NEW v \in Procs, Writing(v)', Shown(mine'[v])
                 PROVE  Over(mine'[v]) /\ (Committed \/ Waiting(v)')
      OBVIOUS
    <2>1. mine'[v] = mine[v] /\ out'[v] = out[v] /\ Writing(v)
      BY <1>1, <1>2
    <2> QED  BY <2>1 DEF ShownInv, Waiting
  <1>7. \A v \in Procs : todo'[v] \cap DOMAIN out'[v] = {}
    BY <1>1 DEF ShownInv
  <1>8. \A k \in Keys : event'[k].confirmed => event'[k].state = "done" /\ Received
    BY DEF ShownInv
  <1> QED  BY <1>3, <1>4, <1>5, <1>6, <1>7, <1>8 DEF ShownInv, Shown, Over

(* The page never writes what would show a confirmation.                    *)
LEMMA PageShown ==
    ASSUME IInv, LockInv, ShownInv, NEW w \in Procs,
           RenderExpired(w) \/ PostAnswered(w) \/ PostFailed(w) \/ Crash(w)
    PROVE  ShownInv' /\ Kept
  <1>1. Stays(tx, tx')
    BY PageLock
  <1>2. tx \in Tx
    BY DEF IInv, TypeOK
  <1>3. ASSUME NEW t, CommitTx(w, t), Shown(t) => Shown(tx)
        PROVE  ShownInv' /\ Kept
    BY <1>1, <1>3, EndShown DEF CommitTx
  <1>4. CASE RenderExpired(w)
    <2> DEFINE shown == IF tx.status = "active" THEN [tx EXCEPT !.status = "expired"] ELSE tx
    <2>1. /\ shown \in Tx /\ shown.state = tx.state
          /\ shown.status = "completed" => tx.status = "completed"
      BY <1>2 DEF Tx, Remote
    <2>2. CommitTx(w, SetCanceled(shown))
      BY <1>4 DEF RenderExpired
    <2> HIDE DEF shown
    <2>3. Shown(SetCanceled(shown)) => Shown(tx)
      BY <2>1 DEF SetCanceled, Moved, Shown, Tx
    <2> QED  BY <1>3, <2>2, <2>3
  <1>5. ASSUME phase[w] \in {"post", "answer"}
        PROVE  mine[w] = tx /\ ~Shown(tx)
    <2>1. mine[w] = tx /\ tx.status = None
      BY <1>5 DEF LockInv, PageLocks, ChargeFirst
    <2>2. tx.status \notin Settled
      BY <2>1, BodiesAssumption DEF Settled, Keys, Remote
    <2> QED  BY <2>1, <2>2 DEF ShownInv, Over
  <1>6. CASE PostAnswered(w)
    <2> DEFINE shown == [mine[w] EXCEPT !.charge = TRUE, !.status = "active"]
    <2>1. mine[w] = tx /\ ~Shown(tx)
      BY <1>5, <1>6 DEF PostAnswered
    <2>2. shown \in Tx /\ shown.state # "done" /\ shown.status = "active"
      BY <1>2, <2>1 DEF Tx, Remote, Shown
    <2>3. CommitTx(w, SetPending(shown))
      BY <1>6 DEF PostAnswered
    <2> HIDE DEF shown
    <2>4. ~Shown(SetPending(shown))
      BY <2>2 DEF SetPending, Moved, Shown, Tx
    <2> QED  BY <1>3, <2>3, <2>4
  <1>7. CASE PostFailed(w)
    <2>1. mine[w] = tx /\ ~Shown(tx)
      BY <1>5, <1>7 DEF PostFailed
    <2>2. ~Shown(SetError(tx))
      BY <1>2, <2>1 DEF SetError, Moved, Shown, Tx
    <2> QED  BY <1>3, <1>7, <2>1, <2>2 DEF PostFailed
  <1>8. CASE Crash(w)
    BY <1>1, <1>8, EndShown DEF Crash, db
  <1> QED  BY <1>4, <1>6, <1>7, <1>8

(* A step that decides nothing.                                             *)
LEMMA QuietShown ==
    ASSUME IInv, LockInv, ShownInv, UNCHANGED <<tx, event, out>>, Received => Received',
           \A v \in Procs : todo'[v] \cap DOMAIN out[v] = {},
           \A v \in Procs : DOMAIN out[v] # {} => mine'[v] = mine[v],
           \A v \in Procs : Writing(v)' => Writing(v) /\ mine'[v] = mine[v]
    PROVE  ShownInv' /\ Kept
  <1>1. Committed' = Committed /\ Kept /\ \A v \in Procs : Waiting(v)' = Waiting(v)
    BY DEF Committed, Kept, Waiting
  <1>2. \A v \in Procs : \A e \in DOMAIN out'[v] : out'[v][e].confirmed =>
           out'[v][e].state = "done" /\ Over(mine'[v]) /\ Received'
    BY DEF ShownInv
  <1>3. \A v \in Procs : Writing(v)' /\ Shown(mine'[v]) =>
           Over(mine'[v]) /\ (Committed \/ Waiting(v))
    BY DEF ShownInv
  <1>4. /\ \A k \in Keys : event'[k].confirmed => event'[k].state = "done" /\ Received'
        /\ (Shown(tx') => Committed) /\ (Committed => Over(tx'))
        /\ \A v \in Procs : todo'[v] \cap DOMAIN out'[v] = {}
    BY DEF ShownInv
  <1> QED  BY <1>1, <1>2, <1>3, <1>4 DEF ShownInv, Shown, Over

LEMMA BeginShown ==
    ASSUME IInv, LockInv, ShownInv, NEW w \in Procs, NEW S, NEW p, Begin(w, p, S)
    PROVE  ShownInv' /\ Kept
  <1>1. /\ phase[w] = "idle" /\ DOMAIN out[w] = {} /\ ~Writing(w)
        /\ UNCHANGED <<remote, amount, tx, event, out, owner, wrote>>
    BY ProcsAssumption DEF Begin, provider, db, locks, Writing, IInv, TypeOK, Tasks, Held
  <1>2. \A v \in Procs \ {w} : mine'[v] = mine[v] /\ todo'[v] = todo[v]
    BY DEF Begin, IInv, TypeOK
  <1>3. \A v \in Procs : Writing(v)' = Writing(v)
    BY <1>1 DEF Writing
  <1>4. Received' = Received
    BY <1>1 DEF Received, Paid
  <1>5. \A v \in Procs : todo'[v] \cap DOMAIN out[v] = {}
    BY <1>1, <1>2 DEF ShownInv
  <1> QED  BY <1>1, <1>2, <1>3, <1>4, <1>5, QuietShown

LEMMA PostShown ==
    ASSUME IInv, LockInv, ShownInv, NEW w \in Procs, RenderNew(w) \/ PostAccepted(w)
    PROVE  ShownInv' /\ Kept
  <1>1. CASE RenderNew(w)
    <2>1. /\ phase[w] = "idle" /\ DOMAIN out[w] = {} /\ ~wrote
          /\ UNCHANGED <<remote, amount, tx, event, out, wrote, todo>>
      BY <1>1 DEF RenderNew, provider, db, IInv, TypeOK, Tasks, Held, LockInv, Writer
    <2>2. \A v \in Procs \ {w} : mine'[v] = mine[v]
      BY <1>1 DEF RenderNew, IInv, TypeOK
    <2>3. \A v \in Procs : ~Writing(v)'
      BY <2>1 DEF Writing
    <2>4. Received' = Received
      BY <2>1 DEF Received, Paid
    <2>5. \A v \in Procs : todo'[v] \cap DOMAIN out[v] = {}
      BY <2>1 DEF ShownInv
    <2> QED  BY <2>1, <2>2, <2>3, <2>4, <2>5, QuietShown
  <1>2. CASE PostAccepted(w)
    <2>1. UNCHANGED <<tx, event, out, todo, mine, owner, wrote>>
      BY <1>2 DEF PostAccepted, db, locks
    <2>2. \A v \in Procs : Writing(v)' = Writing(v)
      BY <2>1 DEF Writing
    <2>3. ~Received /\ ~Received'
      BY <1>2, BodiesAssumption DEF PostAccepted, Received, Paid, Keys, Remote
    <2>4. \A v \in Procs : todo'[v] \cap DOMAIN out[v] = {}
      BY <2>1 DEF ShownInv
    <2> QED  BY <2>1, <2>2, <2>3, <2>4, QuietShown
  <1> QED  BY <1>1, <1>2

LEMMA AskShown ==
    ASSUME IInv, LockInv, ShownInv,
           QueryAnswered \/ \E w \in Procs, k \in Keys : Query(w, k)
    PROVE  ShownInv' /\ Kept
  <1>1. UNCHANGED <<remote, amount, tx, event, out, mine, owner, wrote>>
    BY DEF QueryAnswered, Query, provider, db, locks
  <1>2. \A v \in Procs : Writing(v)' = Writing(v)
    BY <1>1 DEF Writing
  <1>3. Received' = Received
    BY <1>1 DEF Received, Paid
  <1>4. \A v \in Procs : todo'[v] \cap DOMAIN out[v] = {}
    <2>1. CASE QueryAnswered
      <3>1. DOMAIN out[Reconciler] = {}
        BY <2>1 DEF QueryAnswered, Procs, IInv, Tasks, Held
      <3>2. \A v \in Procs \ {Reconciler} : todo'[v] = todo[v]
        BY <2>1 DEF QueryAnswered, IInv, TypeOK
      <3> QED  BY <3>1, <3>2 DEF ShownInv
    <2>2. CASE \E w \in Procs, k \in Keys : Query(w, k)
      BY <2>2 DEF Query, ShownInv
    <2> QED  BY <2>1, <2>2
  <1> QED  BY <1>1, <1>2, <1>3, <1>4, QuietShown

LEMMA ProviderShown ==
    ASSUME IInv, LockInv, ShownInv, Pay \/ Expire \/ Refund \/ ClockPasses
    PROVE  ShownInv' /\ Kept
  <1>1. UNCHANGED <<tx, event, todo, mine, out, owner, wrote>>
    BY DEF Pay, Expire, Refund, ClockPasses, db, local, locks
  <1>2. \A v \in Procs : Writing(v)' = Writing(v)
    BY <1>1 DEF Writing
  <1>3. Received => Received'
    BY DEF Pay, Expire, Refund, ClockPasses, provider, Received, Paid
  <1>4. \A v \in Procs : todo'[v] \cap DOMAIN out[v] = {}
    BY <1>1 DEF ShownInv
  <1> QED  BY <1>1, <1>2, <1>3, <1>4, QuietShown

(* Only Woovi receives, and what it received stays.                         *)
Receives ==
    /\ Received => Received'
    /\ Received' # Received => tx' = tx /\ event' = event

LEMMA NextReceives == [Next]_vars => Receives
  <1> SUFFICES ASSUME [Next]_vars  PROVE Receives
    OBVIOUS
  <1>1. CASE Pay \/ Expire \/ Refund \/ ClockPasses
    BY <1>1 DEF Pay, Expire, Refund, ClockPasses, db, provider, Received, Paid, Receives
  <1>2. ASSUME NEW w \in Procs, PostAccepted(w)
        PROVE  Receives
    BY <1>2, BodiesAssumption DEF PostAccepted, db, Received, Paid, Receives, Keys, Remote
  <1>3. CASE UNCHANGED provider
    BY <1>3 DEF provider, Received, Paid, Receives
  <1>4. ASSUME NEW w \in Web, Render(w)
        PROVE  Receives
    BY <1>2, <1>3, <1>4 DEF Render, RenderExpired, RenderNew, PostAnswered, PostFailed, CommitTx,
                            Procs
  <1>5. CASE \/ \E w \in Web, h \in Hooks : Deliver(w, h)
             \/ RunEventsCron \/ RunReconcile \/ QueryAnswered \/ QueryKnown
    BY <1>3, <1>5 DEF Deliver, RunEventsCron, RunReconcile, QueryAnswered, QueryKnown, Begin
  <1>6. ASSUME NEW w \in Procs, HandleEvent(w) \/ Crash(w)
        PROVE  Receives
    BY <1>3, <1>6 DEF HandleEvent, Refused, Query, QueryFailed, Conflict, Apply, Settle,
                      SettleLast, SettleOne, Crash
  <1>7. CASE UNCHANGED vars
    BY <1>3, <1>7 DEF vars
  <1> QED  BY <1>1, <1>4, <1>5, <1>6, <1>7 DEF Next

LEMMA ShownStep == IInv /\ LockInv /\ ShownInv /\ [Next]_vars => ShownInv' /\ Kept
  <1> SUFFICES ASSUME IInv, LockInv, ShownInv, [Next]_vars  PROVE ShownInv' /\ Kept
    OBVIOUS
  <1>1. CASE UNCHANGED vars
    <2>1. UNCHANGED <<remote, amount, tx, event, todo, mine, out, owner, wrote>>
      BY <1>1 DEF vars, provider, db, local, locks
    <2>2. Received' = Received /\ \A v \in Procs : Writing(v)' = Writing(v)
      BY <2>1 DEF Received, Paid, Writing
    <2>3. \A v \in Procs : todo'[v] \cap DOMAIN out[v] = {}
      BY <2>1 DEF ShownInv
    <2> QED  BY <2>1, <2>2, <2>3, QuietShown
  <1>2. CASE Pay \/ Expire \/ Refund \/ ClockPasses
    BY <1>2, ProviderShown
  <1>3. ASSUME NEW w \in Web, Render(w)
        PROVE  ShownInv' /\ Kept
    BY <1>3, PageShown, PostShown DEF Render, Procs
  <1>4. CASE \/ \E w \in Web, h \in Hooks : Deliver(w, h)
             \/ RunEventsCron \/ RunReconcile
    BY <1>4, BeginShown DEF Deliver, RunEventsCron, RunReconcile, Procs
  <1>5. CASE QueryKnown
    <2>1. Stays(tx, tx') /\ Reconciler \in Procs
      BY <1>5, QueryKnownLock DEF Procs
    <2> QED  BY <1>5, <2>1, EndShown DEF QueryKnown, db
  <1>6. CASE QueryAnswered
    BY <1>6, AskShown
  <1>7. ASSUME NEW w \in Procs, HandleEvent(w)
        PROVE  ShownInv' /\ Kept
    <2> PICK k \in Keys :
           Refused(w, k) \/ Query(w, k) \/ QueryFailed(w, k) \/ Conflict(w, k) \/ Apply(w, k)
      BY <1>7 DEF HandleEvent
    <2> QED  BY EndsShown, AskShown, ApplyShown
  <1>8. ASSUME NEW w \in Procs, Crash(w)
        PROVE  ShownInv' /\ Kept
    BY <1>8, PageShown
  <1> QED  BY <1>1, <1>2, <1>3, <1>4, <1>5, <1>6, <1>7, <1>8 DEF Next

LEMMA ShownInductive == Spec => [](IInv /\ LockInv /\ ShownInv)
  BY InitInv, LockInit, ShownInit, StepInv, LockStep, ShownStep, PTL DEF Spec

-----------------------------------------------------------------------------
(* There is one confirmation, or none.                                      *)
LEMMA OneConfirms ==
    ASSUME NEW rows, \A k, l \in Keys : rows[k].confirmed /\ rows[l].confirmed => k = l
    PROVE  Cardinality({k \in Keys : rows[k].confirmed})
               = IF \E k \in Keys : rows[k].confirmed THEN 1 ELSE 0
  <1> DEFINE S == {k \in Keys : rows[k].confirmed}
  <1>1. IF \E k \in Keys : rows[k].confirmed THEN \E k \in S : S = {k} ELSE S = {}
    OBVIOUS
  <1> HIDE DEF S
  <1>2. Cardinality(S) = IF \E k \in Keys : rows[k].confirmed THEN 1 ELSE 0
    BY <1>1, FS_EmptySet, FS_Singleton
  <1> QED  BY <1>2 DEF S

LEMMA Confirmed01 == LockInv => Confirmations = IF Committed THEN 1 ELSE 0
  BY OneConfirms DEF LockInv, OnceSoFar, Confirmations, Committed

LEMMA Confirmed01Next == LockInv' => Confirmations' = IF Committed' THEN 1 ELSE 0
  BY OneConfirms DEF LockInv, OnceSoFar, Confirmations, Committed

LEMMA LedgerInit == Init => Ledger!Init
  <1> SUFFICES ASSUME Init  PROVE Ledger!Init
    OBVIOUS
  <1>1. LockInv /\ ~Committed
    BY LockInit DEF Init, Committed
  <1>2. Confirmations = 0
    BY <1>1, Confirmed01
  <1>3. ~Received
    BY BodiesAssumption DEF Init, Received, Paid, Keys, Remote
  <1> QED  BY <1>2, <1>3 DEF Init, NewTx, Ledger!Init

(* A step of the shop is one of the ledger: who makes the payment known     *)
(* confirms it, and else nothing is confirmed.                              *)
LEMMA LedgerStep ==
    ASSUME IInv, LockInv, ShownInv, [Next]_vars
    PROVE  [Ledger!Next]_<<Received, tx.state, tx.status, Confirmations>>
  <1>1. /\ IInv' /\ LockInv' /\ ShownInv' /\ Kept
        /\ Stays(tx, tx') /\ Receives
    BY StepInv, LockStep, ShownStep, NextReceives
  <1>2. tx \in Tx /\ tx' \in Tx
    BY <1>1 DEF IInv, TypeOK
  <1>3. /\ Confirmations = IF Committed THEN 1 ELSE 0
        /\ Confirmations' = IF Committed' THEN 1 ELSE 0
    BY <1>1, Confirmed01, Confirmed01Next
  <1>4. CASE Received' # Received
    <2>1. Committed' = Committed /\ tx' = tx
      BY <1>1, <1>4 DEF Receives, Committed
    <2>2. ~Received /\ Received' = TRUE
      BY <1>1, <1>4 DEF Receives, Received
    <2> QED  BY <1>3, <2>1, <2>2 DEF Ledger!Next, Ledger!Receive
  <1>5. CASE Received' = Received
    <2>1. Ledger!Move
      BY <1>1, <1>2, <1>5 DEF Ledger!Move, Ledger!States, Ledger!Statuses, Tx, Remote, Stays
    <2>2. Committed => Committed'
      BY <1>1 DEF Kept, Committed
    <2>3. CASE ~Committed /\ Committed'
      <3>1. PICK k \in Keys : event'[k].confirmed /\ ~event[k].confirmed
        BY <2>3 DEF Committed
      <3>2. Received /\ tx.status \notin Settled /\ Over(tx')
        BY <1>1, <1>5, <2>3, <3>1 DEF Kept, ShownInv, Over
      <3> QED  BY <1>3, <2>1, <2>3, <3>2 DEF Ledger!Next, Ledger!Confirm, Ledger!Final, Over, Settled
    <2>4. CASE Committed' = Committed
      <3>1. Confirmations' = Confirmations
        BY <1>3, <2>4
      <3>2. /\ Shown(tx) => Committed /\ Over(tx)
            /\ Shown(tx') => Committed /\ Over(tx')
            /\ Committed => Over(tx)
        BY <1>1, <2>4 DEF ShownInv, Over, Shown
      <3>3. CASE tx.status \notin Settled
        <4>1. ~Committed /\ ~Shown(tx) /\ ~Shown(tx')
          BY <3>2, <3>3 DEF Over
        <4> QED  BY <2>1, <3>1, <3>3, <4>1 DEF Ledger!Next, Ledger!Refund, Ledger!Report,
                                               Ledger!Final, Shown, Settled
      <3>4. CASE tx.status = "completed"
        <4>1. Shown(tx) /\ tx.state \in {"done", "cancel"} /\ tx'.status \in Settled
          BY <1>1, <3>2, <3>4 DEF Shown, Over, Stays
        <4>2. tx'.state = tx.state
          BY <1>1, <4>1 DEF Stays, Ledger!Leads
        <4> QED  BY <1>5, <2>1, <3>1, <3>4, <4>1, <4>2 DEF Ledger!Next, Ledger!Refund, Settled
      <3>5. CASE tx.status = "refunded"
        <4>1. tx'.status = "refunded" /\ (tx'.state # tx.state => tx'.state = "cancel")
          BY <1>1, <3>5 DEF Stays, Settled
        <4> QED  BY <1>5, <2>1, <3>1, <3>5, <4>1 DEF Ledger!Next, Ledger!Close
      <3> QED  BY <3>3, <3>4, <3>5 DEF Settled
    <2> QED  BY <2>2, <2>3, <2>4 DEF Committed
  <1> QED  BY <1>4, <1>5

(* The page, the webhooks and the crons, whatever races, kills and late     *)
(* answers come between them, do to a payment what the ledger allows.       *)
THEOREM ImplementsLedger == Spec => KeepsLedger
  <1>1. IInv /\ LockInv /\ ShownInv /\ [Next]_vars
           => [Ledger!Next]_<<Received, tx.state, tx.status, Confirmations>>
    BY LedgerStep
  <1> QED  BY <1>1, LedgerInit, ShownInductive, PTL DEF Spec, KeepsLedger, Ledger!Spec

(* A payment is confirmed by one event, whatever reports it, and however    *)
(* the page, the webhooks and the crons race for the row.                   *)
THEOREM ConfirmedSafety == Spec => []ConfirmedOnce
  <1>1. LockInv => ConfirmedOnce
    BY Confirmed01 DEF ConfirmedOnce
  <1> QED  BY <1>1, LockInductive, PTL

(* Nothing that is known of a payment is taken back by an answer that comes *)
(* late, by the page or by a crash.                                         *)
THEOREM PaymentSafety == Spec => PaymentStays
  <1>1. IInv /\ LockInv /\ [Next]_vars
           => [/\ tx.state = "done" => tx'.state = "done"
               /\ tx.status = "completed" => tx'.status \in {"completed", "refunded"}
               /\ tx.status = "refunded" => tx'.status = "refunded"]_vars
    BY LockStep DEF Stays, Settled, Ledger!Leads
  <1> QED  BY <1>1, LockInductive, PTL DEF Spec, PaymentStays

=============================================================================
