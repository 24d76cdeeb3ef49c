------------------------- MODULE MessageInboxProofs -------------------------
(***************************************************************************)
(* Proofs about MessageInbox, for any finite set of runs and any set of    *)
(* messages: the types, that a business action is executed once for its    *)
(* key, and that a message is handled once plus once per click.            *)
(*                                                                         *)
(* HandledOnce is proved by counting.  A message has at most 1 + requeues  *)
(* tokens: each time it was handled used one, each run that holds it (in   *)
(* its batch or as the message it handles) has one, and the row has one    *)
(* while a run may still take it.  A claim passes the row's token to the   *)
(* run, a failure or a return passes it back, "done" uses it; only a click *)
(* makes a new one.  An expired lease has no holder, so recovery makes     *)
(* none.                                                                   *)
(***************************************************************************)
EXTENDS MessageInbox, TLAPS, FiniteSetTheorems

Holders(m) == {w \in Workers : cur[w] = m \/ m \in batch[w]}

Takeable(m) ==
    \/ row[m].status \in {"absent", "pending", "failed"}
    \/ row[m].status = "processing" /\ Holders(m) = {}

RowToken(m) == IF Takeable(m) THEN 1 ELSE 0

Tokens == \A m \in Messages :
              handled[m] + Cardinality(Holders(m)) + RowToken(m) <= 1 + requeues

LeaseOver == \A m \in Messages : row[m].lease = "over" => Holders(m) = {}

(* The message a run handles has left its batch.                            *)
Walked == \A w \in Workers : cur[w] \notin batch[w]

TokenInv == TypeOK /\ Tokens /\ LeaseOver /\ Walked

-----------------------------------------------------------------------------
(* Rows stay rows.                                                          *)
LEMMA RowTypes ==
    ASSUME NEW r \in Row
    PROVE  /\ Claimed(r) \in Row /\ Failed(r) \in Row
           /\ Settled(r, "done") \in Row /\ Returned(r) \in Row /\ Requeued(r) \in Row
           /\ Claimed(r).lease = "live" /\ Failed(r).lease = "none"
           /\ Settled(r, "done").lease = "none" /\ Returned(r).lease = "none"
           /\ Settled(r, "done").status = "done" /\ Claimed(r).status = "processing"
  <1>1. \A s \in Statuses : Settled(r, s) \in Row /\ Settled(r, s).status = s
                            /\ Settled(r, s).lease = "none"
    BY DEF Settled, Row
  <1>2. Claimed(r) \in Row /\ Requeued(r) \in Row
        /\ Claimed(r).lease = "live" /\ Claimed(r).status = "processing"
    BY DEF Claimed, Requeued, Row, Statuses
  <1>3. Failed(r) \in Row /\ Failed(r).lease = "none"
    BY <1>1 DEF Failed, Statuses
  <1>4. Returned(r) \in Row /\ Returned(r).lease = "none"
    <2>1. Settled(r, "pending") \in Row /\ Settled(r, "pending").lease = "none"
      BY <1>1 DEF Statuses
    <2> QED  BY <2>1 DEF Returned, Row
  <1> QED  BY <1>1, <1>2, <1>3, <1>4 DEF Statuses

LEMMA ViewType ==
    ASSUME TypeOK, NEW w \in Workers, cur[w] # None
    PROVE  cur[w] \in Messages /\ View(w) \in Row
  <1>1. cur[w] \in Messages /\ row[cur[w]] \in Row
    BY DEF TypeOK
  <1> QED  BY <1>1, RowTypes DEF View

LEMMA InitInv == Init => TokenInv
  <1> SUFFICES ASSUME Init  PROVE TokenInv
    OBVIOUS
  <1> USE DEF Init
  <1>1. TypeOK
    <2>1. row \in [Messages -> Row]
      BY DEF Row, Statuses
    <2>2. requeues \in 0..MaxRequeues
      BY LimitsAssumption
    <2> QED  BY <2>1, <2>2 DEF TypeOK
  <1>2. \A m \in Messages : Holders(m) = {}
    BY MessagesAssumption DEF Holders
  <1>3. Tokens
    BY <1>2, FS_EmptySet DEF Tokens, RowToken
  <1> QED  BY <1>1, <1>2, <1>3 DEF TokenInv, LeaseOver, Walked

-----------------------------------------------------------------------------
(* One lemma for each way a transaction ends.                               *)
LEMMA CommitType ==
    ASSUME TypeOK, NEW w \in Workers, NEW r \in Row, CommitItem(w, r),
           UNCHANGED <<batch, begun, form, requeues>>
    PROVE  /\ row' \in [Messages -> Row] /\ cur' \in [Workers -> Messages \cup {None}]
           /\ batch' \in [Workers -> SUBSET Messages]
           /\ \A S \in {begun', owned', stale', seen'} : S \subseteq Workers
           /\ \A v \in owned' \cup stale' \cup seen' : cur'[v] # None
           /\ form' \subseteq Messages /\ requeues' \in 0..MaxRequeues
  <1> USE DEF TypeOK, CommitItem
  <1>1. row' \in [Messages -> Row] /\ cur' \in [Workers -> Messages \cup {None}]
    OBVIOUS
  <1>2. \A v \in Overtaken({cur[w]}, w) : v \in Workers \ {w} /\ cur[v] = cur[w]
    BY DEF Overtaken
  <1>3. \A v \in Workers : cur'[v] = IF v = w THEN None ELSE cur[v]
    OBVIOUS
  <1>4. \A v \in owned' \cup stale' \cup seen' : v \in Workers \ {w} /\ cur[v] # None
    <2>1. \A v \in owned \cup stale \cup seen : v \in Workers /\ cur[v] # None
      OBVIOUS
    <2>2. /\ owned' = owned \ {w} /\ seen' = seen \ {w} /\ w \notin stale /\ cur[w] # None
          /\ stale' = stale \cup Overtaken({cur[w]}, w)
      OBVIOUS
    <2> QED  BY ONLY <1>2, <2>1, <2>2
  <1>5. \A v \in owned' \cup stale' \cup seen' : cur'[v] # None
    BY <1>3, <1>4
  <1>6. owned' \subseteq Workers /\ stale' \subseteq Workers /\ seen' \subseteq Workers
    BY <1>4
  <1>7. begun' \subseteq Workers /\ batch' \in [Workers -> SUBSET Messages]
    OBVIOUS
  <1>8. form' \subseteq Messages /\ requeues' \in 0..MaxRequeues
    OBVIOUS
  <1> QED  BY ONLY <1>1, <1>5, <1>6, <1>7, <1>8

LEMMA RanType ==
    ASSUME TypeOK, NEW w \in Workers, cur[w] # None, RunOnce(w)
    PROVE  /\ ran' \in [Keys -> Nat]
           /\ \A k \in Keys : ran'[k] = ran[k] \/ (ran[k] = 0 /\ ran'[k] = 1)
  <1>1. cur[w] \in Messages /\ ran \in [Keys -> Nat]
    BY DEF TypeOK
  <1>2. CASE KeyOf[cur[w]] = None \/ w \in seen
    BY <1>1, <1>2 DEF RunOnce
  <1>3. CASE ~(KeyOf[cur[w]] = None \/ w \in seen)
    <2>1. KeyOf[cur[w]] \in Keys
      BY <1>1, <1>3, MessagesAssumption
    <2>2. ran[KeyOf[cur[w]]] = 0 /\ ran' = [ran EXCEPT ![KeyOf[cur[w]]] = @ + 1]
      BY <1>3 DEF RunOnce, KeyFree
    <2> QED  BY <1>1, <2>1, <2>2
  <1> QED  BY <1>2, <1>3

LEMMA TypeStep == TypeOK /\ [Next]_vars => TypeOK'
  <1> SUFFICES ASSUME TypeOK, [Next]_vars  PROVE TypeOK'
    OBVIOUS
  <1>1. CASE UNCHANGED vars
    BY <1>1 DEF vars, runVars, history, TypeOK
  <1>2. ASSUME NEW m \in Messages, Receive(m) \/ ExpireLease(m)
        PROVE  TypeOK'
    <2>1. row' \in [Messages -> Row]
      BY <1>2 DEF Receive, ExpireLease, TypeOK, Row, Statuses
    <2>2. UNCHANGED <<runVars, stale, form, requeues, history>>
      BY <1>2 DEF Receive, ExpireLease
    <2> QED  BY <2>1, <2>2 DEF TypeOK, runVars, history
  <1>3. ASSUME NEW m \in Messages, OpenForm(m)
        PROVE  TypeOK'
    BY <1>3 DEF OpenForm, TypeOK, runVars, history
  <1>4. ASSUME NEW m \in Messages, Requeue(m)
        PROVE  TypeOK'
    <2>1. row' \in [Messages -> Row]
      BY <1>4, RowTypes DEF Requeue, TypeOK
    <2>2. requeues' \in 0..MaxRequeues
      BY <1>4, LimitsAssumption DEF Requeue, TypeOK
    <2>3. /\ form' \subseteq Messages /\ stale' \subseteq Workers
          /\ \A w \in stale' : cur[w] # None
          /\ UNCHANGED <<runVars, history>>
      BY <1>4, MessagesAssumption DEF Requeue, TypeOK
    <2> QED  BY <2>1, <2>2, <2>3 DEF TypeOK, runVars, history
  <1>5. ASSUME NEW w \in Workers, RunCron(w)
        PROVE  TypeOK'
    <2> DEFINE rows == [m \in Messages |-> IF Expired(row[m]) THEN Failed(row[m]) ELSE row[m]]
               due == {m \in Messages : Due(rows[m]) /\ ~RowLocked(m)}
    <2>1. PICK S \in SUBSET due :
             /\ row' = [m \in Messages |-> IF m \in S THEN Claimed(rows[m]) ELSE rows[m]]
             /\ batch' = [batch EXCEPT ![w] = S]
             /\ stale' = stale \cup Overtaken({m \in Messages : row'[m] # row[m]}, w)
      BY <1>5 DEF RunCron
    <2>2. rows \in [Messages -> Row]
      BY RowTypes DEF TypeOK
    <2>3. row' \in [Messages -> Row]
      <3> HIDE DEF rows
      <3> QED  BY <2>1, <2>2, RowTypes
    <2>4. batch' \in [Workers -> SUBSET Messages]
      BY <2>1 DEF TypeOK
    <2>5. stale' \subseteq Workers /\ \A v \in stale' : cur[v] # None
      BY <2>1, MessagesAssumption DEF TypeOK, Overtaken
    <2>6. begun' \subseteq Workers /\ UNCHANGED <<cur, owned, seen, form, requeues, history>>
      BY <1>5 DEF RunCron, TypeOK
    <2> QED  BY <2>3, <2>4, <2>5, <2>6 DEF TypeOK, history
  <1>6. ASSUME NEW w \in Workers, NEW m \in Messages, SkipDone(w, m)
        PROVE  TypeOK'
    BY <1>6 DEF SkipDone, NextItem, TypeOK, history
  <1>7. ASSUME NEW w \in Workers, NEW m \in Messages, Start(w, m)
        PROVE  TypeOK'
    <2>1. /\ batch' \in [Workers -> SUBSET Messages] /\ begun' \subseteq Workers
          /\ cur' \in [Workers -> Messages \cup {None}]
          /\ UNCHANGED <<row, form, requeues, ran, handled>>
      BY <1>7 DEF Start, NextItem, TypeOK
    <2>2. \A v \in Workers : cur[v] # None \/ v = w => cur'[v] # None
      BY <1>7, MessagesAssumption DEF Start, TypeOK
    <2>3. /\ owned' \subseteq owned \cup {w} /\ seen' \subseteq seen \cup {w}
          /\ stale' \subseteq stale \cup Overtaken({m}, w)
      BY <1>7 DEF Start
    <2>4. Overtaken({m}, w) \subseteq Workers /\ \A v \in Overtaken({m}, w) : cur[v] # None
      BY MessagesAssumption DEF Overtaken
    <2>5. \A v \in owned' \cup stale' \cup seen' : v \in Workers /\ cur'[v] # None
      BY <2>2, <2>3, <2>4 DEF TypeOK
    <2> QED  BY <2>1, <2>5 DEF TypeOK
  <1>8. ASSUME NEW w \in Workers, CommitDone(w)
        PROVE  TypeOK'
    <2>1. cur[w] # None
      BY <1>8 DEF CommitDone, CommitItem
    <2>2. cur[w] \in Messages /\ Settled(View(w), "done") \in Row
      BY <2>1, ViewType, RowTypes
    <2>3. ran' \in [Keys -> Nat]
      BY <1>8, <2>1, RanType DEF CommitDone
    <2>4. handled' \in [Messages -> Nat]
      BY <1>8, <2>2 DEF CommitDone, TypeOK
    <2>5. /\ CommitItem(w, Settled(View(w), "done"))
          /\ UNCHANGED <<batch, begun, form, requeues>>
      BY <1>8 DEF CommitDone
    <2> QED  BY <2>2, <2>3, <2>4, <2>5, CommitType DEF TypeOK
  <1>9. ASSUME NEW w \in Workers, CommitFailure(w)
        PROVE  TypeOK'
    <2>1. cur[w] # None
      BY <1>9 DEF CommitFailure, CommitItem
    <2>2. Failed(View(w)) \in Row
      BY <2>1, ViewType, RowTypes
    <2>3. /\ CommitItem(w, Failed(View(w))) /\ UNCHANGED <<batch, begun, form, requeues>>
          /\ UNCHANGED <<ran, handled>>
      BY <1>9 DEF CommitFailure, history
    <2>4. ran' \in [Keys -> Nat] /\ handled' \in [Messages -> Nat]
      BY <2>3 DEF TypeOK
    <2> QED  BY <2>2, <2>3, <2>4, CommitType DEF TypeOK
  <1>10. ASSUME NEW w \in Workers, Abort(w)
         PROVE  TypeOK'
    <2>1. /\ batch' \in [Workers -> SUBSET Messages]
          /\ cur' \in [Workers -> Messages \cup {None}]
          /\ \A v \in Workers \ {w} : cur'[v] = cur[v]
          /\ owned' = owned \ {w} /\ stale' = stale \ {w} /\ seen' = seen \ {w}
          /\ UNCHANGED <<row, begun, form, requeues, history>>
      BY <1>10 DEF Abort, TypeOK
    <2> QED  BY <2>1 DEF TypeOK, history
  <1>11. ASSUME NEW w \in Workers, ReturnRest(w)
         PROVE  TypeOK'
    <2>1. row' \in [Messages -> Row]
      BY <1>11, RowTypes DEF ReturnRest, TypeOK
    <2>2. stale' \subseteq Workers /\ \A v \in stale' : cur[v] # None
      BY <1>11, MessagesAssumption DEF ReturnRest, Overtaken, TypeOK
    <2>3. /\ batch' \in [Workers -> SUBSET Messages]
          /\ UNCHANGED <<cur, begun, owned, seen, form, requeues, history>>
      BY <1>11 DEF ReturnRest, TypeOK
    <2> QED  BY <2>1, <2>2, <2>3 DEF TypeOK, history
  <1> QED  BY <1>1, <1>2, <1>3, <1>4, <1>5, <1>6, <1>7, <1>8, <1>9, <1>10, <1>11
           DEF Next, WorkerStep

-----------------------------------------------------------------------------
(* Counting the runs that hold a message.                                   *)
LEMMA Count ==
    ASSUME NEW H \in SUBSET Workers, NEW w \in Workers
    PROVE  /\ Cardinality(H) \in Nat /\ (Cardinality(H) = 0 <=> H = {})
           /\ w \in H => Cardinality(H \ {w}) = Cardinality(H) - 1
           /\ w \notin H => Cardinality(H \cup {w}) = Cardinality(H) + 1
  <1>1. IsFiniteSet(H)
    BY WorkersAssumption, FS_Subset
  <1> QED  BY <1>1, FS_CardinalityType, FS_EmptySet, FS_RemoveElement, FS_AddElement

(* The four things a step may do to the tokens of a message.                *)
Untouched(m) ==
    /\ Holders(m)' = Holders(m) /\ handled'[m] = handled[m]
    /\ requeues' >= requeues
    /\ Takeable(m)' => Takeable(m) \/ requeues' > requeues

GivenUp(m, w) ==
    /\ w \in Holders(m) /\ Holders(m)' = Holders(m) \ {w}
    /\ requeues' = requeues
    /\ \/ handled'[m] = handled[m]
       \/ handled'[m] = handled[m] + 1 /\ ~Takeable(m)'

TakenBy(m, w) ==
    /\ w \notin Holders(m) /\ Holders(m)' = Holders(m) \cup {w}
    /\ Takeable(m) /\ ~Takeable(m)'
    /\ handled'[m] = handled[m] /\ requeues' = requeues

LEMMA TokenCases ==
    ASSUME TypeOK, TypeOK', Tokens,
           \A m \in Messages : \/ Untouched(m)
                               \/ \E w \in Workers : GivenUp(m, w) \/ TakenBy(m, w)
    PROVE  Tokens'
  <1> SUFFICES ASSUME NEW m \in Messages
               PROVE  (handled[m] + Cardinality(Holders(m)) + RowToken(m) <= 1 + requeues)'
    BY DEF Tokens
  <1> DEFINE H == Holders(m)
             C == Cardinality(Holders(m))
  <1>1. H \in SUBSET Workers /\ H' \in SUBSET Workers
    BY DEF Holders
  <1>2. /\ handled[m] \in Nat /\ handled'[m] \in Nat /\ requeues \in Nat /\ requeues' \in Nat
        /\ handled[m] + C + RowToken(m) <= 1 + requeues
    BY LimitsAssumption DEF TypeOK, Tokens
  <1>3. /\ RowToken(m) \in {0, 1} /\ RowToken(m)' \in {0, 1}
        /\ Takeable(m) <=> RowToken(m) = 1
        /\ Takeable(m)' <=> RowToken(m)' = 1
    BY DEF RowToken
  <1>4. CASE Untouched(m)
    <2>1. C' = C /\ \A w \in Workers : C \in Nat
      BY <1>1, <1>4, Count DEF Untouched
    <2>2. C \in Nat
      <3>1. IsFiniteSet(H)
        BY <1>1, WorkersAssumption, FS_Subset
      <3> QED  BY <3>1, FS_CardinalityType
    <2> QED  BY <1>2, <1>3, <1>4, <2>1, <2>2 DEF Untouched
  <1>5. ASSUME NEW w \in Workers, GivenUp(m, w)
        PROVE  handled'[m] + C' + RowToken(m)' <= 1 + requeues'
    <2>1. C \in Nat /\ C' = C - 1
      BY <1>1, <1>5, Count DEF GivenUp
    <2> QED  BY <1>2, <1>3, <1>5, <2>1 DEF GivenUp
  <1>6. ASSUME NEW w \in Workers, TakenBy(m, w)
        PROVE  handled'[m] + C' + RowToken(m)' <= 1 + requeues'
    <2>1. C \in Nat /\ C' = C + 1
      BY <1>1, <1>6, Count DEF TakenBy
    <2> QED  BY <1>2, <1>3, <1>6, <2>1 DEF TakenBy
  <1> QED  BY <1>4, <1>5, <1>6

Moves == \A m \in Messages :
             \/ Untouched(m)
             \/ \E w \in Workers : GivenUp(m, w) \/ TakenBy(m, w)

(* Steps that change no run: a delivery, an expired lease, a form.          *)
LEMMA RowSteps ==
    ASSUME TokenInv, TypeOK', NEW m \in Messages,
           Receive(m) \/ ExpireLease(m) \/ OpenForm(m) \/ Requeue(m)
    PROVE  Moves /\ LeaseOver' /\ Walked'
  <1>1. \A n \in Messages : Holders(n)' = Holders(n) /\ handled'[n] = handled[n]
    BY DEF Receive, ExpireLease, OpenForm, Requeue, Holders, runVars, history
  <1>2. Walked'
    BY DEF Receive, ExpireLease, OpenForm, Requeue, TokenInv, Walked, runVars
  <1>3. requeues \in Nat /\ requeues' \in Nat /\ row \in [Messages -> Row]
    BY LimitsAssumption DEF TokenInv, TypeOK
  <1>4. \A n \in Messages : row'[n].lease = "over" => Holders(n) = {}
    <2>1. CASE Receive(m)
      BY <2>1, <1>3 DEF Receive, TokenInv, LeaseOver, Row
    <2>2. CASE ExpireLease(m)
      <3>1. Holders(m) = {}
        BY <2>2 DEF ExpireLease, Holders
      <3> QED  BY <2>2, <3>1, <1>3 DEF ExpireLease, TokenInv, LeaseOver
    <2>3. CASE OpenForm(m)
      BY <2>3 DEF OpenForm, TokenInv, LeaseOver
    <2>4. CASE Requeue(m)
      BY <2>4, <1>3 DEF Requeue, Requeued, TokenInv, LeaseOver
    <2> QED  BY <2>1, <2>2, <2>3, <2>4
  <1>5. ASSUME NEW n \in Messages
        PROVE  requeues' >= requeues /\ (Takeable(n)' => Takeable(n) \/ requeues' > requeues)
    <2>1. CASE Receive(m)
      BY <2>1, <1>1, <1>3 DEF Receive, Takeable
    <2>2. CASE ExpireLease(m)
      BY <2>2, <1>1, <1>3 DEF ExpireLease, Takeable
    <2>3. CASE OpenForm(m)
      BY <2>3, <1>1, <1>3 DEF OpenForm, Takeable
    <2>4. CASE Requeue(m)
      BY <2>4, <1>3 DEF Requeue
    <2> QED  BY <2>1, <2>2, <2>3, <2>4
  <1> QED  BY <1>1, <1>2, <1>4, <1>5 DEF Moves, Untouched, LeaseOver

(* Recovery makes no token, a claim takes the row's.                        *)
LEMMA CronStep ==
    ASSUME TokenInv, TypeOK', NEW w \in Workers, RunCron(w)
    PROVE  Moves /\ LeaseOver' /\ Walked'
  <1> DEFINE rows == [m \in Messages |-> IF Expired(row[m]) THEN Failed(row[m]) ELSE row[m]]
             due == {m \in Messages : Due(rows[m]) /\ ~RowLocked(m)}
  <1>1. PICK S \in SUBSET due :
           /\ row' = [m \in Messages |-> IF m \in S THEN Claimed(rows[m]) ELSE rows[m]]
           /\ batch' = [batch EXCEPT ![w] = S]
    BY DEF RunCron
  <1>2. /\ cur[w] = None /\ batch[w] = {} /\ cur' = cur
        /\ requeues' = requeues /\ handled' = handled
    BY DEF RunCron, Idle, history
  <1>3. requeues \in Nat /\ row \in [Messages -> Row] /\ batch \in [Workers -> SUBSET Messages]
    BY LimitsAssumption DEF TokenInv, TypeOK
  <1>4. Walked'
    <2>1. \A v \in Workers : batch'[v] = IF v = w THEN S ELSE batch[v]
      BY <1>1, <1>3
    <2> QED  BY <1>2, <2>1, MessagesAssumption DEF Walked, TokenInv
  <1>5. ASSUME NEW m \in Messages
        PROVE  /\ w \notin Holders(m)
               /\ Holders(m)' = IF m \in S THEN Holders(m) \cup {w} ELSE Holders(m)
    BY <1>1, <1>2, <1>3, MessagesAssumption DEF Holders
  <1>6. ASSUME NEW m \in Messages, Expired(row[m])
        PROVE  Holders(m) = {} /\ Takeable(m)
    BY <1>6 DEF Expired, Takeable, LeaseOver, TokenInv
  <1>7. ASSUME NEW m \in Messages, m \in S
        PROVE  TakenBy(m, w) /\ row'[m].lease # "over"
    <2>1. rows[m] \in Row /\ row'[m] = Claimed(rows[m])
      BY <1>1, <1>3, <1>7, RowTypes
    <2>2. row'[m].status = "processing" /\ row'[m].lease = "live"
      BY <2>1, RowTypes
    <2>3. Takeable(m)
      <3>1. CASE Expired(row[m])
        BY <1>6, <3>1
      <3>2. CASE ~Expired(row[m])
        BY <1>7, <3>2 DEF Due, Takeable
      <3> QED  BY <3>1, <3>2
    <2>4. ~Takeable(m)'
      BY <1>5, <1>7, <2>2 DEF Takeable
    <2> QED  BY <1>2, <1>5, <1>7, <2>2, <2>3, <2>4 DEF TakenBy
  <1>8. ASSUME NEW m \in Messages, m \notin S
        PROVE  Untouched(m) /\ (row'[m].lease = "over" => Holders(m)' = {})
    <2>1. row'[m] = rows[m] /\ Holders(m)' = Holders(m)
      BY <1>1, <1>5, <1>8
    <2>2. CASE Expired(row[m])
      <3>1. row'[m].lease = "none"
        BY <1>3, <2>1, <2>2, RowTypes
      <3> QED  BY <1>2, <1>3, <1>6, <2>1, <2>2, <3>1 DEF Untouched
    <2>3. CASE ~Expired(row[m])
      BY <1>2, <1>3, <2>1, <2>3 DEF Untouched, Takeable, TokenInv, LeaseOver
    <2> QED  BY <2>2, <2>3
  <1> QED  BY <1>4, <1>7, <1>8 DEF Moves, LeaseOver

(* A run takes the next message of its batch.                               *)
LEMMA WalkStep ==
    ASSUME TokenInv, TypeOK', NEW w \in Workers, NEW m \in Messages,
           SkipDone(w, m) \/ Start(w, m)
    PROVE  Moves /\ LeaseOver' /\ Walked'
  <1>1. /\ cur[w] = None /\ m \in batch[w] /\ batch' = [batch EXCEPT ![w] = @ \ {m}]
        /\ row' = row /\ requeues' = requeues /\ handled' = handled
        /\ cur' = cur \/ cur' = [cur EXCEPT ![w] = m]
    BY DEF SkipDone, Start, NextItem, history
  <1>2. /\ requeues \in Nat /\ batch \in [Workers -> SUBSET Messages]
        /\ cur \in [Workers -> Messages \cup {None}]
    BY LimitsAssumption DEF TokenInv, TypeOK
  <1>3. Walked'
    <2>1. \A v \in Workers : batch'[v] = IF v = w THEN batch[w] \ {m} ELSE batch[v]
      BY <1>1, <1>2
    <2>2. \A v \in Workers : cur'[v] = cur[v] \/ (v = w /\ cur'[v] = m)
      <3>1. CASE cur' = cur
        BY <3>1
      <3>2. CASE cur' = [cur EXCEPT ![w] = m]
        BY <1>2, <3>2
      <3> QED  BY <1>1, <3>1, <3>2
    <2> QED  BY <2>1, <2>2 DEF Walked, TokenInv
  <1>4. CASE SkipDone(w, m)
    <2>1. cur' = cur /\ row[m].status = "done"
      BY <1>4 DEF SkipDone, AlreadyDone
    <2>2. w \in Holders(m) /\ Holders(m)' = Holders(m) \ {w}
      BY <1>1, <1>2, <2>1, MessagesAssumption DEF Holders
    <2>3. \A n \in Messages \ {m} : Holders(n)' = Holders(n)
      BY <1>1, <1>2, <2>1 DEF Holders
    <2>4. GivenUp(m, w)
      BY <1>1, <2>2 DEF GivenUp
    <2>5. \A n \in Messages \ {m} : Untouched(n)
      BY <1>1, <1>2, <2>3 DEF Untouched, Takeable
    <2>6. LeaseOver'
      BY <1>1, <2>2, <2>3 DEF LeaseOver, TokenInv
    <2> QED  BY <1>3, <2>4, <2>5, <2>6 DEF Moves
  <1>5. CASE Start(w, m)
    <2>1. cur' = [cur EXCEPT ![w] = m]
      BY <1>5 DEF Start
    <2>2. \A n \in Messages : Holders(n)' = Holders(n)
      BY <1>1, <1>2, <2>1, MessagesAssumption DEF Holders
    <2>3. \A n \in Messages : Untouched(n)
      BY <1>1, <1>2, <2>2 DEF Untouched, Takeable
    <2>4. LeaseOver'
      BY <1>1, <2>2 DEF LeaseOver, TokenInv
    <2> QED  BY <1>3, <2>3, <2>4 DEF Moves
  <1> QED  BY <1>4, <1>5

(* A run ends the message it handles.                                       *)
LEMMA CommitStep ==
    ASSUME TokenInv, TypeOK', NEW w \in Workers, CommitDone(w) \/ CommitFailure(w)
    PROVE  Moves /\ LeaseOver' /\ Walked'
  <1>1. /\ requeues \in Nat /\ batch \in [Workers -> SUBSET Messages]
        /\ cur \in [Workers -> Messages \cup {None}] /\ row \in [Messages -> Row]
        /\ handled \in [Messages -> Nat]
    BY LimitsAssumption DEF TokenInv, TypeOK
  <1>2. PICK c \in Messages : c = cur[w] /\ View(w) \in Row
    BY ViewType DEF CommitDone, CommitFailure, CommitItem, TokenInv
  <1>3. /\ cur' = [cur EXCEPT ![w] = None] /\ batch' = batch /\ requeues' = requeues
        /\ \A n \in Messages \ {c} : row'[n] = row[n]
    BY <1>1, <1>2 DEF CommitDone, CommitFailure, CommitItem
  <1>4. row'[c].lease = "none" /\ (CommitDone(w) => row'[c].status = "done")
    BY <1>1, <1>2, RowTypes DEF CommitDone, CommitFailure, CommitItem
  <1>5. \A v \in Workers : cur'[v] = IF v = w THEN None ELSE cur[v]
    BY <1>1, <1>3
  <1>6. Walked'
    BY <1>1, <1>3, <1>5, MessagesAssumption DEF Walked, TokenInv
  <1>7. w \in Holders(c) /\ Holders(c)' = Holders(c) \ {w}
    <2>1. c \notin batch[w]
      BY <1>2 DEF Walked, TokenInv
    <2> QED  BY <1>2, <1>3, <1>5, <2>1, MessagesAssumption DEF Holders
  <1>8. \A n \in Messages \ {c} : Holders(n)' = Holders(n)
    BY <1>2, <1>3, <1>5, MessagesAssumption DEF Holders
  <1>9. /\ \A n \in Messages \ {c} : handled'[n] = handled[n]
        /\ \/ handled'[c] = handled[c]
           \/ handled'[c] = handled[c] + 1 /\ CommitDone(w)
    <2>1. CASE CommitDone(w)
      BY <1>1, <1>2, <2>1 DEF CommitDone
    <2>2. CASE CommitFailure(w)
      BY <2>2 DEF CommitFailure, history
    <2> QED  BY <2>1, <2>2
  <1>10. GivenUp(c, w)
    <2>1. CommitDone(w) => ~Takeable(c)'
      BY <1>4 DEF Takeable
    <2> QED  BY <1>3, <1>7, <1>9, <2>1 DEF GivenUp
  <1>11. \A n \in Messages \ {c} : Untouched(n)
    BY <1>1, <1>3, <1>8, <1>9 DEF Untouched, Takeable
  <1>12. LeaseOver'
    BY <1>3, <1>4, <1>8 DEF LeaseOver, TokenInv
  <1> QED  BY <1>6, <1>10, <1>11, <1>12 DEF Moves

(* A run loses or gives back what it holds.                                 *)
LEMMA DropStep ==
    ASSUME TokenInv, TypeOK', NEW w \in Workers, Abort(w) \/ ReturnRest(w)
    PROVE  Moves /\ LeaseOver' /\ Walked'
  <1>1. /\ requeues \in Nat /\ batch \in [Workers -> SUBSET Messages]
        /\ cur \in [Workers -> Messages \cup {None}] /\ row \in [Messages -> Row]
    BY LimitsAssumption DEF TokenInv, TypeOK
  <1>2. /\ batch' = [batch EXCEPT ![w] = {}] /\ requeues' = requeues /\ handled' = handled
        /\ cur' = [cur EXCEPT ![w] = None]
    BY <1>1 DEF Abort, ReturnRest, history
  <1>3. Walked'
    <2>1. \A v \in Workers : batch'[v] = IF v = w THEN {} ELSE batch[v]
      BY <1>1, <1>2
    <2>2. \A v \in Workers : v # w => cur'[v] = cur[v]
      BY <1>1, <1>2
    <2> QED  BY <2>1, <2>2 DEF Walked, TokenInv
  <1>4. \A n \in Messages : Holders(n)' = Holders(n) \ {w}
    BY <1>1, <1>2, MessagesAssumption DEF Holders
  <1>5. ASSUME NEW n \in Messages, w \notin Holders(n)
        PROVE  row'[n] = row[n] /\ Untouched(n)
    <2>1. row'[n] = row[n]
      BY <1>1, <1>5 DEF Abort, ReturnRest, Holders
    <2> QED  BY <1>1, <1>2, <1>4, <1>5, <2>1 DEF Untouched, Takeable
  <1>6. \A n \in Messages : w \in Holders(n) => GivenUp(n, w)
    BY <1>2, <1>4 DEF GivenUp
  <1>7. \A n \in Messages : row'[n] = row[n] \/ row'[n].lease = "none"
    BY <1>1, RowTypes DEF Abort, ReturnRest
  <1>8. LeaseOver'
    BY <1>4, <1>7 DEF LeaseOver, TokenInv
  <1> QED  BY <1>3, <1>5, <1>6, <1>8 DEF Moves

-----------------------------------------------------------------------------
LEMMA StepInv == TokenInv /\ [Next]_vars => TokenInv'
  <1> SUFFICES ASSUME TokenInv, [Next]_vars  PROVE TokenInv'
    OBVIOUS
  <1>1. TypeOK /\ TypeOK' /\ Tokens
    BY TypeStep DEF TokenInv
  <1>2. Moves /\ LeaseOver' /\ Walked'
    <2>1. CASE UNCHANGED vars
      <3>1. requeues \in Nat
        BY <1>1, LimitsAssumption DEF TypeOK
      <3> QED  BY <2>1, <3>1 DEF vars, runVars, history, TokenInv, LeaseOver, Walked,
                                 Moves, Untouched, Takeable, Holders
    <2>2. ASSUME NEW m \in Messages, Receive(m) \/ ExpireLease(m) \/ OpenForm(m) \/ Requeue(m)
          PROVE  Moves /\ LeaseOver' /\ Walked'
      BY <1>1, <2>2, RowSteps
    <2>3. ASSUME NEW w \in Workers, RunCron(w)
          PROVE  Moves /\ LeaseOver' /\ Walked'
      BY <1>1, <2>3, CronStep
    <2>4. ASSUME NEW w \in Workers, NEW m \in Messages, SkipDone(w, m) \/ Start(w, m)
          PROVE  Moves /\ LeaseOver' /\ Walked'
      BY <1>1, <2>4, WalkStep
    <2>5. ASSUME NEW w \in Workers, CommitDone(w) \/ CommitFailure(w)
          PROVE  Moves /\ LeaseOver' /\ Walked'
      BY <1>1, <2>5, CommitStep
    <2>6. ASSUME NEW w \in Workers, Abort(w) \/ ReturnRest(w)
          PROVE  Moves /\ LeaseOver' /\ Walked'
      BY <1>1, <2>6, DropStep
    <2> QED  BY <2>1, <2>2, <2>3, <2>4, <2>5, <2>6 DEF Next, WorkerStep
  <1>3. Tokens'
    BY <1>1, <1>2, TokenCases DEF Moves
  <1> QED  BY <1>1, <1>2, <1>3 DEF TokenInv

(* The rows, the batches and the open transactions keep their types         *)
(* through every claim, retry, return and requeue (message_inbox.py).       *)
THEOREM TypeCorrect == Spec => []TypeOK
  <1>1. Init => TypeOK
    BY InitInv DEF TokenInv
  <1> QED  BY <1>1, TypeStep, PTL DEF Spec

(* handle_inbound commits once for each message, plus once at most for each *)
(* click on "Reprocessar" (_process_one, _recover_expired_leases,           *)
(* action_requeue).                                                         *)
THEOREM HandledSafety == Spec => []HandledOnce
  <1>1. TokenInv => HandledOnce
    <2> SUFFICES ASSUME TokenInv, NEW m \in Messages  PROVE handled[m] <= 1 + requeues
      BY DEF HandledOnce
    <2>1. Holders(m) \in SUBSET Workers
      BY DEF Holders
    <2>2. Cardinality(Holders(m)) \in Nat
      BY <2>1, WorkersAssumption, FS_Subset, FS_CardinalityType
    <2>3. /\ handled[m] \in Nat /\ requeues \in Nat /\ RowToken(m) \in {0, 1}
          /\ handled[m] + Cardinality(Holders(m)) + RowToken(m) <= 1 + requeues
      BY LimitsAssumption DEF TokenInv, TypeOK, Tokens, RowToken
    <2> QED  BY <2>2, <2>3
  <1> QED  BY <1>1, InitInv, StepInv, PTL DEF Spec

(* A business action commits once for its key, whatever the runs that ask   *)
(* for it can see of each other (business_action.py, _run_once).            *)
THEOREM BusinessSafety == Spec => []BusinessOnce
  <1>1. Init => TypeOK /\ BusinessOnce
    <2>1. Init => BusinessOnce
      BY DEF Init, BusinessOnce
    <2> QED  BY <2>1, InitInv DEF TokenInv
  <1>2. TypeOK /\ BusinessOnce /\ [Next]_vars => BusinessOnce'
    <2> SUFFICES ASSUME TypeOK, BusinessOnce, [Next]_vars  PROVE BusinessOnce'
      OBVIOUS
    <2>1. ASSUME NEW w \in Workers, CommitDone(w)
          PROVE  BusinessOnce'
      <3>1. cur[w] # None /\ RunOnce(w)
        BY <2>1 DEF CommitDone, CommitItem
      <3>2. \A k \in Keys : ran'[k] = ran[k] \/ ran'[k] = 1
        BY <3>1, RanType
      <3> QED  BY <3>2 DEF BusinessOnce
    <2>2. CASE UNCHANGED ran
      BY <2>2 DEF BusinessOnce
    <2> QED  BY <2>1, <2>2 DEF Next, WorkerStep, vars, history, Receive, ExpireLease, OpenForm,
                              Requeue, RunCron, SkipDone, Start, CommitFailure, Abort, ReturnRest
  <1> QED  BY <1>1, <1>2, TypeStep, PTL DEF Spec

-----------------------------------------------------------------------------
(***************************************************************************)
(* Who has which message.  No message is picked up before it was received, *)
(* and until somebody clicks "Reprocessar" the row of a message in a run's *)
(* hands is "processing": recovery waits for the lease, a claim for        *)
(* "pending" or "failed", and (by Tokens) there is no second run.          *)
(***************************************************************************)
Hands ==
    /\ \A m \in Messages : row[m].status = "absent" => m \notin form /\ Holders(m) = {}
    /\ requeues = 0 =>
          \A m \in Messages : Holders(m) # {} => row[m].status = "processing"

(* The snapshot of a run shows the action only after it was executed. *)
SeenRan == \A w \in seen : KeyOf[cur[w]] \in Keys /\ ran[KeyOf[cur[w]]] > 0

IInv == TokenInv /\ BusinessOnce /\ Hands /\ SeenRan

LEMMA RowStages ==
    ASSUME NEW r \in Row
    PROVE  /\ Failed(r).status \in {"dead", "failed"}
           /\ Returned(r).status = "pending" /\ Requeued(r).status = "pending"
  <1>1. \A s \in Statuses : Settled(r, s).status = s /\ Settled(r, s) \in Row
    BY DEF Settled, Row
  <1>2. Failed(r).status \in {"dead", "failed"}
    BY <1>1 DEF Failed, Statuses
  <1>3. Settled(r, "pending").status = "pending" /\ Settled(r, "pending") \in Row
    BY <1>1 DEF Statuses
  <1>4. Returned(r).status = "pending"
    BY <1>3 DEF Returned, Row
  <1> QED  BY <1>2, <1>4 DEF Requeued

LEMMA HolderCount ==
    ASSUME NEW m \in Messages, NEW w \in Workers
    PROVE  /\ Cardinality(Holders(m)) \in Nat
           /\ w \in Holders(m) /\ Cardinality(Holders(m)) <= 1 => Holders(m) = {w}
  <1>1. Holders(m) \in SUBSET Workers /\ Holders(m) \ {w} \in SUBSET Workers
    BY DEF Holders
  <1> DEFINE H == Holders(m)
             G == Holders(m) \ {w}
  <1>2. /\ Cardinality(H) \in Nat /\ Cardinality(G) \in Nat
        /\ Cardinality(G) = 0 <=> G = {}
        /\ w \in H => Cardinality(G) = Cardinality(H) - 1
    <2> HIDE DEF H
    <2> QED  BY <1>1, Count DEF H
  <1> HIDE DEF H
  <1>3. ASSUME w \in H, Cardinality(H) <= 1 PROVE H = {w}
    <2>1. Cardinality(G) = 0
      BY <1>2, <1>3
    <2>2. G = {} /\ G = H \ {w}
      BY <1>2, <2>1 DEF H
    <2> QED  BY <1>3, <2>2
  <1> QED  BY <1>2, <1>3 DEF H

(* Until the first click a message has one holder. *)
LEMMA OneHolder ==
    ASSUME TokenInv, requeues = 0, NEW m \in Messages, NEW w \in Holders(m)
    PROVE  Holders(m) = {w}
  <1>1. w \in Workers
    BY DEF Holders
  <1>2. /\ handled[m] \in Nat /\ RowToken(m) \in {0, 1}
        /\ handled[m] + Cardinality(Holders(m)) + RowToken(m) <= 1 + requeues
    BY DEF TokenInv, TypeOK, Tokens, RowToken
  <1> QED  BY <1>1, <1>2, HolderCount

LEMMA HandsKept ==
    ASSUME Hands, requeues' = 0 => requeues = 0,
           \A m \in Messages :
              /\ row'[m].status = "absent" =>
                    /\ row[m].status = "absent" /\ Holders(m)' \subseteq Holders(m)
                    /\ m \in form' => m \in form
              /\ requeues' = 0 =>
                    \/ Holders(m)' = {}
                    \/ row'[m].status = "processing"
                    \/ Holders(m)' \subseteq Holders(m) /\ row'[m] = row[m]
    PROVE  Hands'
  <1>1. ASSUME NEW m \in Messages, row'[m].status = "absent"
        PROVE  m \notin form' /\ Holders(m)' = {}
    BY <1>1 DEF Hands
  <1>2. ASSUME requeues' = 0, NEW m \in Messages, Holders(m)' # {}
        PROVE  row'[m].status = "processing"
    BY <1>2 DEF Hands
  <1> QED  BY <1>1, <1>2 DEF Hands

LEMMA HandsStep == TokenInv /\ Hands /\ [Next]_vars => Hands'
  <1> SUFFICES ASSUME TokenInv, Hands, [Next]_vars  PROVE Hands'
    OBVIOUS
  <1>0. /\ row \in [Messages -> Row] /\ batch \in [Workers -> SUBSET Messages]
        /\ cur \in [Workers -> Messages \cup {None}] /\ requeues \in Nat
        /\ None \notin Messages
    BY MessagesAssumption, LimitsAssumption DEF TokenInv, TypeOK
  <1>1. CASE UNCHANGED <<row, batch, cur, requeues, form>>
    BY <1>1, HandsKept DEF Holders
  <1>2. ASSUME NEW m \in Messages, Receive(m)  PROVE Hands'
    <2>1. \A n \in Messages : Holders(n)' = Holders(n)
      BY <1>2 DEF Receive, runVars, Holders
    <2>2. /\ \A n \in Messages \ {m} : row'[n] = row[n]
          /\ row'[m].status = "pending" /\ row[m].status = "absent"
          /\ form' = form /\ requeues' = requeues
      BY <1>0, <1>2 DEF Receive, Row
    <2>3. Holders(m) = {}
      BY <2>2 DEF Hands
    <2> QED  BY <2>1, <2>2, <2>3, HandsKept
  <1>3. ASSUME NEW m \in Messages, ExpireLease(m)  PROVE Hands'
    <2>1. \A n \in Messages : Holders(n)' = Holders(n)
      BY <1>3 DEF ExpireLease, runVars, Holders
    <2>2. /\ \A n \in Messages \ {m} : row'[n] = row[n]
          /\ row'[m].status = "processing" /\ form' = form /\ requeues' = requeues
      BY <1>0, <1>3 DEF ExpireLease, Row
    <2> QED  BY <2>1, <2>2, HandsKept
  <1>4. ASSUME NEW m \in Messages, OpenForm(m)  PROVE Hands'
    BY <1>4 DEF OpenForm, runVars, Holders, Hands
  <1>5. ASSUME NEW m \in Messages, Requeue(m)  PROVE Hands'
    <2>1. \A n \in Messages : Holders(n)' = Holders(n)
      BY <1>5 DEF Requeue, runVars, Holders
    <2>2. /\ \A n \in Messages \ {m} : row'[n] = row[n]
          /\ row'[m].status = "pending"
          /\ form' \subseteq form /\ requeues' # 0
      BY <1>0, <1>5, RowStages DEF Requeue
    <2> QED  BY <2>1, <2>2, HandsKept
  <1>6. ASSUME NEW w \in Workers, RunCron(w)  PROVE Hands'
    <2> DEFINE rows == [m \in Messages |-> IF Expired(row[m]) THEN Failed(row[m]) ELSE row[m]]
               due == {m \in Messages : Due(rows[m]) /\ ~RowLocked(m)}
    <2>1. PICK S \in SUBSET due :
             /\ row' = [m \in Messages |-> IF m \in S THEN Claimed(rows[m]) ELSE rows[m]]
             /\ batch' = [batch EXCEPT ![w] = S]
      BY <1>6 DEF RunCron
    <2>2. cur[w] = None /\ UNCHANGED <<cur, form, requeues>>
      BY <1>6 DEF RunCron, Idle
    <2>3. ASSUME NEW m \in Messages
          PROVE  /\ rows[m] \in Row
                 /\ rows[m].status = "absent" => rows[m] = row[m]
                 /\ Holders(m) # {} => rows[m] = row[m]
      <3>1. CASE Expired(row[m])
        <4>1. Holders(m) = {}
          BY <3>1 DEF Expired, LeaseOver, TokenInv
        <4>2. rows[m] = Failed(row[m]) /\ row[m] \in Row
          BY <1>0, <3>1
        <4> HIDE DEF rows
        <4> QED  BY <4>1, <4>2, RowTypes, RowStages
      <3>2. CASE ~Expired(row[m])
        BY <1>0, <3>2
      <3> QED  BY <3>1, <3>2
    <2>4. ASSUME NEW m \in Messages
          PROVE  Holders(m)' = IF m \in S THEN Holders(m) \cup {w} ELSE Holders(m)
      <3>1. \A v \in Workers : batch'[v] = IF v = w THEN S ELSE batch[v]
        BY <1>0, <2>1
      <3>2. batch[w] = {}
        BY <1>6 DEF RunCron, Idle
      <3> HIDE DEF due, rows
      <3> QED  BY <1>0, <2>2, <3>1, <3>2 DEF Holders
    <2>5. \A m \in Messages : row'[m] = IF m \in S THEN Claimed(rows[m]) ELSE rows[m]
      BY <2>1
    <2> HIDE DEF rows, due
    <2>6. \A m \in S : m \in Messages => row'[m].status = "processing"
      BY <2>3, <2>5, RowTypes
    <2>7. ASSUME NEW m \in Messages, m \notin S
          PROVE  /\ row'[m] = rows[m] /\ Holders(m)' = Holders(m)
                 /\ row'[m].status = "absent" => row'[m] = row[m]
                 /\ Holders(m) = {} \/ row'[m] = row[m]
      BY <2>3, <2>4, <2>5, <2>7
    <2> QED  BY <2>2, <2>6, <2>7, HandsKept
  <1>7. ASSUME NEW w \in Workers, NEW m \in Messages, SkipDone(w, m) \/ Start(w, m)
        PROVE  Hands'
    <2>1. /\ row' = row /\ m \in batch[w] /\ UNCHANGED <<form, requeues>>
          /\ batch' = [batch EXCEPT ![w] = @ \ {m}]
          /\ cur' = cur \/ cur' = [cur EXCEPT ![w] = m]
      BY <1>7 DEF SkipDone, Start, NextItem
    <2>2. \A n \in Messages : Holders(n)' \subseteq Holders(n)
      BY <1>0, <2>1 DEF Holders
    <2> QED  BY <2>1, <2>2, HandsKept
  <1>8. ASSUME NEW w \in Workers, CommitDone(w) \/ CommitFailure(w)  PROVE Hands'
    <2>1. PICK c \in Messages : c = cur[w] /\ View(w) \in Row
      BY <1>8, ViewType DEF CommitDone, CommitFailure, CommitItem, TokenInv
    <2>2. /\ cur' = [cur EXCEPT ![w] = None] /\ UNCHANGED <<batch, form, requeues>>
          /\ \A n \in Messages \ {c} : row'[n] = row[n]
          /\ row'[c] \in {Settled(View(w), "done"), Failed(View(w))}
      BY <1>0, <1>8, <2>1 DEF CommitDone, CommitFailure, CommitItem
    <2>3. row'[c].status # "absent"
      BY <2>1, <2>2, RowTypes, RowStages
    <2>4. \A n \in Messages : Holders(n)' \subseteq Holders(n)
      BY <1>0, <2>2 DEF Holders
    <2>5. w \in Holders(c) /\ w \notin Holders(c)'
      BY <1>0, <2>1, <2>2 DEF Holders, TokenInv, Walked
    <2>6. requeues = 0 => Holders(c)' = {}
      BY <2>4, <2>5, OneHolder
    <2> QED  BY <2>2, <2>3, <2>4, <2>6, HandsKept
  <1>9. ASSUME NEW w \in Workers, Abort(w)  PROVE Hands'
    <2>1. /\ batch' = [batch EXCEPT ![w] = {}] /\ cur' = [cur EXCEPT ![w] = None]
          /\ UNCHANGED <<row, form, requeues>>
      BY <1>9 DEF Abort
    <2>2. \A n \in Messages : Holders(n)' \subseteq Holders(n)
      BY <1>0, <2>1 DEF Holders
    <2> QED  BY <2>1, <2>2, HandsKept
  <1>10. ASSUME NEW w \in Workers, ReturnRest(w)  PROVE Hands'
    <2>1. /\ row' = [m \in Messages |-> IF m \in batch[w] THEN Returned(row[m]) ELSE row[m]]
          /\ batch' = [batch EXCEPT ![w] = {}] /\ cur[w] = None
          /\ UNCHANGED <<cur, form, requeues>>
      BY <1>10 DEF ReturnRest
    <2>2. \A n \in Messages : Holders(n)' = Holders(n) \ {w}
      BY <1>0, <2>1 DEF Holders
    <2>3. \A n \in Messages : /\ n \notin batch[w] => row'[n] = row[n]
                              /\ n \in batch[w] => row'[n].status = "pending" /\ w \in Holders(n)
      BY <1>0, <2>1, RowStages DEF Holders
    <2>4. \A n \in Messages : requeues = 0 /\ n \in batch[w] => Holders(n)' = {}
      BY <2>2, <2>3, OneHolder
    <2> QED  BY <2>1, <2>2, <2>3, <2>4, HandsKept
  <1> QED  BY <1>1, <1>2, <1>3, <1>4, <1>5, <1>6, <1>7, <1>8, <1>9, <1>10
           DEF Next, WorkerStep, vars, runVars

LEMMA SeenStep == TypeOK /\ SeenRan /\ [Next]_vars => SeenRan'
  <1> SUFFICES ASSUME TypeOK, SeenRan, [Next]_vars  PROVE SeenRan'
    OBVIOUS
  <1>0. /\ cur \in [Workers -> Messages \cup {None}] /\ ran \in [Keys -> Nat]
        /\ seen \subseteq Workers
        /\ \A m \in Messages : KeyOf[m] = None \/ KeyOf[m] \in Keys
    BY MessagesAssumption DEF TypeOK
  <1>1. CASE UNCHANGED <<cur, seen, ran>>
    BY <1>1 DEF SeenRan
  <1>2. ASSUME NEW w \in Workers, NEW m \in Messages, Start(w, m)  PROVE SeenRan'
    <2>1. /\ cur' = [cur EXCEPT ![w] = m] /\ ran' = ran /\ cur[w] = None
          /\ seen' = IF KeyOf[m] # None /\ ran[KeyOf[m]] > 0 THEN seen \cup {w} ELSE seen
      BY <1>2 DEF Start, NextItem
    <2>2. w \notin seen
      BY <2>1 DEF TypeOK
    <2> QED  BY <1>0, <2>1, <2>2 DEF SeenRan
  <1>3. ASSUME NEW w \in Workers, CommitDone(w)  PROVE SeenRan'
    <2>1. /\ cur' = [cur EXCEPT ![w] = None] /\ seen' = seen \ {w}
          /\ cur[w] # None /\ RunOnce(w)
      BY <1>3 DEF CommitDone, CommitItem
    <2>2. ran' \in [Keys -> Nat] /\ \A k \in Keys : ran[k] > 0 => ran'[k] > 0
      BY <1>0, <2>1, RanType
    <2> QED  BY <1>0, <2>1, <2>2 DEF SeenRan
  <1>4. ASSUME NEW w \in Workers, CommitFailure(w) \/ Abort(w)  PROVE SeenRan'
    <2>1. /\ cur' = [cur EXCEPT ![w] = None] /\ seen' = seen \ {w} /\ ran' = ran
      BY <1>4 DEF CommitFailure, CommitItem, Abort, history
    <2> QED  BY <1>0, <2>1 DEF SeenRan
  <1> QED  BY <1>1, <1>2, <1>3, <1>4
           DEF Next, WorkerStep, vars, runVars, history, Receive, ExpireLease, OpenForm,
               Requeue, RunCron, SkipDone, ReturnRest

LEMMA Invariant == Spec => []IInv
  <1>1. Init => Hands /\ SeenRan
    BY MessagesAssumption DEF Init, Hands, SeenRan, Holders
  <1>2. TokenInv => TypeOK
    BY DEF TokenInv
  <1> QED  BY <1>1, <1>2, InitInv, StepInv, HandsStep, SeenStep, BusinessSafety, PTL
           DEF Spec, IInv

-----------------------------------------------------------------------------
(***************************************************************************)
(* MessageInbox implements MessageHandling.                                *)
(***************************************************************************)
shown == <<Stages, cur, ran, requeues>>

LEMMA Mapped ==
    ASSUME NEW m \in Messages
    PROVE  Stages[m] = StageOf(row[m]) /\ Stages'[m] = StageOf(row'[m])
  BY DEF Stages

(* Two ways to tell what becomes of the stages. *)
LEMMA SameStages ==
    ASSUME \A m \in Messages : StageOf(row'[m]) = StageOf(row[m])
    PROVE  Stages' = Stages
  BY DEF Stages

LEMMA OneStage ==
    ASSUME TypeOK, NEW m \in Messages,
           \A n \in Messages \ {m} : row'[n] = row[n]
    PROVE  Stages' = [Stages EXCEPT ![m] = StageOf(row'[m])]
  <1>1. Stages' = [n \in Messages |-> IF n = m THEN StageOf(row'[m]) ELSE StageOf(row[n])]
    BY DEF Stages
  <1>2. [Stages EXCEPT ![m] = StageOf(row'[m])]
          = [n \in Messages |-> IF n = m THEN StageOf(row'[m]) ELSE StageOf(row[n])]
    BY DEF Stages
  <1> QED  BY <1>1, <1>2

LEMMA MessageHandled ==
    ASSUME IInv, NEW m \in Messages,
           Receive(m) \/ ExpireLease(m) \/ OpenForm(m) \/ Requeue(m)
    PROVE  [Handling!Next]_shown
  <1>0. TypeOK /\ row[m] \in Row
    BY DEF IInv, TokenInv, TypeOK
  <1>1. CASE Receive(m)
    <2>1. /\ row[m].status = "absent" /\ row'[m].status = "pending"
          /\ \A n \in Messages \ {m} : row'[n] = row[n]
          /\ UNCHANGED <<cur, ran, requeues>>
      BY <1>0, <1>1 DEF Receive, runVars, history, TypeOK, Row
    <2>2. StageOf(row'[m]) = "waiting" /\ Stages[m] = "absent"
      BY <2>1, Mapped DEF StageOf
    <2>3. Stages' = [Stages EXCEPT ![m] = "waiting"]
      BY <1>0, <2>1, <2>2, OneStage
    <2>4. Handling!Arrive(m)
      BY <2>1, <2>2, <2>3 DEF Handling!Arrive
    <2> QED  BY <2>4 DEF Handling!Next
  <1>2. CASE ExpireLease(m)
    <2>1. /\ row'[m].status = row[m].status
          /\ \A n \in Messages \ {m} : row'[n] = row[n]
          /\ UNCHANGED <<cur, ran, requeues>>
      BY <1>0, <1>2 DEF ExpireLease, runVars, history, TypeOK, Row
    <2>2. Stages' = Stages
      BY <2>1, SameStages DEF StageOf
    <2> QED  BY <2>1, <2>2 DEF shown
  <1>3. CASE OpenForm(m)
    BY <1>3 DEF OpenForm, runVars, history, shown, Stages
  <1>4. CASE Requeue(m)
    <2>1. /\ row'[m].status = "pending" /\ m \in form
          /\ \A n \in Messages \ {m} : row'[n] = row[n]
          /\ requeues' = requeues + 1 /\ UNCHANGED <<cur, ran>>
      BY <1>0, <1>4, RowStages DEF Requeue, runVars, history, TypeOK
    <2>2. StageOf(row'[m]) = "waiting"
      BY <2>1 DEF StageOf
    <2>3. Stages[m] # "absent"
      BY <2>1, Mapped DEF StageOf, IInv, Hands
    <2>4. Stages' = [Stages EXCEPT ![m] = "waiting"]
      BY <1>0, <2>1, <2>2, OneStage
    <2>5. Handling!Reprocess(m)
      BY <2>1, <2>3, <2>4 DEF Handling!Reprocess
    <2> QED  BY <2>5 DEF Handling!Next
  <1> QED  BY <1>1, <1>2, <1>3, <1>4

(* A message in a run's hands that is not done may be begun. *)
LEMMA WalkHandled ==
    ASSUME IInv, NEW w \in Workers, NEW m \in Messages, SkipDone(w, m) \/ Start(w, m)
    PROVE  [Handling!Next]_shown
  <1>0. TypeOK /\ TokenInv /\ Hands
    BY DEF IInv, TokenInv
  <1>1. CASE SkipDone(w, m)
    BY <1>1 DEF SkipDone, history, shown, Stages
  <1>2. CASE Start(w, m)
    <2>1. /\ cur[w] = None /\ m \in batch[w] /\ row[m].status # "done"
          /\ cur' = [cur EXCEPT ![w] = m] /\ UNCHANGED <<row, ran, requeues>>
      BY <1>2 DEF Start, NextItem, AlreadyDone
    <2>2. w \in Holders(m) /\ row[m] \in Row
      BY <1>0, <2>1 DEF Holders, TypeOK
    <2>3. row[m].status # "absent"
      BY <1>0, <2>2 DEF Hands
    <2>4. Stages[m] \in {"waiting", "dead"}
      BY <2>1, <2>2, <2>3, Mapped DEF StageOf, Row, Statuses
    <2>5. ASSUME requeues = 0  PROVE Stages[m] = "waiting" /\ ~Handling!Taken(m)
      <3>1. Holders(m) = {w}
        BY <1>0, <2>2, <2>5, OneHolder
      <3>2. row[m].status = "processing"
        BY <1>0, <2>2, <2>5 DEF Hands
      <3>3. \A v \in Workers : cur[v] # m
        BY <2>1, <3>1, MessagesAssumption DEF Holders
      <3> QED  BY <3>2, <3>3, Mapped DEF StageOf, Handling!Taken
    <2>6. requeues = 0 \/ requeues > 0
      BY <1>0, LimitsAssumption DEF TypeOK
    <2>7. Stages' = Stages
      BY <2>1 DEF Stages
    <2>8. Handling!Begin(w, m)
      BY <2>1, <2>4, <2>5, <2>6, <2>7 DEF Handling!Begin
    <2> QED  BY <2>8 DEF Handling!Next
  <1> QED  BY <1>1, <1>2

(* "done" comes with the action of the key executed: in this commit, or     *)
(* before the snapshot that showed it.                                      *)
LEMMA EffectOnce ==
    ASSUME IInv, NEW w \in Workers, cur[w] # None, RunOnce(w)
    PROVE  ran' = IF KeyOf[cur[w]] = None THEN ran
                  ELSE [ran EXCEPT ![KeyOf[cur[w]]] = 1]
  <1>0. /\ ran \in [Keys -> Nat] /\ cur[w] \in Messages
        /\ KeyOf[cur[w]] = None \/ KeyOf[cur[w]] \in Keys
    BY MessagesAssumption DEF IInv, TokenInv, TypeOK
  <1>1. CASE KeyOf[cur[w]] = None
    BY <1>1 DEF RunOnce
  <1>2. CASE KeyOf[cur[w]] # None /\ w \in seen
    <2>1. ran' = ran /\ ran[KeyOf[cur[w]]] > 0 /\ ran[KeyOf[cur[w]]] <= 1
      BY <1>0, <1>2 DEF RunOnce, IInv, SeenRan, BusinessOnce
    <2>2. ran[KeyOf[cur[w]]] = 1
      BY <1>0, <1>2, <2>1
    <2> QED  BY <1>0, <1>2, <2>1, <2>2
  <1>3. CASE KeyOf[cur[w]] # None /\ w \notin seen
    BY <1>0, <1>3 DEF RunOnce, KeyFree
  <1> QED  BY <1>1, <1>2, <1>3

LEMMA OutcomeHandled ==
    ASSUME IInv, NEW w \in Workers, CommitDone(w) \/ CommitFailure(w) \/ Abort(w)
    PROVE  [Handling!Next]_shown
  <1>0. TypeOK
    BY DEF IInv, TokenInv
  <1>1. ASSUME NEW r \in Row, CommitItem(w, r)
        PROVE  /\ cur[w] \in Messages /\ cur[w] # None
               /\ cur' = [cur EXCEPT ![w] = None]
               /\ Stages' = [Stages EXCEPT ![cur[w]] = StageOf(r)]
    <2>1. /\ cur[w] \in Messages /\ cur[w] # None
          /\ cur' = [cur EXCEPT ![w] = None]
          /\ row'[cur[w]] = r /\ \A n \in Messages \ {cur[w]} : row'[n] = row[n]
      BY <1>0, <1>1 DEF CommitItem, TypeOK
    <2> QED  BY <1>0, <2>1, OneStage
  <1>2. CASE CommitDone(w)
    <2> DEFINE r == Settled(View(w), "done")
    <2>1. /\ cur[w] # None /\ CommitItem(w, r) /\ RunOnce(w)
          /\ requeues' = requeues
      BY <1>2 DEF CommitDone, CommitItem
    <2>2. r \in Row /\ r.status = "done"
      BY <1>0, <2>1, ViewType, RowTypes
    <2> HIDE DEF r
    <2>3. StageOf(r) = "done"
      BY <2>2 DEF StageOf
    <2>4. Handling!End(w, "done")
      BY <1>1, <2>1, <2>2, <2>3 DEF Handling!End
    <2>5. Handling!Finish(w)
      BY <2>1, <2>4, EffectOnce DEF Handling!Finish
    <2> QED  BY <2>5 DEF Handling!Next
  <1>3. CASE CommitFailure(w)
    <2> DEFINE r == Failed(View(w))
    <2>1. cur[w] # None /\ CommitItem(w, r) /\ UNCHANGED <<requeues, ran>>
      BY <1>3 DEF CommitFailure, CommitItem, history
    <2>2. r \in Row /\ r.status \in {"dead", "failed"}
      BY <1>0, <2>1, ViewType, RowTypes, RowStages
    <2> HIDE DEF r
    <2>3. StageOf(r) = "dead" \/ StageOf(r) = "waiting"
      BY <2>2 DEF StageOf
    <2>4. Handling!End(w, StageOf(r))
      BY <1>1, <2>1, <2>2 DEF Handling!End
    <2>5. Handling!Fail(w)
      BY <2>1, <2>3, <2>4 DEF Handling!Fail
    <2> QED  BY <2>5 DEF Handling!Next
  <1>4. CASE Abort(w)
    <2>1. cur' = [cur EXCEPT ![w] = None] /\ UNCHANGED <<row, ran, requeues>>
      BY <1>4 DEF Abort, history
    <2>2. Stages' = Stages
      BY <2>1 DEF Stages
    <2>3. CASE cur[w] = None
      <3>1. cur' = cur
        BY <1>0, <2>1, <2>3 DEF TypeOK
      <3> QED  BY <2>1, <2>2, <3>1 DEF shown
    <2>4. CASE cur[w] # None
      <3>1. Stages' = [Stages EXCEPT ![cur[w]] = Stages[cur[w]]]
        BY <2>2 DEF Stages
      <3>2. Handling!Drop(w)
        BY <2>1, <2>4, <3>1 DEF Handling!Drop, Handling!End
      <3> QED  BY <3>2 DEF Handling!Next
    <2> QED  BY <2>3, <2>4
  <1> QED  BY <1>2, <1>3, <1>4

LEMMA ReturnHandled ==
    ASSUME IInv, NEW w \in Workers, ReturnRest(w)
    PROVE  [Handling!Next]_shown
  <1> DEFINE back == {m \in batch[w] : Stages[m] # "waiting"}
  <1>0. TypeOK /\ Hands /\ batch[w] \subseteq Messages
    BY DEF IInv, TokenInv, TypeOK
  <1>1. /\ row' = [m \in Messages |-> IF m \in batch[w] THEN Returned(row[m]) ELSE row[m]]
        /\ UNCHANGED <<cur, ran, requeues>>
    BY DEF ReturnRest, history
  <1>2. ASSUME NEW m \in Messages
        PROVE  StageOf(row'[m]) = IF m \in batch[w] THEN "waiting" ELSE Stages[m]
    BY <1>0, <1>1, RowStages, Mapped DEF StageOf, TypeOK
  <1>3. Stages' = [m \in Messages |-> IF m \in back THEN "waiting" ELSE Stages[m]]
    BY <1>2 DEF Stages
  <1>4. ASSUME NEW m \in back
        PROVE  requeues > 0 /\ Stages[m] \in {"done", "dead"}
    <2>1. m \in Messages /\ w \in Holders(m) /\ row[m] \in Row
      BY <1>0 DEF Holders, TypeOK
    <2>2. Stages[m] \in {"done", "dead"}
      BY <1>0, <2>1, Mapped DEF Hands, StageOf, Row, Statuses
    <2>3. requeues # 0
      BY <1>0, <2>1, <2>2, Mapped DEF Hands, StageOf
    <2> QED  BY <1>0, <2>2, <2>3, LimitsAssumption DEF TypeOK
  <1>5. back \in SUBSET Messages
    BY <1>0
  <1> HIDE DEF back
  <1>6. CASE back = {}
    <2>1. Stages' = Stages
      BY <1>3, <1>6 DEF Stages
    <2> QED  BY <1>1, <2>1 DEF shown
  <1>7. CASE back # {}
    <2>1. Handling!Reopen(back)
      BY <1>1, <1>3, <1>4, <1>7 DEF Handling!Reopen
    <2> QED  BY <1>5, <2>1 DEF Handling!Next
  <1> QED  BY <1>6, <1>7

(* Recovery gives up messages whose lease is over, which nobody holds; what *)
(* it leaves in the queue, and what is claimed there, is waiting.           *)
LEMMA CronHandled ==
    ASSUME IInv, NEW w \in Workers, RunCron(w)
    PROVE  [Handling!Next]_shown
  <1> DEFINE rows == [m \in Messages |-> IF Expired(row[m]) THEN Failed(row[m]) ELSE row[m]]
             due == {m \in Messages : Due(rows[m]) /\ ~RowLocked(m)}
             out == {m \in Messages : StageOf(row'[m]) # StageOf(row[m])}
  <1>0. row \in [Messages -> Row] /\ LeaseOver
    BY DEF IInv, TokenInv, TypeOK
  <1>1. PICK S \in SUBSET due :
           row' = [m \in Messages |-> IF m \in S THEN Claimed(rows[m]) ELSE rows[m]]
    BY DEF RunCron
  <1>2. UNCHANGED <<cur, ran, requeues>>
    BY DEF RunCron, history
  <1>3. ASSUME NEW m \in Messages
        PROVE  /\ rows[m] \in Row
               /\ \/ StageOf(rows[m]) = StageOf(row[m])
                  \/ Expired(row[m]) /\ StageOf(rows[m]) = "dead"
    <2>1. CASE Expired(row[m])
      <3>1. rows[m] = Failed(row[m]) /\ row[m].status = "processing"
        BY <2>1 DEF Expired
      <3>2. rows[m] \in Row /\ rows[m].status \in {"dead", "failed"}
        BY <1>0, <3>1, RowTypes, RowStages
      <3> HIDE DEF rows
      <3> QED  BY <2>1, <3>1, <3>2 DEF StageOf
    <2>2. CASE ~Expired(row[m])
      BY <1>0, <2>2
    <2> QED  BY <2>1, <2>2
  <1>4. \A m \in S : m \in Messages /\ rows[m].status \in {"pending", "failed"}
    <2> HIDE DEF rows
    <2> QED  BY DEF Due
  <1>5. \A m \in Messages : row'[m] = IF m \in S THEN Claimed(rows[m]) ELSE rows[m]
    BY <1>1
  <1> HIDE DEF rows, due
  <1>6. ASSUME NEW m \in out
        PROVE  m \in Messages /\ Expired(row[m]) /\ StageOf(row'[m]) = "dead"
    <2>1. CASE m \in S
      <3>1. StageOf(rows[m]) = "waiting"
        BY <1>4, <2>1 DEF StageOf
      <3>2. row'[m].status = "processing"
        BY <1>3, <1>4, <1>5, <2>1, RowTypes
      <3>3. StageOf(row[m]) = "waiting"
        BY <1>3, <1>4, <2>1, <3>1
      <3> QED  BY <3>2, <3>3 DEF StageOf
    <2>2. CASE m \notin S
      BY <1>3, <1>5, <2>2
    <2> QED  BY <2>1, <2>2
  <1>7. ASSUME NEW m \in out
        PROVE  Stages[m] = "waiting" /\ ~Handling!Taken(m) /\ Stages'[m] = "dead"
    <2>1. m \in Messages /\ Expired(row[m]) /\ StageOf(row'[m]) = "dead"
      BY <1>6
    <2>2. Holders(m) = {}
      BY <1>0, <2>1 DEF Expired, LeaseOver
    <2>3. \A v \in Workers : cur[v] # m
      BY <2>2 DEF Holders
    <2> QED  BY <2>1, <2>3, Mapped DEF Expired, StageOf, Handling!Taken
  <1>8. \A m \in Messages \ out : Stages'[m] = Stages[m]
    BY Mapped
  <1>9. out \in SUBSET Messages
    OBVIOUS
  <1> HIDE DEF out
  <1>10. Stages' = [m \in Messages |-> IF m \in out THEN "dead" ELSE Stages[m]]
    <2>1. Stages' = [m \in Messages |-> Stages'[m]]
      BY DEF Stages
    <2> QED  BY <1>7, <1>8, <2>1
  <1>11. CASE out = {}
    <2>1. Stages' = Stages
      BY <1>10, <1>11 DEF Stages
    <2> QED  BY <1>2, <2>1 DEF shown
  <1>12. CASE out # {}
    <2>1. Handling!GiveUp(out)
      BY <1>2, <1>7, <1>10, <1>12 DEF Handling!GiveUp
    <2> QED  BY <1>9, <2>1 DEF Handling!Next
  <1> QED  BY <1>11, <1>12

LEMMA HandlingStep == IInv /\ [Next]_vars => [Handling!Next]_shown
  <1> SUFFICES ASSUME IInv, [Next]_vars  PROVE [Handling!Next]_shown
    OBVIOUS
  <1>1. CASE UNCHANGED vars
    BY <1>1 DEF vars, runVars, history, shown, Stages
  <1> QED  BY <1>1, MessageHandled, WalkHandled, OutcomeHandled, ReturnHandled, CronHandled
           DEF Next, WorkerStep

(* The inbox keeps the promises of MessageHandling: one handler at a time   *)
(* and nothing over begun again until a click, and "done" only with the     *)
(* business action executed, once for its key (message_inbox.py,            *)
(* business_action.py).                                                     *)
THEOREM ImplementsHandling == Spec => KeepsHandling
  <1>1. Init => Handling!Init
    <2> SUFFICES ASSUME Init  PROVE Handling!Init
      OBVIOUS
    <2>1. \A m \in Messages : row[m].status = "absent"
      BY DEF Init
    <2>2. Stages = [m \in Messages |-> "absent"]
      BY <2>1 DEF Stages, StageOf
    <2> QED  BY <2>2 DEF Init, Handling!Init
  <1>2. IInv /\ [Next]_vars => [Handling!Next]_Handling!vars
    BY HandlingStep DEF shown, Handling!vars
  <1> QED  BY <1>1, <1>2, Invariant, PTL DEF Spec, KeepsHandling, Handling!Spec

=============================================================================
