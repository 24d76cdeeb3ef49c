------------------------ MODULE MessageOutboxProofs ------------------------
(***************************************************************************)
(* Proofs about MessageOutbox for every set of rows, channels and runs and *)
(* every value of the limits that satisfies the module's assumptions.      *)
(***************************************************************************)
EXTENDS MessageOutbox, TLAPS

-----------------------------------------------------------------------------
(* A row stays a row when one field is written. *)

LEMMA SetStatus ==
  ASSUME NEW r \in Row, NEW v \in Statuses PROVE [r EXCEPT !.status = v] \in Row
  BY DEF Row

LEMMA SetAttempts ==
  ASSUME NEW r \in Row, NEW v \in Nat PROVE [r EXCEPT !.attempts = v] \in Row
  BY DEF Row

LEMMA SetLease ==
  ASSUME NEW r \in Row, NEW v \in 0..LeaseTicks PROVE [r EXCEPT !.lease = v] \in Row
  BY DEF Row

LEMMA SetWait ==
  ASSUME NEW r \in Row, NEW v \in Nat PROVE [r EXCEPT !.wait = v] \in Row
  BY DEF Row

LEMMA SetPmid ==
  ASSUME NEW r \in Row, NEW v \in BOOLEAN PROVE [r EXCEPT !.pmid = v] \in Row
  BY DEF Row

LEMMA SetDlq ==
  ASSUME NEW r \in Row, NEW v \in DlqReasons PROVE [r EXCEPT !.dlq = v] \in Row
  BY DEF Row

LEMMA SetCurrent ==
  ASSUME NEW r \in Row, NEW v \in Lifecycle PROVE [r EXCEPT !.current = v] \in Row
  BY DEF Row

LEMMA Fields ==
  ASSUME NEW r \in Row
  PROVE  /\ r.status \in Statuses /\ r.attempts \in Nat /\ r.lease \in 0..LeaseTicks
         /\ r.wait \in Nat /\ r.pmid \in BOOLEAN /\ r.dlq \in DlqReasons
         /\ r.current \in Lifecycle
  BY DEF Row

LEMMA LeaseRange == 0 \in 0..LeaseTicks /\ LeaseTicks \in 0..LeaseTicks
  BY NumbersAssumption DEF NumbersAssumption

LEMMA DecType ==
  /\ \A n \in Nat : Dec(n) \in Nat /\ Dec(n) <= n /\ (n > 0 => Dec(n) = n - 1)
  /\ \A n \in 0..LeaseTicks : Dec(n) \in 0..LeaseTicks
  BY NumbersAssumption DEF NumbersAssumption, Dec

-----------------------------------------------------------------------------
(* What each write of the code does to a row: the result is a row, and      *)
(* these are its new fields.                                                *)

LEMMA NewRowType == NewRow \in Row
  BY LeaseRange DEF NewRow, Row, Statuses, DlqReasons, Lifecycle

LEMMA AppliedRow ==
  ASSUME NEW s \in Lifecycle, NEW r \in Row
  PROVE  /\ Applied(s, r) \in Row
         /\ Applied(s, r).status = r.status
         /\ Applied(s, r).attempts = r.attempts
         /\ Applied(s, r).lease = r.lease
         /\ Applied(s, r).pmid = r.pmid
         /\ Applied(s, r).dlq = r.dlq
         /\ Applied(s, r).current \in {s, r.current}
  BY SetCurrent DEF Applied, Row

LEMMA ClaimedRow ==
  ASSUME NEW r \in Row
  PROVE  /\ Claimed(r) \in Row
         /\ Claimed(r).status = "sending"
         /\ Claimed(r).attempts = r.attempts + 1
         /\ Claimed(r).lease = LeaseTicks
         /\ Claimed(r).pmid = r.pmid
         /\ Claimed(r).dlq = r.dlq
         /\ Claimed(r).current = r.current
<1> DEFINE a == [r EXCEPT !.status = "sending"]
           b == [a EXCEPT !.attempts = r.attempts + 1]
           c == [b EXCEPT !.lease = LeaseTicks]
<1>1. a \in Row
  BY SetStatus DEF Statuses
<1>2. b \in Row
  <2>1. r.attempts + 1 \in Nat
    BY Fields
  <2> HIDE DEF a
  <2>2. QED
    BY <1>1, <2>1, SetAttempts
<1>3. c \in Row
  <2>1. LeaseTicks \in 0..LeaseTicks
    BY LeaseRange
  <2> HIDE DEF b
  <2>2. QED
    BY <1>2, <2>1, SetLease
<1>4. QED
  BY <1>3, SMT DEF Claimed, Row

LEMMA DeadRow ==
  ASSUME NEW reason \in DlqReasons, NEW r \in Row
  PROVE  /\ Dead(reason, r) \in Row
         /\ Dead(reason, r).status = "dead"
         /\ Dead(reason, r).attempts = r.attempts
         /\ Dead(reason, r).lease = 0
         /\ Dead(reason, r).pmid = r.pmid
         /\ Dead(reason, r).dlq = reason
         /\ Dead(reason, r).current \in {"failed", r.current}
<1> DEFINE a == [r EXCEPT !.status = "dead"]
           b == [a EXCEPT !.dlq = reason]
           c == [b EXCEPT !.lease = 0]
<1>1. a \in Row
  BY SetStatus DEF Statuses
<1>2. b \in Row
  <2>1. reason \in DlqReasons
    OBVIOUS
  <2> HIDE DEF a
  <2>2. QED
    BY <1>1, <2>1, SetDlq
<1>3. c \in Row
  <2>1. 0 \in 0..LeaseTicks
    BY LeaseRange
  <2> HIDE DEF b
  <2>2. QED
    BY <1>2, <2>1, SetLease
<1>4. /\ c.status = "dead" /\ c.attempts = r.attempts /\ c.lease = 0
      /\ c.pmid = r.pmid /\ c.dlq = reason /\ c.current = r.current
  BY DEF Row
<1>5. Dead(reason, r) = Applied("failed", c)
  BY DEF Dead
<1>6. QED
  <2> HIDE DEF c
  <2>1. "failed" \in Lifecycle
    BY DEF Lifecycle
  <2>2. QED
    BY <1>3, <1>4, <1>5, <2>1, AppliedRow

LEMMA SentRow ==
  ASSUME NEW r \in Row
  PROVE  /\ Sent(r) \in Row
         /\ Sent(r).status = "sent"
         /\ Sent(r).attempts = r.attempts
         /\ Sent(r).lease = 0
         /\ Sent(r).pmid = TRUE
         /\ Sent(r).dlq = "none"
         /\ Sent(r).current \in {"sent", r.current}
<1> DEFINE a == [r EXCEPT !.status = "sent"]
           b == [a EXCEPT !.pmid = TRUE]
           c == [b EXCEPT !.dlq = "none"]
           d == [c EXCEPT !.lease = 0]
<1>1. a \in Row
  BY SetStatus DEF Statuses
<1>2. b \in Row
  <2>1. TRUE \in BOOLEAN
    OBVIOUS
  <2> HIDE DEF a
  <2>2. QED
    BY <1>1, <2>1, SetPmid
<1>3. c \in Row
  <2>1. "none" \in DlqReasons
    BY DEF DlqReasons
  <2> HIDE DEF b
  <2>2. QED
    BY <1>2, <2>1, SetDlq
<1>4. d \in Row
  <2>1. 0 \in 0..LeaseTicks
    BY LeaseRange
  <2> HIDE DEF c
  <2>2. QED
    BY <1>3, <2>1, SetLease
<1>5. /\ d.status = "sent" /\ d.attempts = r.attempts /\ d.lease = 0
      /\ d.pmid = TRUE /\ d.dlq = "none" /\ d.current = r.current
  BY DEF Row
<1>6. Sent(r) = Applied("sent", d)
  BY DEF Sent
<1>7. QED
  <2> HIDE DEF d
  <2>1. "sent" \in Lifecycle
    BY DEF Lifecycle
  <2>2. QED
    BY <1>4, <1>5, <1>6, <2>1, AppliedRow

LEMMA EnqueuedRow ==
  ASSUME NEW r \in Row
  PROVE  /\ Enqueued(r) \in Row /\ Enqueued(r).status = "pending"
         /\ Enqueued(r).lease = r.lease /\ Enqueued(r).attempts = r.attempts
         /\ Enqueued(r).pmid = r.pmid /\ Enqueued(r).current = r.current
         /\ Enqueued(r).dlq = r.dlq
  BY SetStatus DEF Enqueued, Row, Statuses

LEMMA ReturnedRow ==
  ASSUME NEW r \in Row
  PROVE  /\ Returned(r) \in Row
         /\ Returned(r).status = "pending"
         /\ Returned(r).attempts = Dec(r.attempts)
         /\ Returned(r).lease = 0
         /\ Returned(r).pmid = r.pmid
         /\ Returned(r).dlq = r.dlq
         /\ Returned(r).current = r.current
<1> DEFINE a == [r EXCEPT !.status = "pending"]
           b == [a EXCEPT !.attempts = Dec(r.attempts)]
           c == [b EXCEPT !.lease = 0]
<1>1. a \in Row
  BY SetStatus DEF Statuses
<1>2. b \in Row
  <2>1. Dec(r.attempts) \in Nat
    BY Fields, DecType
  <2> HIDE DEF a
  <2>2. QED
    BY <1>1, <2>1, SetAttempts
<1>3. c \in Row
  <2>1. 0 \in 0..LeaseTicks
    BY LeaseRange
  <2> HIDE DEF b
  <2>2. QED
    BY <1>2, <2>1, SetLease
<1>4. QED
  BY <1>3, Fields, SMT DEF Returned, Row

LEMMA RequeuedRow ==
  ASSUME NEW r \in Row
  PROVE  /\ Requeued(r) \in Row
         /\ Requeued(r).status = "pending"
         /\ Requeued(r).attempts = 0
         /\ Requeued(r).lease = 0
         /\ Requeued(r).pmid = r.pmid
         /\ Requeued(r).dlq = "none"
         /\ Requeued(r).current = r.current
<1> DEFINE a == [r EXCEPT !.status = "pending"]
           b == [a EXCEPT !.attempts = 0]
           c == [b EXCEPT !.wait = 0]
           d == [c EXCEPT !.lease = 0]
           e == [d EXCEPT !.dlq = "none"]
<1>1. a \in Row
  BY SetStatus DEF Statuses
<1>2. b \in Row
  <2>1. 0 \in Nat
    BY Fields
  <2> HIDE DEF a
  <2>2. QED
    BY <1>1, <2>1, SetAttempts
<1>3. c \in Row
  <2>1. 0 \in Nat
    BY Fields
  <2> HIDE DEF b
  <2>2. QED
    BY <1>2, <2>1, SetWait
<1>4. d \in Row
  <2>1. 0 \in 0..LeaseTicks
    BY LeaseRange
  <2> HIDE DEF c
  <2>2. QED
    BY <1>3, <2>1, SetLease
<1>5. e \in Row
  <2>1. "none" \in DlqReasons
    BY Fields DEF DlqReasons
  <2> HIDE DEF d
  <2>2. QED
    BY <1>4, <2>1, SetDlq
<1>6. QED
  BY <1>5, Fields, SMT DEF Requeued, Row

LEMMA TickedRow ==
  ASSUME NEW r \in Row
  PROVE  /\ Ticked(r) \in Row
         /\ Ticked(r).status = r.status
         /\ Ticked(r).attempts = r.attempts
         /\ Ticked(r).lease = Dec(r.lease)
         /\ Ticked(r).pmid = r.pmid
         /\ Ticked(r).dlq = r.dlq
         /\ Ticked(r).current = r.current
<1> DEFINE a == [r EXCEPT !.lease = Dec(r.lease)]
           b == [a EXCEPT !.wait = Dec(r.wait)]
<1>1. a \in Row
  BY SetLease, Fields, DecType
<1>2. b \in Row
  <2>1. Dec(r.wait) \in Nat
    BY Fields, DecType
  <2> HIDE DEF a
  <2>2. QED
    BY <1>1, <2>1, SetWait
<1>3. QED
  BY <1>2, Fields, SMT DEF Ticked, Row

LEMMA AlreadySentRow ==
  ASSUME NEW r \in Row
  PROVE  /\ AlreadySent(r) \in Row
         /\ AlreadySent(r).status = "sent"
         /\ AlreadySent(r).attempts = r.attempts
         /\ AlreadySent(r).pmid = r.pmid
         /\ AlreadySent(r).dlq = r.dlq
         /\ AlreadySent(r).current = r.current
<1> DEFINE a == [r EXCEPT !.status = "sent"]
           b == [a EXCEPT !.lease = 0]
<1>1. a \in Row
  BY SetStatus DEF Statuses
<1>2. b \in Row
  <2> HIDE DEF a
  <2>1. QED
    BY <1>1, LeaseRange, SetLease
<1>3. QED
  BY <1>2, SMT DEF AlreadySent, Row

LEMMA ReconciledRow ==
  ASSUME NEW r \in Row
  PROVE  /\ Reconciled(r) \in Row
         /\ Reconciled(r).status = "sent"
         /\ Reconciled(r).attempts = r.attempts
         /\ Reconciled(r).pmid = TRUE
         /\ Reconciled(r).current = r.current
<1> DEFINE a == [r EXCEPT !.pmid = TRUE]
           b == [a EXCEPT !.status = "sent"]
           c == [b EXCEPT !.lease = 0]
           d == [c EXCEPT !.dlq = "none"]
<1>1. a \in Row
  BY SetPmid
<1>2. b \in Row
  <2>1. "sent" \in Statuses
    BY DEF Statuses
  <2> HIDE DEF a
  <2>2. QED
    BY <1>1, <2>1, SetStatus
<1>3. c \in Row
  <2> HIDE DEF b
  <2>1. QED
    BY <1>2, LeaseRange, SetLease
<1>4. d \in Row
  <2>1. "none" \in DlqReasons
    BY DEF DlqReasons
  <2> HIDE DEF c
  <2>2. QED
    BY <1>3, <2>1, SetDlq
<1>5. QED
  BY <1>1, <1>4, SMT DEF Reconciled, Row

(* A recovered row is no longer "sending", and it is dead only when the     *)
(* provider's id is missing.                                                *)
LEMMA RecoveredRow ==
  ASSUME NEW r \in Row
  PROVE  /\ Recovered(r) \in Row
         /\ Recovered(r).status \in {"sent", "dead", "failed"}
         /\ Recovered(r).attempts = r.attempts
         /\ Recovered(r).pmid = r.pmid
         /\ r.pmid => Recovered(r).status = "sent"
         /\ ~r.pmid => Recovered(r).status \in {"dead", "failed"}
         /\ Recovered(r).current \in {"failed", r.current}
<1> DEFINE a == [r EXCEPT !.status = "sent"]
           b == [a EXCEPT !.lease = 0]
           c == [r EXCEPT !.status = "failed"]
           d == [c EXCEPT !.lease = 0]
           e == [d EXCEPT !.wait = 0]
<1>1. a \in Row /\ c \in Row
  BY SetStatus DEF Statuses
<1>2. b \in Row /\ d \in Row
  <2> HIDE DEF a, c
  <2>1. QED
    BY <1>1, LeaseRange, SetLease
<1>3. e \in Row
  <2> HIDE DEF d
  <2>1. QED
    BY <1>2, SetWait
<1>4. CASE r.pmid
  <2>1. Recovered(r) = b
    BY <1>4 DEF Recovered
  <2>2. /\ b.status = "sent" /\ b.attempts = r.attempts
        /\ b.pmid = r.pmid /\ b.current = r.current
    BY DEF Row
  <2> HIDE DEF b
  <2>3. QED
    BY <1>2, <1>4, <2>1, <2>2
<1>5. CASE ~r.pmid /\ r.attempts >= MaxAttempts
  <2>1. "lease_expired" \in DlqReasons
    BY DEF DlqReasons
  <2>2. Recovered(r) = Dead("lease_expired", r)
    BY <1>5 DEF Recovered
  <2>3. QED
    BY <1>5, <2>1, <2>2, DeadRow
<1>6. CASE ~r.pmid /\ ~(r.attempts >= MaxAttempts)
  BY <1>3, <1>6, SMT DEF Recovered, Row
<1>7. QED
  BY <1>4, <1>5, <1>6

LEMMA FailedRow ==
  ASSUME NEW error \in Errors, NEW delay \in Backoffs, NEW r \in Row
  PROVE  /\ Failed(error, delay, r) \in Row
         /\ Failed(error, delay, r).status \in {"dead", "failed"}
         /\ Failed(error, delay, r).attempts = r.attempts
         /\ Failed(error, delay, r).pmid = r.pmid
         /\ Failed(error, delay, r).current \in {"failed", r.current}
<1> DEFINE a == [r EXCEPT !.status = "failed"]
           b == [a EXCEPT !.lease = 0]
           c == [b EXCEPT !.wait = delay]
<1>1. a \in Row
  BY SetStatus DEF Statuses
<1>2. b \in Row
  <2> HIDE DEF a
  <2>1. QED
    BY <1>1, LeaseRange, SetLease
<1>3. c \in Row
  <2>1. delay \in Nat
    BY NumbersAssumption DEF NumbersAssumption
  <2> HIDE DEF b
  <2>2. QED
    BY <1>2, <2>1, SetWait
<1>4. "permanent_error" \in DlqReasons /\ "max_attempts" \in DlqReasons
  BY DEF DlqReasons
<1>5. CASE error = "permanent"
  BY <1>4, <1>5, DeadRow DEF Failed
<1>6. CASE error # "permanent" /\ r.attempts >= MaxAttempts
  BY <1>4, <1>6, DeadRow DEF Failed
<1>7. CASE error # "permanent" /\ ~(r.attempts >= MaxAttempts)
  BY <1>3, <1>7, SMT DEF Failed, Row
<1>8. QED
  BY <1>5, <1>6, <1>7

-----------------------------------------------------------------------------
(* Type correctness. *)

LEMMA ViewRow ==
  ASSUME TypeOK, NEW w \in Workers, cur[w] # None
  PROVE  View(w) \in Row /\ View(w).pmid = item[cur[w]].pmid
         /\ View(w).current = item[cur[w]].current
<1>1. item[cur[w]] \in Row
  BY DEF TypeOK
<1>2. QED
  BY <1>1, ClaimedRow DEF View

(* The row that RunCron works on, after recovery. *)
LEMMA AfterRecovery ==
  ASSUME TypeOK, NEW i \in Items
  PROVE  (IF Expired(item[i]) THEN Recovered(item[i]) ELSE item[i]) \in Row
  BY RecoveredRow DEF TypeOK

(* What an item's commit leaves behind, as far as types go. *)
CommitItemType(w) ==
    /\ item' \in [Items -> Row]
    /\ stale' \subseteq Workers
    /\ cur' \in [Workers -> Items \cup {None}]
    /\ owned' \subseteq Workers
    /\ pc' \in [Workers -> {"idle", "next", "calling", "accepted"}]
    /\ \A v \in Workers : cur'[v] = None <=> pc'[v] \in {"idle", "next"}
    /\ call' \in [Workers -> 0..CallTicks]

LEMMA CommitType ==
  ASSUME TypeOK, NEW w \in Workers, NEW row \in Row, CommitItem(w, row)
  PROVE  CommitItemType(w)
<1> USE DEF CommitItem, TypeOK
<1>1. item' \in [Items -> Row]
  OBVIOUS
<1>2. stale' \subseteq Workers /\ owned' \subseteq Workers
  BY DEF Overtaken
<1>3. cur' \in [Workers -> Items \cup {None}] /\ call' \in [Workers -> 0..CallTicks]
  BY NumbersAssumption DEF NumbersAssumption
<1>4. pc' \in [Workers -> {"idle", "next", "calling", "accepted"}]
  OBVIOUS
<1>5. ASSUME NEW v \in Workers PROVE cur'[v] = None <=> pc'[v] \in {"idle", "next"}
  <2>1. CASE v = w
    BY <2>1
  <2>2. CASE v # w
    <3>1. cur'[v] = cur[v] /\ pc'[v] = pc[v]
      BY <2>2
    <3>2. QED
      BY <3>1
  <2>3. QED
    BY <2>1, <2>2
<1>6. QED
  BY <1>1, <1>2, <1>3, <1>4, <1>5 DEF CommitItemType

LEMMA InitType == Init => TypeOK
  BY NewRowType, NumbersAssumption, SetsAssumption
  DEF NumbersAssumption, SetsAssumption, Init, TypeOK

LEMMA NextType == TypeOK /\ [Next]_vars => TypeOK'
<1> SUFFICES ASSUME TypeOK, [Next]_vars PROVE TypeOK'
  OBVIOUS
<1> USE DEF TypeOK
<1>1. ASSUME NEW i \in Items, Enqueue(i) PROVE TypeOK'
  BY <1>1, EnqueuedRow DEF Enqueue, runVars, userVars
<1>2. ASSUME NEW i \in Items, OpenForm(i) PROVE TypeOK'
  BY <1>2 DEF OpenForm, runVars
<1>3. ASSUME NEW i \in Items, Requeue(i) PROVE TypeOK'
  <2>1. item' \in [Items -> Row]
    BY <1>3, RequeuedRow DEF Requeue
  <2>2. requeues' \in 0..MaxRequeues /\ form' \subseteq Items /\ stale' \subseteq Workers
    BY <1>3, NumbersAssumption DEF Requeue, Overtaken, NumbersAssumption
  <2>3. QED
    BY <1>3, <2>1, <2>2 DEF Requeue, runVars
<1>4. ASSUME NEW i \in Items, NEW s \in Lifecycle, Callback(i, s) PROVE TypeOK'
  <2>1. (IF item[i].pmid THEN item[i] ELSE Reconciled(item[i])) \in Row
    BY ReconciledRow
  <2>2. item' \in [Items -> Row]
    BY <1>4, <2>1, AppliedRow DEF Callback
  <2>3. stale' \subseteq Workers
    BY <1>4 DEF Callback, Overtaken
  <2>4. QED
    BY <1>4, <2>2, <2>3 DEF Callback, runVars, userVars
<1>5. ASSUME NEW w \in Workers, RunCron(w) PROVE TypeOK'
  <2> DEFINE rows == [i \in Items |-> IF Expired(item[i]) THEN Recovered(item[i])
                                                          ELSE item[i]]
  <2>1. rows \in [Items -> Row]
    BY AfterRecovery
  <2>2. PICK S \in ClaimSets(rows) :
          /\ item' = [i \in Items |-> IF i \in S THEN Claimed(rows[i]) ELSE rows[i]]
          /\ batch' = [batch EXCEPT ![w] = S]
          /\ pc' = [pc EXCEPT ![w] = IF S = {} THEN "idle" ELSE "next"]
          /\ stale' = stale \cup Overtaken({i \in Items : item'[i] # item[i]}, {w})
    BY <1>5 DEF RunCron
  <2>3. S \subseteq Items
    BY <2>2 DEF ClaimSets
  <2>4. item' \in [Items -> Row]
    <3> HIDE DEF rows
    <3>1. QED
      BY <2>1, <2>2, ClaimedRow
  <2>5. stale' \subseteq Workers
    BY <2>2 DEF Overtaken
  <2>6. QED
    BY <1>5, <2>2, <2>3, <2>4, <2>5 DEF RunCron, userVars
<1>6. ASSUME NEW w \in Workers, ProviderAccepts(w) PROVE TypeOK'
  BY <1>6 DEF ProviderAccepts, userVars
<1>7. ASSUME NEW w \in Workers, EndRun(w) PROVE TypeOK'
  BY <1>7 DEF EndRun, userVars
<1>8. ASSUME NEW w \in Workers, ReturnRest(w) PROVE TypeOK'
  <2>1. item' \in [Items -> Row]
    BY <1>8, ReturnedRow DEF ReturnRest
  <2>2. stale' \subseteq Workers
    BY <1>8 DEF ReturnRest, Overtaken
  <2>3. QED
    BY <1>8, <2>1, <2>2 DEF ReturnRest, userVars
<1>9. ASSUME NEW w \in Workers, NEW i \in Items, SkipSent(w, i) PROVE TypeOK'
  <2>1. item' \in [Items -> Row]
    BY <1>9, AlreadySentRow DEF SkipSent
  <2>2. stale' \subseteq Workers
    BY <1>9 DEF SkipSent, Overtaken
  <2>3. QED
    BY <1>9, <2>1, <2>2 DEF SkipSent, userVars
<1>10. ASSUME NEW w \in Workers, NEW i \in Items, StartCall(w, i) PROVE TypeOK'
  BY <1>10, NumbersAssumption, SetsAssumption
  DEF StartCall, NextItem, Overtaken, userVars, NumbersAssumption, SetsAssumption
<1>11. ASSUME NEW w \in Workers, NEW early \in Lifecycle, CommitSent(w, early)
       PROVE TypeOK'
  <2>1. Applied(early, Sent(View(w))) \in Row
    BY <1>11, ViewRow, SentRow, AppliedRow DEF CommitSent
  <2>2. CommitItem(w, Applied(early, Sent(View(w))))
    BY <1>11 DEF CommitSent
  <2>3. CommitItemType(w)
    BY <2>1, <2>2, CommitType
  <2>4. acked' \in [Items -> Nat]
    BY <1>11 DEF CommitSent
  <2>5. QED
    BY <1>11, <2>3, <2>4 DEF CommitSent, CommitItemType, userVars
<1>12. ASSUME NEW w \in Workers, NEW e \in Errors, CommitFailure(w, e) PROVE TypeOK'
  <2>1. PICK delay \in Backoffs : CommitItem(w, Failed(e, delay, View(w)))
    BY <1>12 DEF CommitFailure
  <2>2. Failed(e, delay, View(w)) \in Row
    BY <1>12, ViewRow, FailedRow DEF CommitFailure
  <2>3. CommitItemType(w)
    BY <2>1, <2>2, CommitType
  <2>4. pause' \in [Channels -> Nat]
    BY <1>12, NumbersAssumption DEF CommitFailure, NumbersAssumption
  <2>5. QED
    BY <1>12, <2>3, <2>4 DEF CommitFailure, CommitItemType, userVars
<1>13. ASSUME NEW w \in Workers, Abort(w) PROVE TypeOK'
  BY <1>13, NumbersAssumption DEF Abort, userVars, NumbersAssumption
<1>14. ASSUME Tick PROVE TypeOK'
  BY <1>14, TickedRow, DecType, NumbersAssumption DEF Tick, userVars, NumbersAssumption
<1>15. CASE UNCHANGED vars
  BY <1>15 DEF vars, runVars, userVars
<1>16. QED
  BY <1>1, <1>2, <1>3, <1>4, <1>5, <1>6, <1>7, <1>8, <1>9, <1>10, <1>11, <1>12,
     <1>13, <1>14, <1>15 DEF Next, WorkerStep

(* Type correctness: every row keeps a legal status, lease and dead-letter  *)
(* reason, and every run holds rows of the queue.                           *)
THEOREM TypeCorrect == Spec => []TypeOK
  BY InitType, NextType, PTL DEF Spec

-----------------------------------------------------------------------------
(***************************************************************************)
(* Leases outlast runs.  A run's clock never exceeds the budget plus one   *)
(* call, and what a row a run still holds has lost of its lease is at most *)
(* that clock; so by LeaseAssumption the lease is not used up.             *)
(***************************************************************************)
ClockOf(w) ==
    /\ pc[w] = "idle" => batch[w] = {} /\ spent[w] = 0
    /\ pc[w] = "next" => spent[w] <= BudgetTicks + CallTicks
    /\ pc[w] \in {"calling", "accepted"} => spent[w] <= BudgetTicks + call[w]

RunClock == \A w \in Workers : ClockOf(w)

LeaseLeft ==
    \A w \in Workers : \A i \in Held(w) :
        item[i].status = "sending" => item[i].lease + spent[w] >= LeaseTicks

LEMMA LeaseInvImplies == TypeOK /\ RunClock /\ LeaseLeft => LeaseCoversHolder
<1> SUFFICES ASSUME TypeOK, RunClock, LeaseLeft,
                    NEW w \in Workers, NEW i \in Held(w)
             PROVE  ~Expired(item[i])
  BY DEF LeaseCoversHolder
<1>1. spent[w] \in Nat /\ spent[w] <= BudgetTicks + CallTicks
  <2>1. call[w] \in 0..CallTicks
    BY DEF TypeOK
  <2>2. pc[w] \in {"idle", "next", "calling", "accepted"} /\ spent[w] \in Nat
    BY DEF TypeOK
  <2>3. QED
    BY <2>1, <2>2, NumbersAssumption DEF RunClock, ClockOf, NumbersAssumption
<1>2. item[i].status = "sending" => item[i].lease + spent[w] >= LeaseTicks
  BY DEF LeaseLeft
<1>3. QED
  BY <1>1, <1>2, LeaseAssumption, NumbersAssumption
  DEF Expired, LeaseAssumption, NumbersAssumption

LEMMA RunClockNext == TypeOK /\ RunClock /\ [Next]_vars => RunClock'
<1> SUFFICES ASSUME TypeOK, RunClock, [Next]_vars, NEW w \in Workers
             PROVE  ClockOf(w)'
  BY DEF RunClock
<1> USE NumbersAssumption DEF RunClock, ClockOf, TypeOK, NumbersAssumption
<1>1. CASE UNCHANGED <<pc, batch, spent, call>>
  BY <1>1
<1>2. ASSUME NEW v \in Workers, RunCron(v) PROVE ClockOf(w)'
  BY <1>2 DEF RunCron
<1>3. ASSUME NEW v \in Workers, ProviderAccepts(v) PROVE ClockOf(w)'
  BY <1>3 DEF ProviderAccepts
<1>4. ASSUME NEW v \in Workers, EndRun(v) PROVE ClockOf(w)'
  BY <1>4 DEF EndRun
<1>5. ASSUME NEW v \in Workers, ReturnRest(v) PROVE ClockOf(w)'
  BY <1>5 DEF ReturnRest
<1>6. ASSUME NEW v \in Workers, NEW i \in Items, SkipSent(v, i) PROVE ClockOf(w)'
  BY <1>6 DEF SkipSent, NextItem
<1>7. ASSUME NEW v \in Workers, NEW i \in Items, StartCall(v, i) PROVE ClockOf(w)'
  BY <1>7 DEF StartCall, NextItem
<1>8. ASSUME NEW v \in Workers, NEW early \in Lifecycle, CommitSent(v, early)
      PROVE  ClockOf(w)'
  BY <1>8 DEF CommitSent, CommitItem
<1>9. ASSUME NEW v \in Workers, NEW e \in Errors, CommitFailure(v, e)
      PROVE  ClockOf(w)'
  BY <1>9 DEF CommitFailure, CommitItem
<1>10. ASSUME NEW v \in Workers, Abort(v) PROVE ClockOf(w)'
  BY <1>10 DEF Abort
<1>11. ASSUME Tick PROVE ClockOf(w)'
  BY <1>11 DEF Tick
<1>12. QED
  BY <1>1, <1>2, <1>3, <1>4, <1>5, <1>6, <1>7, <1>8, <1>9, <1>10, <1>11
  DEF Next, WorkerStep, Enqueue, OpenForm, Requeue, Callback, vars, runVars

(* A step keeps LeaseLeft when every run keeps (part of) what it held under *)
(* an unchanged clock, or nothing at all, and every changed row either      *)
(* leaves "sending" or gets a whole lease.                                  *)
LEMMA LeaseLeftKept ==
  ASSUME TypeOK, LeaseLeft, item' \in [Items -> Row],
         \A w \in Workers : \/ Held(w)' = {}
                            \/ Held(w)' \subseteq Held(w) /\ spent'[w] = spent[w],
         \A i \in Items : \/ item'[i] = item[i]
                          \/ item'[i].status # "sending"
                          \/ item'[i].lease = LeaseTicks
  PROVE  LeaseLeft'
<1> SUFFICES ASSUME NEW w \in Workers, NEW i \in Held(w)', item'[i].status = "sending"
             PROVE  item'[i].lease + spent'[w] >= LeaseTicks
  BY DEF LeaseLeft
<1>1. i \in Held(w) /\ spent'[w] = spent[w] /\ spent[w] \in Nat
  BY DEF TypeOK
<1>2. i \in Items
  BY <1>1 DEF Held, TypeOK
<1>3. CASE item'[i] = item[i]
  BY <1>1, <1>3 DEF LeaseLeft
<1>4. CASE item'[i].lease = LeaseTicks
  BY <1>1, <1>4, NumbersAssumption DEF NumbersAssumption
<1>5. QED
  BY <1>2, <1>3, <1>4

LEMMA LeaseLeftNext == TypeOK /\ RunClock /\ LeaseLeft /\ [Next]_vars => LeaseLeft'
<1> SUFFICES ASSUME TypeOK, RunClock, LeaseLeft, [Next]_vars PROVE LeaseLeft'
  OBVIOUS
<1>0. TypeOK'
  BY NextType
<1>1. item' \in [Items -> Row]
  BY <1>0 DEF TypeOK
<1>2. CASE UNCHANGED <<item, batch, cur, spent>>
  BY <1>2 DEF LeaseLeft, Held
<1>3. ASSUME NEW i \in Items, Enqueue(i) PROVE LeaseLeft'
  BY <1>1, <1>3, LeaseLeftKept, EnqueuedRow DEF Enqueue, runVars, Held, TypeOK
<1>4. ASSUME NEW i \in Items, Requeue(i) PROVE LeaseLeft'
  BY <1>1, <1>4, LeaseLeftKept, RequeuedRow DEF Requeue, runVars, Held, TypeOK
<1>5. ASSUME NEW i \in Items, NEW s \in Lifecycle, Callback(i, s) PROVE LeaseLeft'
  <2> DEFINE r == IF item[i].pmid THEN item[i] ELSE Reconciled(item[i])
  <2>1. item[i] \in Row
    BY DEF TypeOK
  <2>2. r \in Row /\ (r = item[i] \/ r.status = "sent")
    BY <2>1, ReconciledRow
  <2>3. item' = [item EXCEPT ![i] = Applied(s, r)]
    BY <1>5 DEF Callback
  <2>4. Applied(s, r).status = r.status /\ Applied(s, r).lease = r.lease
    BY <2>2, AppliedRow
  <2>5. item'[i] = Applied(s, r) /\ \A j \in Items \ {i} : item'[j] = item[j]
    BY <2>3 DEF TypeOK
  <2> HIDE DEF r
  <2>6. UNCHANGED <<batch, cur, spent>>
    BY <1>5 DEF Callback, runVars
  <2>7. QED
    BY <1>1, <2>2, <2>4, <2>5, <2>6 DEF LeaseLeft, Held, TypeOK
<1>6. ASSUME NEW v \in Workers, RunCron(v) PROVE LeaseLeft'
  <2> DEFINE rows == [i \in Items |-> IF Expired(item[i]) THEN Recovered(item[i])
                                                          ELSE item[i]]
  <2>1. PICK S \in ClaimSets(rows) :
          /\ item' = [i \in Items |-> IF i \in S THEN Claimed(rows[i]) ELSE rows[i]]
          /\ batch' = [batch EXCEPT ![v] = S]
    BY <1>6 DEF RunCron
  <2>2. spent[v] = 0 /\ cur[v] = None /\ cur' = cur /\ spent' = spent
    BY <1>6 DEF RunCron, RunClock, ClockOf, TypeOK
  <2>3. ASSUME NEW i \in Items
        PROVE  \/ item'[i] = item[i]
               \/ item'[i].status # "sending"
               \/ item'[i].lease = LeaseTicks
    <3>1. rows[i] \in Row /\ (rows[i] = item[i] \/ rows[i].status # "sending")
      BY RecoveredRow, AfterRecovery DEF TypeOK
    <3>2. item'[i] = IF i \in S THEN Claimed(rows[i]) ELSE rows[i]
      BY <2>1
    <3> HIDE DEF rows
    <3>3. QED
      BY <3>1, <3>2, ClaimedRow
  <2>4. ASSUME NEW w \in Workers, w # v
        PROVE  Held(w)' \subseteq Held(w) /\ spent'[w] = spent[w]
    BY <2>1, <2>2, <2>4 DEF Held, TypeOK
  <2>5. Held(v)' = S
    BY <2>1, <2>2 DEF Held, TypeOK
  <2>6. ASSUME NEW i \in S PROVE item'[i].status = "sending" => item'[i].lease = LeaseTicks
    <3>1. i \in Items
      BY DEF ClaimSets
    <3>2. rows[i] \in Row
      BY <3>1, AfterRecovery
    <3>3. item'[i] = Claimed(rows[i])
      BY <2>1, <3>1
    <3> HIDE DEF rows
    <3>4. QED
      BY <3>2, <3>3, ClaimedRow
  <2>7. QED
    <3> SUFFICES ASSUME NEW w \in Workers, NEW i \in Held(w)', item'[i].status = "sending"
                 PROVE  item'[i].lease + spent'[w] >= LeaseTicks
      BY DEF LeaseLeft
    <3>1. CASE w = v
      BY <3>1, <2>2, <2>5, <2>6, NumbersAssumption DEF NumbersAssumption
    <3>2. CASE w # v
      <4>1. i \in Held(w) /\ spent'[w] = spent[w] /\ spent[w] \in Nat
        BY <3>2, <2>4 DEF TypeOK
      <4>2. i \in Items
        BY <4>1 DEF Held, TypeOK
      <4>3. item'[i] = item[i] \/ item'[i].lease = LeaseTicks
        BY <2>3, <4>2
      <4>4. QED
        BY <4>1, <4>3, NumbersAssumption DEF LeaseLeft, NumbersAssumption
    <3>3. QED
      BY <3>1, <3>2
<1>7. ASSUME NEW v \in Workers, EndRun(v) PROVE LeaseLeft'
  BY <1>1, <1>7, LeaseLeftKept DEF EndRun, Held, TypeOK
<1>8. ASSUME NEW v \in Workers, ReturnRest(v) PROVE LeaseLeft'
  BY <1>1, <1>8, LeaseLeftKept, ReturnedRow DEF ReturnRest, Held, TypeOK
<1>9. ASSUME NEW v \in Workers, NEW i \in Items, SkipSent(v, i) PROVE LeaseLeft'
  BY <1>1, <1>9, LeaseLeftKept, AlreadySentRow DEF SkipSent, Held, TypeOK
<1>10. ASSUME NEW v \in Workers, NEW i \in Items, StartCall(v, i) PROVE LeaseLeft'
  BY <1>1, <1>10, LeaseLeftKept DEF StartCall, NextItem, Held, TypeOK
<1>11. ASSUME NEW v \in Workers, NEW early \in Lifecycle, CommitSent(v, early)
       PROVE  LeaseLeft'
  <2>0. cur[v] # None
    BY <1>11 DEF CommitSent, TypeOK
  <2>1. Applied(early, Sent(View(v))).status # "sending"
    <3>1. View(v) \in Row
      BY <2>0, ViewRow
    <3>2. Sent(View(v)) \in Row /\ Sent(View(v)).status = "sent"
      BY <3>1, SentRow
    <3>3. Applied(early, Sent(View(v))).status = "sent"
      BY <3>2, AppliedRow
    <3> QED
      BY <3>3
  <2>2. QED
    BY <1>1, <1>11, <2>1, LeaseLeftKept DEF CommitSent, CommitItem, Held, TypeOK
<1>12. ASSUME NEW v \in Workers, NEW e \in Errors, CommitFailure(v, e) PROVE LeaseLeft'
  <2>1. PICK delay \in Backoffs : CommitItem(v, Failed(e, delay, View(v)))
    BY <1>12 DEF CommitFailure
  <2>0. cur[v] # None
    BY <1>12 DEF CommitFailure, TypeOK
  <2>2. Failed(e, delay, View(v)).status # "sending"
    BY <1>12, <2>0, ViewRow, FailedRow
  <2>3. UNCHANGED <<batch, spent>>
    BY <1>12 DEF CommitFailure
  <2>4. QED
    BY <1>1, <2>1, <2>2, <2>3, LeaseLeftKept DEF CommitItem, Held, TypeOK
<1>13. ASSUME NEW v \in Workers, Abort(v) PROVE LeaseLeft'
  BY <1>1, <1>13, LeaseLeftKept DEF Abort, Held, TypeOK
<1>14. ASSUME Tick PROVE LeaseLeft'
  <2> SUFFICES ASSUME NEW w \in Workers, NEW i \in Held(w)', item'[i].status = "sending"
               PROVE  item'[i].lease + spent'[w] >= LeaseTicks
    BY DEF LeaseLeft
  <2>1. i \in Held(w) /\ i \in Items /\ pc[w] # "idle"
    BY <1>14 DEF Tick, Held, RunClock, ClockOf, TypeOK
  <2>2. item[i] \in Row /\ item'[i] = Ticked(item[i]) /\ spent'[w] = spent[w] + 1
    BY <1>14, <2>1 DEF Tick, TypeOK
  <2>3. item[i].status = "sending" /\ item'[i].lease = Dec(item[i].lease)
    BY <2>2, TickedRow
  <2>4. item[i].lease + spent[w] >= LeaseTicks /\ ~Expired(item[i])
    BY <2>1, <2>3, LeaseInvImplies DEF LeaseLeft, LeaseCoversHolder
  <2>5. item[i].lease \in Nat /\ item[i].lease > 0 /\ spent[w] \in Nat
    BY <2>2, <2>3, <2>4, Fields, NumbersAssumption DEF Expired, TypeOK, NumbersAssumption
  <2>6. QED
    BY <2>2, <2>3, <2>4, <2>5, DecType, NumbersAssumption DEF NumbersAssumption
<1>15. QED
  BY <1>2, <1>3, <1>4, <1>5, <1>6, <1>7, <1>8, <1>9, <1>10, <1>11, <1>12, <1>13, <1>14
  DEF Next, WorkerStep, OpenForm, ProviderAccepts, vars, runVars

(* No row in the hands of a living run has an expired lease: recovery and   *)
(* the run that works on the row never meet.                                *)
THEOREM LeaseSafety == Spec => []LeaseCoversHolder
<1>1. Init => RunClock /\ LeaseLeft
  BY NumbersAssumption DEF Init, RunClock, ClockOf, LeaseLeft, Held, NumbersAssumption
<1>2. TypeOK /\ RunClock /\ LeaseLeft /\ [Next]_vars => RunClock' /\ LeaseLeft'
  BY RunClockNext, LeaseLeftNext
<1>3. QED
  BY <1>1, <1>2, TypeCorrect, LeaseInvImplies, PTL DEF Spec

-----------------------------------------------------------------------------
(***************************************************************************)
(* What the provider accepted.  A run that can still commit took its       *)
(* snapshot of the row before the provider's id was stored: whoever stores *)
(* it makes every other open transaction on the row stale.  Hence a second *)
(* acceptance is never stored, and no late failure kills a confirmed row.  *)
(***************************************************************************)
SnapshotFresh ==
    \A w \in Workers : cur[w] # None /\ w \notin stale => ~item[cur[w]].pmid

AckedStored ==
    \A i \in Items : acked[i] = 0 \/ (acked[i] = 1 /\ item[i].pmid)

AcceptedReached ==
    \A w \in Workers : pc[w] = "accepted" => cur[w] \in reached

ConfirmInv ==
    SnapshotFresh /\ AckedStored /\ ConfirmedNotDead /\ AcceptedReached /\ SentIsTrue

LEMMA ConfirmInit == Init => ConfirmInv
  BY DEF Init, NewRow, ConfirmInv, SnapshotFresh, AckedStored, ConfirmedNotDead,
         AcceptedReached, SentIsTrue

(* What it takes of a step that stores no provider id. *)
LEMMA SnapshotFreshKept ==
  ASSUME TypeOK, SnapshotFresh,
         \A i \in Items : item'[i].pmid => item[i].pmid,
         \A w \in Workers : \/ cur'[w] = None
                            \/ cur'[w] = cur[w] /\ (w \in stale => w \in stale')
  PROVE  SnapshotFresh'
  BY DEF SnapshotFresh, TypeOK

LEMMA RowsKept ==
  ASSUME AckedStored, ConfirmedNotDead, SentIsTrue,
         \A i \in Items :
            /\ item[i].pmid <=> item'[i].pmid
            /\ \/ item'[i].status = item[i].status
               \/ item'[i].status \notin {"sent", "dead"}
               \/ item'[i].status = "sent" /\ item[i].pmid
               \/ item'[i].status = "dead" /\ ~item[i].pmid
            /\ item'[i].current \in {"queued", "failed", item[i].current},
         reached \subseteq reached', acked' = acked
  PROVE  AckedStored' /\ ConfirmedNotDead' /\ SentIsTrue'
<1>1. AckedStored'
  BY DEF AckedStored
<1>2. ConfirmedNotDead'
  BY DEF ConfirmedNotDead
<1>3. SentIsTrue'
  BY DEF SentIsTrue
<1>4. QED
  BY <1>1, <1>2, <1>3

LEMMA ConfirmNext == TypeOK /\ ConfirmInv /\ [Next]_vars => ConfirmInv'
<1> SUFFICES ASSUME TypeOK, ConfirmInv, [Next]_vars PROVE ConfirmInv'
  OBVIOUS
<1> USE DEF ConfirmInv
<1>0. \A i \in Items : item[i] \in Row
  BY DEF TypeOK
<1>1. CASE UNCHANGED <<item, pc, cur, stale, reached, acked>>
  BY <1>1 DEF SnapshotFresh, AckedStored, ConfirmedNotDead, AcceptedReached, SentIsTrue
<1>2. ASSUME NEW i \in Items, Enqueue(i) PROVE ConfirmInv'
  <2>1. \A j \in Items : \/ item'[j] = item[j] 
                         \/ item'[j] = Enqueued(item[j])
    BY <1>2 DEF Enqueue, TypeOK
  <2>2. SnapshotFresh'
    BY <1>0, <1>2, <2>1, EnqueuedRow, SnapshotFreshKept DEF Enqueue, runVars
  <2>3. QED
    BY <1>0, <1>2, <2>1, <2>2, EnqueuedRow, RowsKept DEF Enqueue, runVars, AcceptedReached
<1>3. ASSUME NEW i \in Items, Requeue(i) PROVE ConfirmInv'
  <2>1. \A j \in Items : \/ item'[j] = item[j] 
                         \/ item'[j] = Requeued(item[j])
    BY <1>3 DEF Requeue, TypeOK
  <2>2. SnapshotFresh'
    BY <1>0, <1>3, <2>1, RequeuedRow, SnapshotFreshKept DEF Requeue, runVars
  <2>3. QED
    BY <1>0, <1>3, <2>1, <2>2, RequeuedRow, RowsKept DEF Requeue, runVars, AcceptedReached
<1>4. ASSUME NEW i \in Items, NEW s \in Lifecycle, Callback(i, s) PROVE ConfirmInv'
  <2> DEFINE r == IF item[i].pmid THEN item[i] ELSE Reconciled(item[i])
  <2>1. r \in Row /\ r.pmid /\ r.status # "dead"
    BY <1>0, ReconciledRow DEF ConfirmedNotDead
  <2>2. item' = [item EXCEPT ![i] = Applied(s, r)] /\ i \in reached
    BY <1>4 DEF Callback
  <2>3. Applied(s, r).pmid /\ Applied(s, r).status # "dead"
    BY <2>1, AppliedRow
  <2>4. item'[i].pmid /\ item'[i].status # "dead" /\ \A j \in Items \ {i} : item'[j] = item[j]
    BY <2>2, <2>3 DEF TypeOK
  <2> HIDE DEF r
  <2>5. UNCHANGED <<pc, cur, reached, acked>> /\ stale' = stale \cup Overtaken({i}, {})
    BY <1>4 DEF Callback, runVars
  <2>6. SnapshotFresh'
    BY <2>4, <2>5 DEF SnapshotFresh, Overtaken, TypeOK
  <2>7. QED
    BY <2>2, <2>4, <2>5, <2>6
    DEF AckedStored, ConfirmedNotDead, AcceptedReached, SentIsTrue
<1>5. ASSUME NEW v \in Workers, RunCron(v) PROVE ConfirmInv'
  <2> DEFINE rows == [i \in Items |-> IF Expired(item[i]) THEN Recovered(item[i])
                                                          ELSE item[i]]
  <2>1. PICK S \in ClaimSets(rows) :
          /\ item' = [i \in Items |-> IF i \in S THEN Claimed(rows[i]) ELSE rows[i]]
          /\ pc' = [pc EXCEPT ![v] = IF S = {} THEN "idle" ELSE "next"]
          /\ stale \subseteq stale'
    BY <1>5 DEF RunCron
  <2>2. ASSUME NEW i \in Items
        PROVE  /\ item[i].pmid <=> item'[i].pmid
               /\ \/ item'[i].status = item[i].status
                  \/ item'[i].status \notin {"sent", "dead"}
                  \/ item'[i].status = "sent" /\ item[i].pmid
                  \/ item'[i].status = "dead" /\ ~item[i].pmid
               /\ item'[i].current \in {"queued", "failed", item[i].current}
    <3>1. /\ rows[i] \in Row
          /\ rows[i].pmid <=> item[i].pmid
          /\ \/ rows[i].status = item[i].status
             \/ rows[i].status = "failed"
             \/ rows[i].status = "sent" /\ item[i].pmid
             \/ rows[i].status = "dead" /\ ~item[i].pmid
          /\ rows[i].current \in {"failed", item[i].current}
      BY <1>0, RecoveredRow, AfterRecovery
    <3>2. item'[i] = IF i \in S THEN Claimed(rows[i]) ELSE rows[i]
      BY <2>1
    <3> HIDE DEF rows
    <3>3. QED
      BY <3>1, <3>2, ClaimedRow
  <2>3. cur' = cur /\ acked' = acked /\ reached' = reached
    BY <1>5 DEF RunCron
  <2>4. SnapshotFresh'
    BY <2>1, <2>2, <2>3, SnapshotFreshKept
  <2>5. AckedStored' /\ ConfirmedNotDead' /\ SentIsTrue'
    BY <2>2, <2>3, RowsKept
  <2>6. QED
    BY <2>1, <2>3, <2>4, <2>5 DEF AcceptedReached, TypeOK
<1>6. ASSUME NEW v \in Workers, ProviderAccepts(v) PROVE ConfirmInv'
  BY <1>6 DEF ProviderAccepts, SnapshotFresh, AckedStored, ConfirmedNotDead,
              AcceptedReached, SentIsTrue, TypeOK
<1>7. ASSUME NEW v \in Workers, EndRun(v) PROVE ConfirmInv'
  BY <1>7 DEF EndRun, SnapshotFresh, AckedStored, ConfirmedNotDead,
              AcceptedReached, SentIsTrue, TypeOK
<1>8. ASSUME NEW v \in Workers, ReturnRest(v) PROVE ConfirmInv'
  <2>1. \A j \in Items : \/ item'[j] = item[j] 
                         \/ item'[j] = Returned(item[j])
    BY <1>8 DEF ReturnRest
  <2>2. SnapshotFresh'
    BY <1>0, <1>8, <2>1, ReturnedRow, SnapshotFreshKept DEF ReturnRest
  <2>3. AckedStored' /\ ConfirmedNotDead' /\ SentIsTrue'
    BY <1>0, <1>8, <2>1, ReturnedRow, RowsKept DEF ReturnRest
  <2>4. QED
    BY <1>8, <2>2, <2>3 DEF ReturnRest, AcceptedReached, TypeOK
<1>9. ASSUME NEW v \in Workers, NEW i \in Items, SkipSent(v, i) PROVE ConfirmInv'
  <2>1. \A j \in Items : \/ item'[j] = item[j] 
                         \/ item'[j] = AlreadySent(item[j]) /\ item[j].pmid
    BY <1>9 DEF SkipSent, NeedsNoSend, SentIsTrue, TypeOK
  <2>2. SnapshotFresh'
    BY <1>0, <1>9, <2>1, AlreadySentRow, SnapshotFreshKept DEF SkipSent
  <2>3. AckedStored' /\ ConfirmedNotDead' /\ SentIsTrue'
    BY <1>0, <1>9, <2>1, AlreadySentRow, RowsKept DEF SkipSent
  <2>4. QED
    BY <1>9, <2>2, <2>3 DEF SkipSent, AcceptedReached, TypeOK
<1>10. ASSUME NEW v \in Workers, NEW i \in Items, StartCall(v, i) PROVE ConfirmInv'
  BY <1>10 DEF StartCall, NeedsNoSend, SnapshotFresh, AckedStored, ConfirmedNotDead,
               AcceptedReached, SentIsTrue, TypeOK
<1>11. ASSUME NEW v \in Workers, NEW early \in Lifecycle, CommitSent(v, early)
       PROVE  ConfirmInv'
  <2> DEFINE row == Applied(early, Sent(View(v)))
  <2>1. /\ cur[v] \in Items /\ cur[v] \in reached /\ ~item[cur[v]].pmid
        /\ acked[cur[v]] = 0
    BY <1>11 DEF CommitSent, CommitItem, TypeOK, AcceptedReached, SnapshotFresh, AckedStored
  <2>2. row \in Row /\ row.pmid /\ row.status = "sent"
    <3>1. Sent(View(v)) \in Row /\ Sent(View(v)).pmid = TRUE /\ Sent(View(v)).status = "sent"
      BY <2>1, ViewRow, SentRow, SetsAssumption DEF SetsAssumption
    <3> DEFINE s == Sent(View(v))
    <3>2. row = Applied(early, s)
      OBVIOUS
    <3> HIDE DEF s, row
    <3>3. row.pmid = s.pmid /\ row.status = s.status /\ row \in Row
      BY <3>1, <3>2, AppliedRow DEF s
    <3>4. QED
      BY <3>1, <3>3 DEF s
  <2>3. CommitItem(v, row) /\ acked' = [acked EXCEPT ![cur[v]] = @ + 1] /\ reached' = reached
    BY <1>11 DEF CommitSent
  <2> HIDE DEF row
  <2>4. item'[cur[v]] = row /\ \A j \in Items \ {cur[v]} : item'[j] = item[j]
    BY <2>1, <2>3 DEF CommitItem, TypeOK
  <2>5. SnapshotFresh'
    BY <2>1, <2>3, <2>4 DEF CommitItem, SnapshotFresh, Overtaken, TypeOK
  <2>6. AckedStored' /\ ConfirmedNotDead'
    BY <2>1, <2>2, <2>3, <2>4 DEF AckedStored, ConfirmedNotDead, TypeOK
  <2>7. SentIsTrue' /\ AcceptedReached'
    BY <2>1, <2>2, <2>3, <2>4 DEF SentIsTrue, AcceptedReached, CommitItem, TypeOK
  <2>8. QED
    BY <2>5, <2>6, <2>7
<1>12. ASSUME NEW v \in Workers, NEW e \in Errors, CommitFailure(v, e) PROVE ConfirmInv'
  <2>1. PICK delay \in Backoffs : CommitItem(v, Failed(e, delay, View(v)))
    BY <1>12 DEF CommitFailure
  <2> DEFINE row == Failed(e, delay, View(v))
  <2>2. cur[v] \in Items /\ ~item[cur[v]].pmid
    BY <1>12, <2>1 DEF CommitFailure, CommitItem, TypeOK, SnapshotFresh
  <2>3. /\ row \in Row /\ ~row.pmid /\ row.status # "sent"
        /\ row.current \in {"failed", item[cur[v]].current}
    BY <1>12, <2>2, ViewRow, FailedRow DEF CommitFailure, TypeOK
  <2>4. CommitItem(v, row) /\ acked' = acked /\ reached' = reached
    BY <1>12, <2>1 DEF CommitFailure
  <2> HIDE DEF row
  <2>5. item'[cur[v]] = row /\ \A j \in Items \ {cur[v]} : item'[j] = item[j]
    BY <2>2, <2>4 DEF CommitItem, TypeOK
  <2>6. SnapshotFresh'
    BY <2>2, <2>3, <2>4, <2>5 DEF CommitItem, SnapshotFresh, TypeOK
  <2>7. AckedStored' /\ ConfirmedNotDead'
    BY <2>2, <2>3, <2>4, <2>5 DEF AckedStored, ConfirmedNotDead
  <2>8. SentIsTrue' /\ AcceptedReached'
    BY <2>2, <2>3, <2>4, <2>5 DEF SentIsTrue, AcceptedReached, CommitItem, TypeOK
  <2>9. QED
    BY <2>6, <2>7, <2>8
<1>13. ASSUME NEW v \in Workers, Abort(v) PROVE ConfirmInv'
  BY <1>13 DEF Abort, SnapshotFresh, AckedStored, ConfirmedNotDead,
               AcceptedReached, SentIsTrue, TypeOK
<1>14. ASSUME Tick PROVE ConfirmInv'
  <2>1. \A j \in Items : item'[j] = Ticked(item[j])
    BY <1>14 DEF Tick
  <2>2. SnapshotFresh'
    BY <1>0, <1>14, <2>1, TickedRow, SnapshotFreshKept DEF Tick
  <2>3. AckedStored' /\ ConfirmedNotDead' /\ SentIsTrue'
    BY <1>0, <1>14, <2>1, TickedRow, RowsKept DEF Tick, userVars
  <2>4. QED
    BY <1>14, <2>2, <2>3 DEF Tick, AcceptedReached
<1>15. QED
  BY <1>1, <1>2, <1>3, <1>4, <1>5, <1>6, <1>7, <1>8, <1>9, <1>10, <1>11, <1>12, <1>13, <1>14
  DEF Next, WorkerStep, OpenForm, vars, runVars

LEMMA ConfirmInvariant == Spec => []ConfirmInv
  BY ConfirmInit, ConfirmNext, TypeCorrect, PTL DEF Spec

(* At most one acceptance of a row is ever stored, whatever crashes, leases *)
(* that run out, clicks on "Reenviar" and callbacks come in between.        *)
THEOREM SingleAck == Spec => []AckedOnce
<1>1. ConfirmInv => AckedOnce
  BY DEF ConfirmInv, AckedStored, AckedOnce
<1>2. QED
  BY <1>1, ConfirmInvariant, PTL

(* A row with the provider's id is never in the dead-letter queue. *)
THEOREM NoConfirmedDead == Spec => []ConfirmedNotDead
<1>1. ConfirmInv => ConfirmedNotDead
  BY DEF ConfirmInv
<1>2. QED
  BY <1>1, ConfirmInvariant, PTL

(* "sent" and the later statuses are shown only for accepted messages. *)
THEOREM SentMeansAccepted == Spec => []SentIsTrue
<1>1. ConfirmInv => SentIsTrue
  BY DEF ConfirmInv
<1>2. QED
  BY <1>1, ConfirmInvariant, PTL

-----------------------------------------------------------------------------
(***************************************************************************)
(* Who holds which row.  No row is picked up before it was enqueued, and   *)
(* until somebody clicks "Reenviar" each row is in the hands of one run at *)
(* a time, which finds it "sending" or, after a callback, "sent".  Neither *)
(* kind is due, and a "sending" row in a hand has a lease                  *)
(* (LeaseCoversHolder), so neither recovery nor a claim takes it away.     *)
(***************************************************************************)
Enlisted ==
    \A i \in Items :
        item[i].status = "absent" => i \notin form /\ \A w \in Workers : i \notin Held(w)

Alone ==
    /\ \A w \in Workers : cur[w] \notin batch[w]
    /\ requeues = 0 =>
        /\ \A w \in Workers : \A i \in Held(w) : item[i].status \in {"sending", "sent"}
        /\ \A v, w \in Workers : v # w => Held(v) \cap Held(w) = {}

Hands == Enlisted /\ Alone

LEMMA HandsInit == Init => Hands
  BY SetsAssumption DEF Init, Hands, Enlisted, Alone, Held, SetsAssumption

LEMMA HeldItems ==
  ASSUME TypeOK, NEW w \in Workers PROVE Held(w) \subseteq Items
  BY DEF TypeOK, Held

(* A step keeps Hands when no run takes a row, and every row in a hand that *)
(* keeps it is as it was, or "sending" or "sent".                           *)
LEMMA HandsKept ==
  ASSUME TypeOK, Hands,
         \A w \in Workers : Held(w)' \subseteq Held(w) /\ cur'[w] \notin batch'[w],
         \A i \in Items : item'[i].status = "absent" =>
             item[i].status = "absent" /\ (i \in form' => i \in form),
         requeues' = 0 => requeues = 0,
         requeues' = 0 => \A w \in Workers : \A i \in Held(w)' :
             item'[i].status \in {item[i].status, "sending", "sent"}
  PROVE  Hands'
<1>1. Enlisted'
  BY DEF Hands, Enlisted
<1>2. ASSUME requeues' = 0, NEW w \in Workers, NEW i \in Held(w)'
      PROVE  item'[i].status \in {"sending", "sent"}
  BY <1>2 DEF Hands, Alone
<1>3. ASSUME requeues' = 0, NEW v \in Workers, NEW w \in Workers, v # w
      PROVE  Held(v)' \cap Held(w)' = {}
  <2>1. Held(v) \cap Held(w) = {}
    BY <1>3 DEF Hands, Alone
  <2>2. QED
    BY <2>1
<1>4. Alone'
  BY <1>2, <1>3 DEF Alone
<1>5. QED
  BY <1>1, <1>4 DEF Hands

(* An item's commit: the run lets go of its row, which no other hand holds  *)
(* before the first click.                                                  *)
LEMMA HandsCommit ==
  ASSUME TypeOK, Hands, NEW w \in Workers, NEW row \in Row, cur[w] # None,
         row.status # "absent", CommitItem(w, row),
         UNCHANGED <<batch, form, requeues>>
  PROVE  Hands'
<1>1. cur[w] \in Items /\ cur[w] \in Held(w)
  BY DEF TypeOK, Held
<1>2. item'[cur[w]] = row /\ \A i \in Items \ {cur[w]} : item'[i] = item[i]
  BY <1>1 DEF CommitItem, TypeOK
<1>3. cur' = [cur EXCEPT ![w] = None] /\ cur[w] \notin batch[w]
  BY DEF CommitItem, Hands, Alone
<1>4. ASSUME NEW v \in Workers PROVE Held(v)' \subseteq Held(v) /\ cur'[v] \notin batch'[v]
  <2>1. cur'[v] = (IF v = w THEN None ELSE cur[v]) /\ batch'[v] = batch[v]
    BY <1>3 DEF TypeOK
  <2>2. None \notin batch[v]
    BY SetsAssumption DEF TypeOK, SetsAssumption
  <2>3. QED
    BY <2>1, <2>2 DEF Held, Hands, Alone
<1>5. ASSUME requeues = 0, NEW v \in Workers, NEW i \in Held(v)'
      PROVE  item'[i] = item[i]
  <2>1. i \in Held(v) /\ i \in Items
    BY <1>4, HeldItems
  <2>2. CASE v = w
    <3>1. i # cur[w]
      BY <2>2, <1>3 DEF Held, TypeOK
    <3>2. QED
      BY <3>1, <1>2, <2>1
  <2>3. CASE v # w
    <3>1. Held(v) \cap Held(w) = {}
      BY <1>5, <2>3 DEF Hands, Alone
    <3>2. QED
      BY <3>1, <1>1, <1>2, <2>1
  <2>4. QED
    BY <2>2, <2>3
<1>6. QED
  BY <1>1, <1>2, <1>4, <1>5, HandsKept

LEMMA HandsRunCron ==
  ASSUME TypeOK, Hands, LeaseCoversHolder, NEW w \in Workers, RunCron(w)
  PROVE  Hands'
<1> DEFINE rows == [i \in Items |-> IF Expired(item[i]) THEN Recovered(item[i])
                                                        ELSE item[i]]
<1>1. PICK S \in ClaimSets(rows) :
        /\ item' = [i \in Items |-> IF i \in S THEN Claimed(rows[i]) ELSE rows[i]]
        /\ batch' = [batch EXCEPT ![w] = S]
  BY DEF RunCron
<1>2. cur[w] = None /\ UNCHANGED <<cur, form, requeues>>
  BY DEF RunCron, userVars, TypeOK
<1>3. S \subseteq Items /\ \A i \in S : rows[i].status \in {"pending", "failed"}
  <2> HIDE DEF rows
  <2>1. QED
    BY DEF ClaimSets, Due
<1>4. \A i \in Items : item[i] \in Row /\ rows[i] \in Row
  BY AfterRecovery DEF TypeOK
<1>5. Held(w)' = S /\ \A v \in Workers : v # w => Held(v)' = Held(v)
  BY <1>1, <1>2 DEF Held, TypeOK
<1>6. ASSUME NEW v \in Workers, NEW i \in Held(v), v # w PROVE rows[i] = item[i]
  <2>1. i \in Items
    BY HeldItems
  <2>2. ~Expired(item[i])
    BY DEF LeaseCoversHolder
  <2>3. QED
    BY <2>1, <2>2
<1>7. ASSUME NEW i \in Items
      PROVE  rows[i].status = "absent" <=> item[i].status = "absent"
  <2>1. CASE Expired(item[i])
    BY <2>1, <1>4, RecoveredRow DEF Expired
  <2>2. CASE ~Expired(item[i])
    BY <2>2
  <2>3. QED
    BY <2>1, <2>2
<1>8. \A i \in Items : item'[i] = IF i \in S THEN Claimed(rows[i]) ELSE rows[i]
  BY <1>1
<1> HIDE DEF rows
<1>9. \A i \in Items : /\ i \in S => item'[i].status = "sending"
                       /\ i \notin S => item'[i] = rows[i]
  BY <1>4, <1>8, ClaimedRow
<1>10. ASSUME requeues = 0, NEW v \in Workers, v # w PROVE Held(v) \cap S = {}
  <2> SUFFICES ASSUME NEW i \in Held(v), i \in S PROVE FALSE
    OBVIOUS
  <2>1. item[i].status \in {"sending", "sent"}
    BY <1>10 DEF Hands, Alone
  <2>2. rows[i] = item[i]
    BY <1>6, <1>10
  <2>3. QED
    BY <1>3, <2>1, <2>2
<1>11. Enlisted'
  <2> SUFFICES ASSUME NEW i \in Items, item'[i].status = "absent"
               PROVE  i \notin form' /\ \A v \in Workers : i \notin Held(v)'
    BY DEF Enlisted
  <2>1. i \notin S /\ item[i].status = "absent"
    BY <1>7, <1>9
  <2>2. i \notin form /\ \A v \in Workers : i \notin Held(v)
    BY <2>1 DEF Hands, Enlisted
  <2>3. QED
    BY <1>2, <1>5, <2>1, <2>2
<1>12. ASSUME NEW v \in Workers PROVE cur'[v] \notin batch'[v]
  <2>1. CASE v = w
    BY <2>1, <1>1, <1>2, <1>3, SetsAssumption DEF SetsAssumption, TypeOK
  <2>2. CASE v # w
    BY <2>2, <1>1, <1>2 DEF Hands, Alone, TypeOK
  <2>3. QED
    BY <2>1, <2>2
<1>13. ASSUME requeues = 0, NEW v \in Workers, NEW i \in Held(v)'
       PROVE  item'[i].status \in {"sending", "sent"}
  <2>1. CASE v = w
    BY <2>1, <1>3, <1>5, <1>9
  <2>2. CASE v # w
    <3>1. i \in Held(v) /\ i \in Items
      BY <2>2, <1>5, HeldItems
    <3>2. i \notin S /\ rows[i] = item[i]
      BY <2>2, <3>1, <1>6, <1>10, <1>13
    <3>3. item[i].status \in {"sending", "sent"}
      BY <3>1, <1>13 DEF Hands, Alone
    <3>4. QED
      BY <3>1, <3>2, <3>3, <1>9
  <2>3. QED
    BY <2>1, <2>2
<1>14. ASSUME requeues = 0, NEW u \in Workers, NEW v \in Workers, u # v
       PROVE  Held(u)' \cap Held(v)' = {}
  <2>1. Held(u) \cap Held(v) = {}
    BY <1>14 DEF Hands, Alone
  <2>2. QED
    BY <2>1, <1>5, <1>10, <1>14
<1>15. Alone'
  BY <1>2, <1>12, <1>13, <1>14 DEF Alone
<1>16. QED
  BY <1>11, <1>15 DEF Hands

LEMMA HandsReturnRest ==
  ASSUME TypeOK, Hands, NEW w \in Workers, ReturnRest(w)
  PROVE  Hands'
<1>1. /\ item' = [i \in Items |-> IF i \in batch[w] THEN Returned(item[i]) ELSE item[i]]
      /\ batch' = [batch EXCEPT ![w] = {}]
      /\ cur[w] = None /\ UNCHANGED <<cur, form, requeues>>
  BY DEF ReturnRest, userVars, TypeOK
<1>2. ASSUME NEW i \in Items
      PROVE  IF i \in batch[w] THEN item'[i].status = "pending" ELSE item'[i] = item[i]
  BY <1>1, ReturnedRow DEF TypeOK
<1>3. Held(w)' = {} /\ \A v \in Workers : v # w => Held(v)' = Held(v)
  BY <1>1 DEF Held, TypeOK
<1>4. \A v \in Workers : cur'[v] \notin batch'[v]
  BY <1>1 DEF Hands, Alone, TypeOK
<1>5. ASSUME requeues = 0, NEW v \in Workers, NEW i \in Held(v)'
      PROVE  item'[i] = item[i]
  <2>1. v # w /\ i \in Held(v) /\ i \in Items
    BY <1>3, HeldItems
  <2>2. Held(v) \cap Held(w) = {}
    BY <1>5, <2>1 DEF Hands, Alone
  <2>3. i \notin batch[w]
    BY <2>1, <2>2 DEF Held
  <2>4. QED
    BY <1>2, <2>1, <2>3
<1>6. \A i \in Items : item'[i].status = "absent" => item[i].status = "absent"
  BY <1>2
<1>7. QED
  BY <1>1, <1>3, <1>4, <1>5, <1>6, HandsKept

(* Steps that leave every hand as it is. *)
LEMMA HandsSame ==
  ASSUME TypeOK, Hands, UNCHANGED <<batch, cur, requeues>>,
         \A i \in Items : /\ item'[i].status = "absent" =>
                               item[i].status = "absent" /\ (i \in form' => i \in form)
                          /\ \/ item'[i].status \in {item[i].status, "sending", "sent"}
                             \/ item[i].status = "absent"
  PROVE  Hands'
<1>1. \A w \in Workers : Held(w)' = Held(w) /\ cur'[w] \notin batch'[w]
  BY DEF Held, Hands, Alone
<1>2. ASSUME NEW w \in Workers, NEW i \in Held(w)'
      PROVE  item'[i].status \in {item[i].status, "sending", "sent"}
  <2>1. i \in Held(w) /\ i \in Items
    BY <1>1, HeldItems
  <2>2. item[i].status # "absent"
    BY <2>1 DEF Hands, Enlisted
  <2>3. QED
    BY <2>1, <2>2
<1>3. QED
  BY <1>1, <1>2, HandsKept

LEMMA HandsNext ==
  TypeOK /\ ConfirmInv /\ Hands /\ LeaseCoversHolder /\ [Next]_vars => Hands'
<1> SUFFICES ASSUME TypeOK, ConfirmInv, Hands, LeaseCoversHolder, [Next]_vars
             PROVE  Hands'
  OBVIOUS
<1>0. \A i \in Items : item[i] \in Row
  BY DEF TypeOK
<1>1. CASE UNCHANGED <<item, batch, cur, form, requeues>>
  BY <1>1, HandsSame
<1>2. ASSUME NEW i \in Items, Enqueue(i) PROVE Hands'
  <2>1. \A j \in Items : \/ item'[j] = item[j]
                         \/ item'[j].status = "pending" /\ item[j].status = "absent"
    BY <1>0, <1>2, EnqueuedRow DEF Enqueue, TypeOK
  <2>2. QED
    BY <1>2, <2>1, HandsSame DEF Enqueue, runVars, userVars
<1>3. ASSUME NEW i \in Items, Requeue(i) PROVE Hands'
  <2>1. \A j \in Items : item'[j] = item[j] \/ item'[j].status = "pending"
    BY <1>0, <1>3, RequeuedRow DEF Requeue, TypeOK
  <2>2. UNCHANGED <<batch, cur>> /\ requeues' # 0 /\ form' \subseteq form
    BY <1>3, NumbersAssumption DEF Requeue, runVars, TypeOK, NumbersAssumption
  <2>3. \A w \in Workers : Held(w)' = Held(w) /\ cur'[w] \notin batch'[w]
    BY <2>2 DEF Held, Hands, Alone
  <2>4. QED
    BY <2>1, <2>2, <2>3, HandsKept
<1>4. ASSUME NEW i \in Items, NEW s \in Lifecycle, Callback(i, s) PROVE Hands'
  <2> DEFINE r == IF item[i].pmid THEN item[i] ELSE Reconciled(item[i])
  <2>1. r \in Row /\ (r = item[i] \/ r.status = "sent")
    BY <1>0, ReconciledRow
  <2>2. item' = [item EXCEPT ![i] = Applied(s, r)]
    BY <1>4 DEF Callback
  <2> HIDE DEF r
  <2>3. \A j \in Items : item'[j].status \in {item[j].status, "sent"}
    BY <2>1, <2>2, AppliedRow DEF TypeOK
  <2>4. UNCHANGED <<batch, cur, form, requeues>>
    BY <1>4 DEF Callback, runVars, userVars
  <2>5. QED
    BY <2>3, <2>4, HandsSame
<1>5. ASSUME NEW i \in Items, OpenForm(i) PROVE Hands'
  BY <1>5, HandsSame DEF OpenForm, runVars
<1>6. ASSUME NEW w \in Workers, EndRun(w) PROVE Hands'
  BY <1>6, HandsSame DEF EndRun, userVars
<1>7. ASSUME NEW w \in Workers, NEW i \in Items, SkipSent(w, i) PROVE Hands'
  <2>1. item' = [item EXCEPT ![i] = AlreadySent(@)] /\ AlreadySent(item[i]).status = "sent"
    BY <1>0, <1>7, AlreadySentRow DEF SkipSent
  <2>2. \A j \in Items : item'[j] = item[j] \/ item'[j].status = "sent"
    BY <2>1 DEF TypeOK
  <2>3. batch' = [batch EXCEPT ![w] = @ \ {i}] /\ UNCHANGED <<cur, form, requeues>>
    BY <1>7 DEF SkipSent, userVars
  <2>4. \A v \in Workers : Held(v)' \subseteq Held(v) /\ cur'[v] \notin batch'[v]
    BY <2>3 DEF Held, Hands, Alone, TypeOK
  <2>5. \A v \in Workers : \A j \in Held(v)' :
            item'[j].status \in {item[j].status, "sending", "sent"}
    BY <2>2, <2>4, HeldItems
  <2>6. QED
    BY <2>2, <2>3, <2>4, <2>5, HandsKept
<1>8. ASSUME NEW w \in Workers, NEW i \in Items, StartCall(w, i) PROVE Hands'
  <2>1. /\ cur[w] = None /\ i \in batch[w]
        /\ batch' = [batch EXCEPT ![w] = @ \ {i}] /\ cur' = [cur EXCEPT ![w] = i]
        /\ UNCHANGED <<item, form, requeues>>
    BY <1>8 DEF StartCall, NextItem, userVars, TypeOK
  <2>2. \A v \in Workers : Held(v)' \subseteq Held(v) /\ cur'[v] \notin batch'[v]
    BY <2>1 DEF Held, Hands, Alone, TypeOK
  <2>3. QED
    BY <2>1, <2>2, HandsKept
<1>9. ASSUME NEW w \in Workers, NEW early \in Lifecycle, CommitSent(w, early)
      PROVE  Hands'
  <2>1. cur[w] # None
    BY <1>9 DEF CommitSent, TypeOK
  <2>2. Sent(View(w)) \in Row /\ Sent(View(w)).status = "sent"
    BY <2>1, ViewRow, SentRow
  <2> DEFINE row == Applied(early, Sent(View(w)))
  <2>3. row \in Row /\ row.status = "sent"
    BY <2>2, AppliedRow
  <2>4. CommitItem(w, row) /\ UNCHANGED <<batch, form, requeues>>
    BY <1>9 DEF CommitSent, userVars
  <2> HIDE DEF row
  <2>5. QED
    BY <2>1, <2>3, <2>4, HandsCommit
<1>10. ASSUME NEW w \in Workers, NEW e \in Errors, CommitFailure(w, e) PROVE Hands'
  <2>1. PICK delay \in Backoffs : CommitItem(w, Failed(e, delay, View(w)))
    BY <1>10 DEF CommitFailure
  <2>2. cur[w] # None
    BY <1>10 DEF CommitFailure, TypeOK
  <2> DEFINE row == Failed(e, delay, View(w))
  <2>3. row \in Row /\ row.status # "absent"
    BY <2>2, ViewRow, FailedRow
  <2>4. CommitItem(w, row) /\ UNCHANGED <<batch, form, requeues>>
    BY <1>10, <2>1 DEF CommitFailure, userVars
  <2> HIDE DEF row
  <2>5. QED
    BY <2>2, <2>3, <2>4, HandsCommit
<1>11. ASSUME NEW w \in Workers, Abort(w) PROVE Hands'
  <2>1. /\ batch' = [batch EXCEPT ![w] = {}] /\ cur' = [cur EXCEPT ![w] = None]
        /\ UNCHANGED <<item, form, requeues>>
    BY <1>11 DEF Abort, userVars
  <2>2. \A v \in Workers : Held(v)' \subseteq Held(v) /\ cur'[v] \notin batch'[v]
    BY <2>1 DEF Held, Hands, Alone, TypeOK
  <2>3. QED
    BY <2>1, <2>2, HandsKept
<1>12. ASSUME Tick PROVE Hands'
  BY <1>0, <1>12, TickedRow, HandsSame DEF Tick, userVars
<1>13. QED
  BY <1>1, <1>2, <1>3, <1>4, <1>5, <1>6, <1>7, <1>8, <1>9, <1>10, <1>11, <1>12,
     HandsRunCron, HandsReturnRest
  DEF Next, WorkerStep, ProviderAccepts, vars, runVars, userVars

IInv == TypeOK /\ ConfirmInv /\ Hands /\ LeaseCoversHolder

LEMMA Invariant == Spec => []IInv
<1>1. Init => RunClock /\ LeaseLeft
  BY NumbersAssumption DEF Init, RunClock, ClockOf, LeaseLeft, Held, NumbersAssumption
<1>2. TypeOK /\ RunClock /\ LeaseLeft /\ [Next]_vars => RunClock' /\ LeaseLeft'
  BY RunClockNext, LeaseLeftNext
<1>3. QED
  BY <1>1, <1>2, TypeCorrect, LeaseInvImplies, ConfirmInvariant, HandsInit, HandsNext,
     PTL DEF Spec, IInv

-----------------------------------------------------------------------------
(***************************************************************************)
(* MessageOutbox implements MessageDelivery.                               *)
(***************************************************************************)
seen == <<Stages, OnRecord, reached, acked, cur, requeues>>

(* Steps that only change what MessageDelivery does not see. *)
LEMMA Unseen ==
  ASSUME \A i \in Items : /\ StageOf(item'[i]) = StageOf(item[i])
                          /\ item'[i].pmid = item[i].pmid
  PROVE  Stages' = Stages /\ OnRecord' = OnRecord
  BY DEF Stages, OnRecord

LEMMA OneRow ==
  ASSUME TypeOK, NEW i \in Items, NEW row, item' = [item EXCEPT ![i] = row]
  PROVE  /\ Stages' = [Stages EXCEPT ![i] = StageOf(row)]
         /\ OnRecord' = [OnRecord EXCEPT ![i] = row.pmid]
<1>1. \A j \in Items : item'[j] = IF j = i THEN row ELSE item[j]
  BY DEF TypeOK
<1>2. Stages' = [j \in Items |-> StageOf(IF j = i THEN row ELSE item[j])]
  BY <1>1 DEF Stages
<1>3. [Stages EXCEPT ![i] = StageOf(row)]
        = [j \in Items |-> StageOf(IF j = i THEN row ELSE item[j])]
  BY DEF Stages
<1>4. OnRecord' = [j \in Items |-> IF j = i THEN row.pmid ELSE item[j].pmid]
  BY <1>1 DEF OnRecord
<1>5. [OnRecord EXCEPT ![i] = row.pmid]
        = [j \in Items |-> IF j = i THEN row.pmid ELSE item[j].pmid]
  BY DEF OnRecord
<1>6. QED
  BY <1>2, <1>3, <1>4, <1>5

LEMMA Mapped ==
  ASSUME NEW i \in Items
  PROVE  Stages[i] = StageOf(item[i]) /\ OnRecord[i] = item[i].pmid
  BY DEF Stages, OnRecord

(* The people and the provider: enqueue, "Reenviar" and the callbacks. *)
LEMMA OutsideDelivery ==
  ASSUME IInv, NEW i \in Items,
         Enqueue(i) \/ OpenForm(i) \/ Requeue(i) \/ \E s \in Lifecycle : Callback(i, s)
  PROVE  [Delivery!Next]_seen
<1>1. item[i] \in Row /\ TypeOK
  BY DEF IInv, TypeOK
<1>2. CASE Enqueue(i)
  <2>1. item' = [item EXCEPT ![i] = Enqueued(item[i])] /\ item[i].status = "absent"
        /\ UNCHANGED <<reached, acked, cur, requeues>>
    BY <1>2 DEF Enqueue, runVars, userVars
  <2>2. /\ Stages' = [Stages EXCEPT ![i] = "waiting"]
        /\ OnRecord' = [OnRecord EXCEPT ![i] = OnRecord[i]]
    <3> DEFINE row == Enqueued(item[i])
    <3>1. StageOf(row) = "waiting" /\ row.pmid = OnRecord[i]
      BY <1>1, EnqueuedRow, Mapped DEF StageOf
    <3>2. item' = [item EXCEPT ![i] = row]
      BY <2>1
    <3> HIDE DEF row
    <3>3. QED
      BY <1>1, <3>1, <3>2, OneRow
  <2>3. OnRecord' = OnRecord
    BY <2>2 DEF OnRecord
  <2>4. Stages[i] = "absent"
    BY <2>1, Mapped DEF StageOf
  <2>5. Delivery!Submit(i)
    BY <2>1, <2>2, <2>3, <2>4 DEF Delivery!Submit
  <2>6. QED
    BY <2>5 DEF Delivery!Next
<1>3. CASE OpenForm(i)
  BY <1>3 DEF OpenForm, runVars, seen, Stages, OnRecord
<1>4. CASE Requeue(i)
  <2>1. /\ item' = [item EXCEPT ![i] = Requeued(item[i])]
        /\ requeues' = requeues + 1 /\ i \in form
        /\ UNCHANGED <<reached, acked, cur>>
    BY <1>4 DEF Requeue, runVars
  <2>2. /\ Stages' = [Stages EXCEPT ![i] = "waiting"]
        /\ OnRecord' = [OnRecord EXCEPT ![i] = OnRecord[i]]
    <3> DEFINE row == Requeued(item[i])
    <3>1. StageOf(row) = "waiting" /\ row.pmid = OnRecord[i]
      BY <1>1, RequeuedRow, Mapped DEF StageOf
    <3>2. item' = [item EXCEPT ![i] = row]
      BY <2>1
    <3> HIDE DEF row
    <3>3. QED
      BY <1>1, <3>1, <3>2, OneRow
  <2>3. OnRecord' = OnRecord
    BY <2>2 DEF OnRecord
  <2>4. Stages[i] # "absent"
    BY <2>1, Mapped DEF StageOf, IInv, Hands, Enlisted
  <2>5. Delivery!Requeue(i)
    BY <2>1, <2>2, <2>3, <2>4 DEF Delivery!Requeue
  <2>6. QED
    BY <2>5 DEF Delivery!Next
<1>5. ASSUME NEW s \in Lifecycle, Callback(i, s) PROVE [Delivery!Next]_seen
  <2> DEFINE r == IF item[i].pmid THEN item[i] ELSE Reconciled(item[i])
  <2>1. /\ item' = [item EXCEPT ![i] = Applied(s, r)] /\ i \in reached
        /\ UNCHANGED <<reached, acked, cur, requeues>>
    BY <1>5 DEF Callback, runVars, userVars
  <2>2. /\ r \in Row /\ r.pmid = TRUE
        /\ item[i].pmid => r = item[i]
        /\ ~item[i].pmid => r.status = "sent"
    BY <1>1, ReconciledRow DEF Row
  <2> HIDE DEF r
  <2>3. Applied(s, r).status = r.status /\ Applied(s, r).pmid = TRUE
    BY <2>2, AppliedRow
  <2>4. /\ Stages' = [Stages EXCEPT ![i] = StageOf(Applied(s, r))]
        /\ OnRecord' = [OnRecord EXCEPT ![i] = TRUE]
    BY <1>1, <2>1, <2>3, OneRow
  <2>5. StageOf(Applied(s, r)) = StageOf(r)
    BY <2>3 DEF StageOf
  <2>6. CASE item[i].pmid
    <3>1. Stages' = Stages
      BY <2>2, <2>4, <2>5, <2>6 DEF Stages
    <3>2. item[i].pmid = TRUE
      BY <2>6, <1>1, Fields
    <3>3. OnRecord' = OnRecord
      BY <2>4, <3>2 DEF OnRecord
    <3>4. QED
      BY <2>1, <3>1, <3>3 DEF seen
  <2>7. CASE ~item[i].pmid
    <3>1. Stages' = [Stages EXCEPT ![i] = "sent"]
      BY <2>2, <2>4, <2>5, <2>7 DEF StageOf
    <3>2. ~OnRecord[i]
      BY <2>7, Mapped
    <3>3. Delivery!Confirm(i)
      BY <2>1, <2>4, <3>1, <3>2 DEF Delivery!Confirm
    <3>4. QED
      BY <3>3 DEF Delivery!Next
  <2>8. QED
    BY <2>6, <2>7
<1>6. QED
  BY <1>2, <1>3, <1>4, <1>5

(* A call begins, is accepted, or ends. *)
LEMMA BeginDelivery ==
  ASSUME IInv, NEW w \in Workers, NEW i \in Items, StartCall(w, i)
  PROVE  [Delivery!Next]_seen
<1>1. /\ i \in batch[w] /\ ~item[i].pmid /\ item[i].status # "sent"
      /\ cur[w] = None /\ cur' = [cur EXCEPT ![w] = i]
      /\ UNCHANGED <<item, reached, acked, requeues>>
  BY DEF StartCall, NextItem, NeedsNoSend, userVars, IInv, TypeOK
<1>2. Stages' = Stages /\ OnRecord' = OnRecord
  BY <1>1 DEF Stages, OnRecord
<1>3. i \in Held(w)
  BY <1>1 DEF Held
<1>4. Stages[i] # "absent" /\ ~OnRecord[i]
  BY <1>1, <1>3, Mapped DEF StageOf, IInv, Hands, Enlisted
<1>5. ASSUME requeues = 0 PROVE Stages[i] = "waiting" /\ ~Delivery!InFlight(i)
  <2>1. item[i].status = "sending"
    BY <1>1, <1>3, <1>5 DEF IInv, Hands, Alone
  <2>2. ASSUME NEW v \in Workers, cur[v] = i PROVE FALSE
    <3>1. i \in Held(v) /\ v # w
      BY <1>1, <2>2, SetsAssumption DEF Held, SetsAssumption
    <3>2. QED
      BY <1>3, <1>5, <3>1 DEF IInv, Hands, Alone
  <2>3. QED
    BY <2>1, <2>2, Mapped DEF StageOf, Delivery!InFlight
<1>6. requeues > 0 \/ requeues = 0
  BY NumbersAssumption DEF IInv, TypeOK, NumbersAssumption
<1>7. Delivery!Begin(w, i)
  BY <1>1, <1>2, <1>4, <1>5, <1>6 DEF Delivery!Begin
<1>8. QED
  BY <1>7 DEF Delivery!Next

LEMMA AcceptDelivery ==
  ASSUME IInv, NEW w \in Workers, ProviderAccepts(w)
  PROVE  [Delivery!Next]_seen
<1>1. cur[w] # None /\ reached' = reached \cup {cur[w]}
      /\ UNCHANGED <<item, acked, cur, requeues>>
  BY DEF ProviderAccepts, userVars, IInv, TypeOK
<1>2. Stages' = Stages /\ OnRecord' = OnRecord
  BY <1>1 DEF Stages, OnRecord
<1>3. Delivery!Accept(w)
  BY <1>1, <1>2 DEF Delivery!Accept
<1>4. QED
  BY <1>3 DEF Delivery!Next

LEMMA OutcomeDelivery ==
  ASSUME IInv, NEW w \in Workers,
         \/ \E early \in Lifecycle : CommitSent(w, early)
         \/ \E e \in Errors : CommitFailure(w, e)
         \/ Abort(w)
  PROVE  [Delivery!Next]_seen
<1>0. TypeOK
  BY DEF IInv
<1>1. ASSUME NEW early \in Lifecycle, CommitSent(w, early) PROVE [Delivery!Next]_seen
  <2> DEFINE row == Applied(early, Sent(View(w)))
  <2>1. /\ cur[w] \in Items /\ cur[w] # None /\ cur[w] \in reached
        /\ ~item[cur[w]].pmid
    BY <1>1 DEF CommitSent, CommitItem, IInv, TypeOK, ConfirmInv, AcceptedReached,
                SnapshotFresh
  <2>2. Sent(View(w)) \in Row /\ Sent(View(w)).pmid = TRUE /\ Sent(View(w)).status = "sent"
    BY <1>0, <2>1, ViewRow, SentRow
  <2>3. row.pmid = TRUE /\ row.status = "sent"
    BY <2>2, AppliedRow
  <2>4. /\ item' = [item EXCEPT ![cur[w]] = row]
        /\ cur' = [cur EXCEPT ![w] = None]
        /\ acked' = [acked EXCEPT ![cur[w]] = @ + 1]
        /\ UNCHANGED <<reached, requeues>>
    BY <1>1 DEF CommitSent, CommitItem, userVars
  <2> HIDE DEF row
  <2>5. /\ Stages' = [Stages EXCEPT ![cur[w]] = "sent"]
        /\ OnRecord' = [OnRecord EXCEPT ![cur[w]] = TRUE]
        /\ ~OnRecord[cur[w]]
    <3>1. StageOf(row) = "sent"
      BY <2>3 DEF StageOf
    <3>2. /\ Stages' = [Stages EXCEPT ![cur[w]] = StageOf(row)]
          /\ OnRecord' = [OnRecord EXCEPT ![cur[w]] = row.pmid]
      BY ONLY <1>0, <2>1, <2>4, OneRow
    <3>3. QED
      BY <2>1, <2>3, <3>1, <3>2, Mapped
  <2>6. Delivery!Acknowledge(w)
    BY <2>1, <2>4, <2>5 DEF Delivery!Acknowledge, Delivery!Done
  <2>7. QED
    BY <2>6 DEF Delivery!Next
<1>2. ASSUME NEW e \in Errors, CommitFailure(w, e) PROVE [Delivery!Next]_seen
  <2>1. PICK delay \in Backoffs : CommitItem(w, Failed(e, delay, View(w)))
    BY <1>2 DEF CommitFailure
  <2> DEFINE row == Failed(e, delay, View(w))
  <2>2. cur[w] \in Items /\ cur[w] # None /\ ~item[cur[w]].pmid
    BY <1>2, <2>1 DEF CommitFailure, CommitItem, IInv, TypeOK, ConfirmInv, SnapshotFresh
  <2>3. row.pmid = item[cur[w]].pmid /\ row.status \in {"dead", "failed"}
    BY <1>0, <2>2, ViewRow, FailedRow
  <2>4. /\ item' = [item EXCEPT ![cur[w]] = row]
        /\ cur' = [cur EXCEPT ![w] = None]
        /\ UNCHANGED <<acked, reached, requeues>>
    BY <1>2, <2>1 DEF CommitFailure, CommitItem, userVars
  <2> HIDE DEF row
  <2>5. StageOf(row) \in {"waiting", "dead"}
    BY <2>3 DEF StageOf
  <2>6. /\ Stages' = [Stages EXCEPT ![cur[w]] = StageOf(row)]
        /\ OnRecord' = [OnRecord EXCEPT ![cur[w]] = OnRecord[cur[w]]]
        /\ ~OnRecord[cur[w]]
    <3>1. /\ Stages' = [Stages EXCEPT ![cur[w]] = StageOf(row)]
          /\ OnRecord' = [OnRecord EXCEPT ![cur[w]] = row.pmid]
      BY ONLY <1>0, <2>2, <2>4, OneRow
    <3>2. QED
      BY <2>2, <2>3, <3>1, Mapped
  <2>7. OnRecord' = OnRecord
    BY <2>6 DEF OnRecord
  <2>8. Delivery!Fail(w)
    BY <2>2, <2>4, <2>5, <2>6, <2>7 DEF Delivery!Fail, Delivery!Done
  <2>9. QED
    BY <2>8 DEF Delivery!Next
<1>3. CASE Abort(w)
  <2>1. cur' = [cur EXCEPT ![w] = None] /\ UNCHANGED <<item, reached, acked, requeues>>
    BY <1>3 DEF Abort, userVars
  <2>2. Stages' = Stages /\ OnRecord' = OnRecord
    BY <2>1 DEF Stages, OnRecord
  <2>3. CASE cur[w] = None
    <3>1. cur' = cur
      BY <1>0, <2>1, <2>3 DEF TypeOK
    <3>2. QED
      BY <2>1, <2>2, <3>1 DEF seen
  <2>4. CASE cur[w] # None
    <3>1. Delivery!Drop(w)
      BY <2>1, <2>2, <2>4 DEF Delivery!Drop, Delivery!Done
    <3>2. QED
      BY <3>1 DEF Delivery!Next
  <2>5. QED
    BY <2>3, <2>4
<1>4. QED
  BY <1>1, <1>2, <1>3

(* Recovery and claim.  What recovery takes out of the queue is on record,  *)
(* or its lease has expired, so that nobody calls the provider for it.      *)
LEMMA CronDelivery ==
  ASSUME IInv, NEW w \in Workers, RunCron(w)
  PROVE  [Delivery!Next]_seen
<1> DEFINE rows == [i \in Items |-> IF Expired(item[i]) THEN Recovered(item[i])
                                                        ELSE item[i]]
           out  == {i \in Items : StageOf(item'[i]) # StageOf(item[i])}
<1>0. TypeOK /\ \A i \in Items : item[i] \in Row /\ rows[i] \in Row
  BY AfterRecovery DEF IInv, TypeOK
<1>1. PICK S \in ClaimSets(rows) :
        item' = [i \in Items |-> IF i \in S THEN Claimed(rows[i]) ELSE rows[i]]
  BY DEF RunCron
<1>2. UNCHANGED <<reached, acked, cur, requeues>>
  BY DEF RunCron, userVars
<1>3. ASSUME NEW i \in Items
      PROVE  /\ rows[i].pmid = item[i].pmid
             /\ \/ StageOf(rows[i]) = StageOf(item[i])
                \/ Expired(item[i]) /\ rows[i].status = IF item[i].pmid THEN "sent" ELSE "dead"
  <2>1. CASE ~Expired(item[i])
    BY <2>1
  <2>2. CASE Expired(item[i])
    <3>1. rows[i] = Recovered(item[i]) /\ item[i].status = "sending"
      BY <2>2 DEF Expired
    <3>2. rows[i].pmid = item[i].pmid
      BY <1>0, <3>1, RecoveredRow
    <3>3. \/ item[i].pmid /\ rows[i].status = "sent"
          \/ ~item[i].pmid /\ rows[i].status \in {"dead", "failed"}
      BY <1>0, <3>1, RecoveredRow
    <3> HIDE DEF rows
    <3>4. QED
      BY <2>2, <3>1, <3>2, <3>3 DEF StageOf
  <2>3. QED
    BY <2>1, <2>2
<1>4. \A i \in S : i \in Items /\ rows[i].status \in {"pending", "failed"}
  <2> HIDE DEF rows
  <2>1. QED
    BY DEF ClaimSets, Due
<1>5. \A i \in Items : item'[i] = IF i \in S THEN Claimed(rows[i]) ELSE rows[i]
  BY <1>1
<1> HIDE DEF rows
<1>6. ASSUME NEW i \in Items
      PROVE  /\ item'[i].pmid = item[i].pmid
             /\ i \in out => /\ Expired(item[i])
                             /\ StageOf(item'[i]) = IF item[i].pmid THEN "sent" ELSE "dead"
  <2>1. CASE i \in S
    <3>1. /\ item'[i] = Claimed(rows[i]) /\ rows[i] \in Row
          /\ rows[i].status \in {"pending", "failed"}
      BY <1>0, <1>4, <1>5, <2>1
    <3>2. item'[i].pmid = rows[i].pmid /\ item'[i].status = "sending"
      BY <3>1, ClaimedRow
    <3>3. StageOf(rows[i]) = "waiting" /\ StageOf(item'[i]) = "waiting"
      BY <3>1, <3>2 DEF StageOf
    <3>4. StageOf(item[i]) = "waiting"
      BY <1>3, <3>1, <3>3
    <3>5. QED
      BY <1>3, <3>2, <3>3, <3>4
  <2>2. CASE i \notin S
    BY <1>3, <1>5, <2>2 DEF StageOf
  <2>3. QED
    BY <2>1, <2>2
<1>7. OnRecord' = OnRecord
  BY <1>6 DEF OnRecord
<1>8. ASSUME NEW i \in out
      PROVE  /\ Stages[i] = "waiting" /\ ~Delivery!InFlight(i)
             /\ Stages'[i] = IF OnRecord[i] THEN "sent" ELSE "dead"
  <2>1. Expired(item[i])
    BY <1>6
  <2>2. Stages[i] = "waiting"
    BY <2>1, Mapped DEF Expired, StageOf
  <2>3. ASSUME NEW v \in Workers, cur[v] = i PROVE FALSE
    <3>1. i \in Held(v)
      BY <2>3, SetsAssumption DEF Held, SetsAssumption
    <3>2. QED
      BY <2>1, <3>1 DEF IInv, LeaseCoversHolder
  <2>4. Stages'[i] = StageOf(item'[i])
    BY DEF Stages
  <2>5. QED
    BY <1>6, <2>2, <2>3, <2>4, Mapped DEF Delivery!InFlight
<1>9. \A i \in Items \ out : Stages'[i] = Stages[i]
  BY DEF Stages
<1>10. out \in SUBSET Items
  OBVIOUS
<1> HIDE DEF out
<1>11. Stages' = [i \in Items |-> IF i \notin out THEN Stages[i]
                                  ELSE IF OnRecord[i] THEN "sent" ELSE "dead"]
  <2>1. Stages' = [i \in Items |-> Stages'[i]]
    BY DEF Stages
  <2>2. QED
    BY <1>8, <1>9, <2>1
<1>12. CASE out = {}
  <2>1. Stages' = Stages
    BY <1>11, <1>12 DEF Stages
  <2>2. QED
    BY <1>2, <1>7, <2>1 DEF seen
<1>13. CASE out # {}
  <2>1. Delivery!Settle(out)
    BY <1>2, <1>7, <1>8, <1>11, <1>13 DEF Delivery!Settle
  <2>2. QED
    BY <1>10, <2>1 DEF Delivery!Next
<1>14. QED
  BY <1>12, <1>13

(* A row that needs no send is settled; a run out of time gives rows back,  *)
(* and those it finds settled are on record, or were clicked for.           *)
LEMMA SkipDelivery ==
  ASSUME IInv, NEW w \in Workers, NEW i \in Items, SkipSent(w, i)
  PROVE  [Delivery!Next]_seen
<1>1. /\ item' = [item EXCEPT ![i] = AlreadySent(item[i])]
      /\ UNCHANGED <<reached, acked, cur, requeues>>
      /\ i \in batch[w] /\ NeedsNoSend(item[i])
  BY DEF SkipSent, NextItem, userVars
<1>2. item[i] \in Row /\ TypeOK
  BY DEF IInv, TypeOK
<1>3. item[i].pmid /\ item[i].status # "dead"
  BY <1>1 DEF NeedsNoSend, IInv, ConfirmInv, SentIsTrue, ConfirmedNotDead
<1>4. item[i].status # "absent"
  BY <1>1 DEF IInv, Hands, Enlisted, Held
<1>5. Stages[i] \in {"waiting", "sent"} /\ OnRecord[i]
  BY <1>2, <1>3, <1>4, Mapped, Fields DEF StageOf, Statuses
<1> DEFINE row == AlreadySent(item[i])
<1>6. row.status = "sent" /\ row.pmid = OnRecord[i]
  BY <1>2, AlreadySentRow, Mapped
<1>7. StageOf(row) = "sent"
  BY <1>6 DEF StageOf
<1> HIDE DEF row
<1>8. item' = [item EXCEPT ![i] = row]
  BY <1>1 DEF row
<1>9. /\ Stages' = [Stages EXCEPT ![i] = "sent"]
      /\ OnRecord' = [OnRecord EXCEPT ![i] = OnRecord[i]]
  <2>1. /\ Stages' = [Stages EXCEPT ![i] = StageOf(row)]
        /\ OnRecord' = [OnRecord EXCEPT ![i] = row.pmid]
    BY ONLY <1>2, <1>8, OneRow
  <2>2. QED
    BY <1>6, <1>7, <2>1
<1>10. OnRecord' = OnRecord
  BY <1>9 DEF OnRecord
<1>11. CASE Stages[i] = "sent"
  <2>1. Stages' = Stages
    BY <1>9, <1>11 DEF Stages
  <2>2. QED
    BY <1>1, <1>10, <2>1 DEF seen
<1>12. CASE Stages[i] = "waiting"
  <2>1. Stages' = [j \in Items |-> IF j \notin {i} THEN Stages[j]
                                   ELSE IF OnRecord[j] THEN "sent" ELSE "dead"]
    BY <1>5, <1>9 DEF Stages
  <2>2. Delivery!Settle({i})
    BY <1>1, <1>5, <1>10, <1>12, <2>1 DEF Delivery!Settle
  <2>3. QED
    BY <2>2 DEF Delivery!Next
<1>13. QED
  BY <1>5, <1>11, <1>12

LEMMA ReturnDelivery ==
  ASSUME IInv, NEW w \in Workers, ReturnRest(w)
  PROVE  [Delivery!Next]_seen
<1> DEFINE back == {i \in batch[w] : Stages[i] # "waiting"}
<1>1. /\ item' = [i \in Items |-> IF i \in batch[w] THEN Returned(item[i]) ELSE item[i]]
      /\ UNCHANGED <<reached, acked, cur, requeues>>
      /\ batch[w] \subseteq Items
  BY DEF ReturnRest, userVars, IInv, TypeOK
<1>2. ASSUME NEW i \in Items
      PROVE  /\ item'[i].pmid = item[i].pmid
             /\ StageOf(item'[i]) = IF i \in batch[w] THEN "waiting" ELSE Stages[i]
  BY <1>1, ReturnedRow, Mapped DEF StageOf, IInv, TypeOK
<1>3. OnRecord' = OnRecord
  BY <1>2 DEF OnRecord
<1>4. Stages' = [i \in Items |-> IF i \in back THEN "waiting" ELSE Stages[i]]
  BY <1>2 DEF Stages
<1>5. ASSUME NEW i \in back
      PROVE  /\ Stages[i] \in {"sent", "dead"}
             /\ OnRecord[i] \/ requeues > 0
  <2>1. i \in Items /\ i \in Held(w) /\ item[i] \in Row
    BY <1>1 DEF Held, IInv, TypeOK
  <2>2. item[i].status \in {"sent", "dead"}
    BY <2>1, Mapped, Fields DEF StageOf, Statuses, IInv, Hands, Enlisted
  <2>3. CASE requeues = 0
    <3>1. item[i].status = "sent"
      BY <2>1, <2>2, <2>3 DEF IInv, Hands, Alone
    <3>2. QED
      BY <2>1, <3>1, Mapped DEF StageOf, IInv, ConfirmInv, SentIsTrue
  <2>4. CASE requeues > 0
    BY <2>1, <2>2, <2>4, Mapped DEF StageOf
  <2>5. requeues = 0 \/ requeues > 0
    BY NumbersAssumption DEF IInv, TypeOK, NumbersAssumption
  <2>6. QED
    BY <2>3, <2>4, <2>5
<1>6. back \in SUBSET Items
  BY <1>1
<1> HIDE DEF back
<1>7. CASE back = {}
  <2>1. Stages' = Stages
    BY <1>4, <1>7 DEF Stages
  <2>2. QED
    BY <1>1, <1>3, <2>1 DEF seen
<1>8. CASE back # {}
  <2>1. Delivery!Reopen(back)
    BY <1>1, <1>3, <1>4, <1>5, <1>8 DEF Delivery!Reopen
  <2>2. QED
    BY <1>6, <2>1 DEF Delivery!Next
<1>9. QED
  BY <1>7, <1>8

LEMMA DeliveryStep == IInv /\ [Next]_vars => [Delivery!Next]_seen
<1> SUFFICES ASSUME IInv, [Next]_vars PROVE [Delivery!Next]_seen
  OBVIOUS
<1>1. ASSUME NEW w \in Workers, EndRun(w) PROVE [Delivery!Next]_seen
  BY <1>1 DEF EndRun, userVars, seen, Stages, OnRecord
<1>2. CASE Tick
  <2>1. /\ \A i \in Items : item'[i] = Ticked(item[i]) /\ item[i] \in Row
        /\ UNCHANGED <<reached, acked, cur, requeues>>
    BY <1>2 DEF Tick, userVars, IInv, TypeOK
  <2>2. \A i \in Items : /\ StageOf(item'[i]) = StageOf(item[i])
                         /\ item'[i].pmid = item[i].pmid
    BY <2>1, TickedRow DEF StageOf
  <2>3. QED
    BY <2>1, <2>2, Unseen DEF seen
<1>3. CASE UNCHANGED vars
  BY <1>3 DEF vars, runVars, userVars, seen, Stages, OnRecord
<1>4. QED
  BY <1>1, <1>2, <1>3, OutsideDelivery, BeginDelivery, AcceptDelivery, OutcomeDelivery,
     CronDelivery, SkipDelivery, ReturnDelivery
  DEF Next, WorkerStep

(* The outbox keeps the promises of MessageDelivery, whatever crashes,      *)
(* leases that run out, callbacks and clicks on "Reenviar" come in between: *)
(* each of its steps is one of MessageDelivery's or is not seen there.      *)
THEOREM ImplementsDelivery == Spec => KeepsDelivery
<1>1. Init => Delivery!Init
  <2> SUFFICES ASSUME Init PROVE Delivery!Init
    OBVIOUS
  <2>1. \A i \in Items : item[i].status = "absent" /\ item[i].pmid = FALSE
    BY DEF Init, NewRow
  <2>2. Stages = [i \in Items |-> "absent"] /\ OnRecord = [i \in Items |-> FALSE]
    BY <2>1 DEF Stages, OnRecord, StageOf
  <2>3. QED
    BY <2>2 DEF Init, Delivery!Init
<1>2. IInv /\ [Next]_vars => [Delivery!Next]_Delivery!vars
  BY DeliveryStep DEF seen, Delivery!vars
<1>3. QED
  BY <1>1, <1>2, Invariant, PTL DEF Spec, KeepsDelivery, Delivery!Spec
=============================================================================
