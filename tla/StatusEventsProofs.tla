------------------------- MODULE StatusEventsProofs -------------------------
(***************************************************************************)
(* Proofs about StatusEvents: its variables keep their types, it           *)
(* implements StatusLadder, and the grace of an unmatched callback is long *)
(* enough.                                                                 *)
(***************************************************************************)
EXTENDS StatusEvents, TLAPS

(* The ranks are numbers. *)
LEMMA RankType == Rank \in [Shown -> Nat]
  BY DEF Rank, Shown

(* Applying statuses to a known status gives a known status. *)
LEMMA AfterType ==
  ASSUME NEW S \in SUBSET Shown, NEW c \in Shown, NEW d \in After(S, c)
  PROVE  d \in Shown
  BY DEF After

(* Applying the facts S to a row that shows one of the highest facts of A   *)
(* gives one of the highest facts of both, and never a step down.           *)
LEMMA AfterClimbs ==
  ASSUME NEW A \in SUBSET Shown, NEW S \in SUBSET Shown,
         NEW c \in Ladder!Tops(A), NEW d \in After(S, c)
  PROVE  /\ d \in Ladder!Tops(A \cup S)
         /\ d # c => Rank[d] > Rank[c]
<1>1. /\ c \in A \cup {"queued"}
      /\ \A t \in A \cup {"queued"} : Rank[t] <= Rank[c]
  BY DEF Ladder!Tops
<1>2. /\ d \in S \cup {c}
      /\ \A t \in S \cup {c} : Rank[t] <= Rank[d]
      /\ d # c => Rank[d] > Rank[c]
  BY DEF After
<1>3. c \in Shown /\ d \in Shown
  BY <1>1, <1>2 DEF Shown
<1>4. \A t \in Shown : Rank[t] \in Nat
  BY RankType
<1>5. ASSUME NEW t \in (A \cup S) \cup {"queued"}
      PROVE  Rank[t] <= Rank[d]
  <2>1. CASE t \in S
    BY <2>1, <1>2
  <2>2. CASE t \in A \cup {"queued"}
    <3>1. Rank[t] <= Rank[c] /\ Rank[c] <= Rank[d]
      BY <2>2, <1>1, <1>2
    <3>2. t \in Shown
      BY <2>2 DEF Shown
    <3> QED
      BY <3>1, <3>2, <1>3, <1>4
  <2> QED
    BY <2>1, <2>2
<1> QED
  BY <1>1, <1>2, <1>5 DEF Ladder!Tops

-----------------------------------------------------------------------------
(* A transaction that applies known statuses keeps the row well typed, and  *)
(* only open transactions are outdated afterwards.                          *)
LEMMA ApplyToRowType ==
  ASSUME TypeOK, NEW me, NEW S \in SUBSET Shown, ApplyToRow(S, me)
  PROVE  /\ pmid' \in BOOLEAN /\ current' \in Shown
         /\ outdated' \subseteq Open \ {me}
  BY AfterType DEF ApplyToRow, TypeOK

LEMMA KeepRowType ==
  ASSUME TypeOK, NEW me, KeepRow(me)
  PROVE  /\ pmid' \in BOOLEAN /\ current' \in Shown
         /\ outdated' \subseteq Open \ {me}
  BY DEF KeepRow, TypeOK, row

(* A request that ends leaves the other open transactions open. *)
LEMMA HookEndType ==
  ASSUME TypeOK, NEW h \in Hooks, NEW s \in Emittable, HookEnd(h, s)
  PROVE  /\ correlated' \in BOOLEAN
         /\ sender' = sender /\ sendLeft' = sendLeft
         /\ emitted' \subseteq Emittable
         /\ hook' \in [Hooks -> HookReads \cup {None}]
         /\ cron' = cron /\ cronLeft' = cronLeft
         /\ Open \ {h} \subseteq Open'
  BY DEF HookEnd, TypeOK, Open

(* What Next does, one action at a time. *)
LEMMA NextCases ==
  ASSUME Next
  PROVE  \/ Accept \/ StoreId \/ LoseAnswer \/ GiveUp
         \/ \E s \in Emittable : Emit(s)
         \/ \E h \in Hooks, s \in Emittable :
               \/ HookBegin(h, s) \/ HookDuplicate(h, s) \/ HookFail(h, s)
               \/ HookApply(h, s) \/ HookPending(h, s)
         \/ CronBegin \/ CronApply \/ CronClose \/ CronFail \/ Tick
  BY DEF Next, Settle

(* The types hold initially. *)
LEMMA InitType == Init => TypeOK
<1> SUFFICES ASSUME Init PROVE TypeOK
  OBVIOUS
<1>1. 0 \in 0..SendTime /\ 0 \in 0..CronTime /\ 0 \in 0..Grace
  BY GraceAssumption DEF GraceAssumption
<1>2. hook \in [Hooks -> HookReads \cup {None}] /\ cron \in CronReads \cup {None}
  BY DEF Init
<1>3. event \in [Emittable -> {"absent", "pending", "linked", "closed"}]
  BY DEF Init
<1>4. grace \in [Emittable -> 0..Grace]
  BY <1>1 DEF Init
<1>5. current \in Shown
  BY DEF Init, Shown
<1> QED
  BY <1>1, <1>2, <1>3, <1>4, <1>5 DEF Init, TypeOK

(* ... and every step keeps them. *)
LEMMA StepType == TypeOK /\ [Next]_vars => TypeOK'
<1> SUFFICES ASSUME TypeOK, [Next]_vars PROVE TypeOK'
  OBVIOUS
<1> USE GraceAssumption DEF GraceAssumption
<1>a. Emittable \subseteq Shown
  BY HooksAssumption DEF HooksAssumption
<1>1. CASE Accept
  <2>1. Open' = Open
    BY <1>1 DEF Accept, Open
  <2>2. sendLeft' \in 0..SendTime
    BY <1>1 DEF Accept
  <2> QED
    BY <1>1, <2>1, <2>2 DEF Accept, TypeOK, row
<1>2. CASE StoreId
  <2>1. {"sent"} \in SUBSET Shown
    BY DEF Shown
  <2>2. /\ pmid' \in BOOLEAN /\ current' \in Shown
        /\ outdated' \subseteq Open \ {"sender"}
    BY <1>2, <2>1, ApplyToRowType DEF StoreId
  <2>3. Open \ {"sender"} \subseteq Open'
    BY <1>2 DEF StoreId, Open
  <2> QED
    BY <1>2, <2>2, <2>3 DEF StoreId, TypeOK, clocks
<1>3. CASE LoseAnswer
  BY <1>3 DEF LoseAnswer, TypeOK, Open, row, clocks
<1>4. CASE GiveUp
  <2>1. current' \in Shown
    <3>1. {"failed"} \in SUBSET Shown /\ current \in Shown
      BY DEF Shown, TypeOK
    <3> QED
      BY <1>4, <3>1, AfterType DEF GiveUp
  <2>2. Open \ {"sender"} \subseteq Open' /\ outdated' \subseteq Open \ {"sender"}
    BY <1>4 DEF GiveUp, Open, TypeOK
  <2> QED
    BY <1>4, <2>1, <2>2 DEF GiveUp, TypeOK, clocks
<1>5. ASSUME NEW s \in Emittable, Emit(s) PROVE TypeOK'
  BY <1>5 DEF Emit, TypeOK, Open, row, clocks
<1>6. ASSUME NEW h \in Hooks, NEW s \in Emittable, HookBegin(h, s) PROVE TypeOK'
  <2>1. [status |-> s, known |-> event[s] # "absent", matched |-> Match] \in HookReads
    BY DEF HookReads, Match, TypeOK
  <2>2. hook' \in [Hooks -> HookReads \cup {None}]
    BY <1>6, <2>1 DEF HookBegin, TypeOK
  <2>3. Open \subseteq Open'
    BY <1>6 DEF HookBegin, Open
  <2> QED
    BY <1>6, <2>2, <2>3 DEF HookBegin, TypeOK, row, clocks
<1>7. ASSUME NEW h \in Hooks, NEW s \in Emittable,
             HookDuplicate(h, s) \/ HookFail(h, s)
      PROVE  TypeOK'
  BY <1>7, HookEndType, KeepRowType DEF HookDuplicate, HookFail, TypeOK
<1>8. ASSUME NEW h \in Hooks, NEW s \in Emittable, HookApply(h, s) PROVE TypeOK'
  <2>1. {s} \in SUBSET Shown
    BY <1>a
  <2> QED
    BY <1>8, <2>1, HookEndType, ApplyToRowType DEF HookApply, TypeOK
<1>9. ASSUME NEW h \in Hooks, NEW s \in Emittable, HookPending(h, s) PROVE TypeOK'
  BY <1>9, HookEndType, KeepRowType DEF HookPending, TypeOK
<1>10. CASE CronBegin
  <2>1. cron' \in CronReads
    BY <1>10 DEF CronBegin, CronReads, Pending, Match, TypeOK
  <2>2. Open \subseteq Open'
    BY <1>10 DEF CronBegin, Open
  <2> QED
    BY <1>10, <2>1, <2>2 DEF CronBegin, TypeOK, row
<1>11. CASE CronApply
  <2>1. cron.seen \in SUBSET Shown
    BY <1>11, <1>a DEF CronApply, TypeOK, CronReads
  <2>2. /\ pmid' \in BOOLEAN /\ current' \in Shown
        /\ outdated' \subseteq Open \ {"cron"}
    BY <1>11, <2>1, ApplyToRowType DEF CronApply
  <2>3. Open \ {"cron"} \subseteq Open'
    BY <1>11 DEF CronApply, Open
  <2> QED
    BY <1>11, <2>2, <2>3 DEF CronApply, TypeOK, clocks
<1>12. CASE CronClose
  <2>1. Open \ {"cron"} \subseteq Open'
    BY <1>12 DEF CronClose, Open
  <2> QED
    BY <1>12, <2>1, KeepRowType DEF CronClose, TypeOK, clocks
<1>13. CASE CronFail
  <2>1. Open \ {"cron"} \subseteq Open'
    BY <1>13 DEF CronFail, Open
  <2> QED
    BY <1>13, <2>1, KeepRowType DEF CronFail, TypeOK, clocks
<1>14. CASE Tick
  <2>1. Open' = Open
    BY <1>14 DEF Tick, Open
  <2>2. sendLeft' \in 0..SendTime /\ cronLeft' \in 0..CronTime
    BY <1>14 DEF Tick, TypeOK
  <2>3. grace' \in [Emittable -> 0..Grace]
    BY <1>14 DEF Tick, TypeOK
  <2> QED
    BY <1>14, <2>1, <2>2, <2>3 DEF Tick, TypeOK, row
<1>15. CASE UNCHANGED vars
  BY <1>15 DEF vars, row, clocks, TypeOK, Open
<1> QED
  BY <1>1, <1>2, <1>3, <1>4, <1>5, <1>6, <1>7, <1>8, <1>9, <1>10, <1>11, <1>12,
     <1>13, <1>14, <1>15, NextCases

(* The variables keep their types: among others, no transaction is outdated *)
(* once it is over, so a request never inherits the fate of an earlier one. *)
THEOREM TypeCorrect == Spec => []TypeOK
<1> QED
  BY InitType, StepType, PTL DEF Spec

-----------------------------------------------------------------------------
(* The cron only ever reads events that are still pending: nobody else      *)
(* settles a pending event.                                                 *)
SeenPending ==
    cron # None => \A s \in cron.seen : event[s] = "pending"

(* The status shown is one of the highest facts applied. *)
OnTop == current \in Ladder!Tops(Applied)

LadderInv == TypeOK /\ SeenPending /\ OnTop

LEMMA AppliedType == Applied \in SUBSET (Shown \ {"queued"})
  BY HooksAssumption DEF HooksAssumption, Applied, Shown

LEMMA SeenType ==
  ASSUME TypeOK, cron # None
  PROVE  /\ cron.seen \in SUBSET Emittable
         /\ cron.seen \in SUBSET (Shown \ {"queued"})
         /\ cron.matched \in BOOLEAN
  BY HooksAssumption DEF HooksAssumption, TypeOK, CronReads

LEMMA StepSeen == TypeOK /\ SeenPending /\ [Next]_vars => SeenPending'
<1> SUFFICES ASSUME TypeOK, SeenPending, [Next]_vars PROVE SeenPending'
  OBVIOUS
<1> USE DEF SeenPending
<1>1. CASE Accept \/ StoreId \/ LoseAnswer \/ GiveUp
  BY <1>1 DEF Accept, StoreId, LoseAnswer, GiveUp
<1>2. CASE \E s \in Emittable : Emit(s)
  BY <1>2 DEF Emit
<1>3. ASSUME NEW h \in Hooks, NEW s \in Emittable,
             \/ HookBegin(h, s) \/ HookDuplicate(h, s) \/ HookFail(h, s)
      PROVE  SeenPending'
  BY <1>3 DEF HookBegin, HookDuplicate, HookFail, HookEnd
<1>4. ASSUME NEW h \in Hooks, NEW s \in Emittable,
             HookApply(h, s) \/ HookPending(h, s)
      PROVE  SeenPending'
  <2>1. cron' = cron /\ event[s] = "absent"
    BY <1>4 DEF HookApply, HookPending, HookEnd, Fresh
  <2>2. \A t \in Emittable : t # s => event'[t] = event[t]
    BY <1>4 DEF HookApply, HookPending, TypeOK
  <2> QED
    BY <2>1, <2>2, SeenType
<1>5. CASE CronBegin
  BY <1>5 DEF CronBegin, Pending
<1>6. CASE CronApply \/ CronClose \/ CronFail
  BY <1>6 DEF CronApply, CronClose, CronFail
<1>7. CASE Tick
  BY <1>7 DEF Tick
<1>8. CASE UNCHANGED vars
  BY <1>8 DEF vars
<1> QED
  BY <1>1, <1>2, <1>3, <1>4, <1>5, <1>6, <1>7, <1>8, NextCases

(* A transaction that adds the facts S to those applied and applies them to *)
(* the row is a step of the ladder.                                         *)
LEMMA LearnStep ==
  ASSUME TypeOK, OnTop, NEW S \in SUBSET (Shown \ {"queued"}),
         Applied' = Applied \cup S, current' \in After(S, current)
  PROVE  OnTop' /\ [Ladder!Next]_<<Applied, current>>
<1>1. /\ current' \in Ladder!Tops(Applied')
      /\ current' # current => Rank[current'] > Rank[current]
  <2>1. Applied \in SUBSET Shown /\ S \in SUBSET Shown
    BY AppliedType
  <2>2. current \in Ladder!Tops(Applied)
    BY DEF OnTop
  <2> QED
    BY <2>1, <2>2, AfterClimbs
<1>2. OnTop'
  BY <1>1 DEF OnTop, Ladder!Tops
<1>3. CASE S = {}
  <2>1. current' = current
    BY <1>3 DEF After
  <2> QED
    BY <1>2, <1>3, <2>1
<1>4. CASE S # {}
  BY <1>1, <1>2, <1>4 DEF Ladder!Next, Ladder!Learn
<1> QED
  BY <1>3, <1>4

LEMMA StutterStep ==
  ASSUME OnTop, Applied' = Applied, current' = current
  PROVE  OnTop' /\ [Ladder!Next]_<<Applied, current>>
  BY DEF OnTop, Ladder!Tops

LEMMA StepLadder ==
  LadderInv /\ [Next]_vars => OnTop' /\ [Ladder!Next]_<<Applied, current>>
<1> SUFFICES ASSUME TypeOK, SeenPending, OnTop, [Next]_vars
             PROVE  OnTop' /\ [Ladder!Next]_<<Applied, current>>
  BY DEF LadderInv
<1>a. Emittable \subseteq Shown \ {"queued"}
  BY HooksAssumption DEF HooksAssumption
<1>1. CASE Accept \/ LoseAnswer
  BY <1>1, StutterStep DEF Accept, LoseAnswer, row, Applied
<1>2. CASE StoreId
  <2>1. Applied' = Applied \cup {"sent"} /\ current' \in After({"sent"}, current)
    BY <1>2 DEF StoreId, ApplyToRow, Applied
  <2> QED
    BY <2>1, LearnStep DEF Shown
<1>3. CASE GiveUp
  <2>1. Applied' = Applied \cup {"failed"} /\ current' \in After({"failed"}, current)
    BY <1>3 DEF GiveUp, Applied
  <2> QED
    BY <2>1, LearnStep DEF Shown
<1>4. CASE \E s \in Emittable : Emit(s)
  BY <1>4, StutterStep DEF Emit, row, Applied
<1>5. ASSUME NEW h \in Hooks, NEW s \in Emittable,
             \/ HookBegin(h, s) \/ HookDuplicate(h, s) \/ HookFail(h, s)
      PROVE  OnTop' /\ [Ladder!Next]_<<Applied, current>>
  BY <1>5, StutterStep
     DEF HookBegin, HookDuplicate, HookFail, HookEnd, KeepRow, row, Applied
<1>6. ASSUME NEW h \in Hooks, NEW s \in Emittable, HookApply(h, s)
      PROVE  OnTop' /\ [Ladder!Next]_<<Applied, current>>
  <2>1. {t \in Emittable : event'[t] = "linked"}
          = {t \in Emittable : event[t] = "linked"} \cup {s}
    BY <1>6 DEF HookApply, TypeOK
  <2>2. Applied' = Applied \cup {s}
    BY <1>6, <2>1 DEF HookApply, HookEnd, Applied
  <2>3. current' \in After({s}, current)
    BY <1>6 DEF HookApply, ApplyToRow
  <2> QED
    BY <1>a, <2>2, <2>3, LearnStep
<1>7. ASSUME NEW h \in Hooks, NEW s \in Emittable, HookPending(h, s)
      PROVE  OnTop' /\ [Ladder!Next]_<<Applied, current>>
  <2>1. \A t \in Emittable : event'[t] = "linked" <=> event[t] = "linked"
    BY <1>7 DEF HookPending, Fresh, TypeOK
  <2> QED
    BY <1>7, <2>1, StutterStep DEF HookPending, HookEnd, KeepRow, row, Applied
<1>8. CASE CronBegin \/ CronFail
  BY <1>8, StutterStep DEF CronBegin, CronFail, KeepRow, row, Applied
<1>9. CASE CronApply
  <2>1. {t \in Emittable : event'[t] = "linked"}
          = {t \in Emittable : event[t] = "linked"} \cup cron.seen
    BY <1>9, SeenType DEF CronApply
  <2>2. Applied' = Applied \cup cron.seen
    BY <1>9, <2>1 DEF CronApply, Applied
  <2>3. current' \in After(cron.seen, current)
    BY <1>9 DEF CronApply, ApplyToRow
  <2>4. cron.seen \in SUBSET (Shown \ {"queued"})
    BY <1>9, SeenType DEF CronApply
  <2> QED
    BY <2>2, <2>3, <2>4, LearnStep
<1>10. CASE CronClose
  <2>1. \A t \in cron.seen : event[t] = "pending"
    BY <1>10 DEF CronClose, SeenPending
  <2>2. \A t \in Emittable : event'[t] = "linked" <=> event[t] = "linked"
    BY <1>10, <2>1 DEF CronClose, Overdue
  <2> QED
    BY <1>10, <2>2, StutterStep DEF CronClose, KeepRow, row, Applied
<1>11. CASE Tick
  BY <1>11, StutterStep DEF Tick, row, Applied
<1>12. CASE UNCHANGED vars
  BY <1>12, StutterStep DEF vars, row, Applied
<1> QED
  BY <1>1, <1>2, <1>3, <1>4, <1>5, <1>6, <1>7, <1>8, <1>9, <1>10, <1>11, <1>12,
     NextCases

LEMMA InitLadder == Init => LadderInv /\ Ladder!Init
<1> SUFFICES ASSUME Init PROVE LadderInv /\ Ladder!Init
  OBVIOUS
<1>1. Applied = {}
  BY DEF Init, Applied
<1>2. current = "queued" /\ cron = None
  BY DEF Init
<1>3. Rank["queued"] <= Rank["queued"]
  BY RankType DEF Shown
<1>4. OnTop
  BY <1>1, <1>2, <1>3 DEF OnTop, Ladder!Tops
<1> QED
  BY <1>1, <1>2, <1>4, InitType DEF LadderInv, SeenPending, Ladder!Init

(* ADR-006 for every set of callbacks and any number of requests: what      *)
(* webhooks, the cron and the sender do to one row implements the ladder.   *)
THEOREM ImplementsLadder == Spec => ClimbsTheLadder
<1>1. Init => LadderInv /\ Ladder!Init
  BY InitLadder
<1>2. LadderInv /\ [Next]_vars => LadderInv'
  BY StepType, StepSeen, StepLadder DEF LadderInv
<1>3. LadderInv /\ [Next]_vars => [Ladder!Next]_<<Applied, current>>
  BY StepLadder
<1> QED
  BY <1>1, <1>2, <1>3, PTL DEF Spec, ClimbsTheLadder, Ladder!Spec

-----------------------------------------------------------------------------
(* A message the provider has not accepted has no callbacks. *)
SilentBefore ==
    sender = "calling" => /\ emitted = {}
                          /\ \A h \in Hooks : hook[h] = None
                          /\ \A s \in Emittable : event[s] = "absent"

(* What a transaction matched can still be matched, and a sender that       *)
(* stored the id can be matched.                                            *)
MatchesStay ==
    /\ sender = "sent" => pmid
    /\ \A h \in Hooks : hook[h] # None /\ hook[h].matched => Match
    /\ cron # None /\ cron.matched => Match

(* While the sender may still store the id, the grace of a pending event    *)
(* covers the time the sender has left and a whole run of the cron.         *)
GraceCovers ==
    sender = "accepted" =>
        \A s \in Emittable : event[s] = "pending" => grace[s] > CronTime + sendLeft

(* A run of the cron that matched nothing ends before the grace of what it  *)
(* read, unless the row can never be matched.                               *)
CronCovered ==
    cron # None /\ ~cron.matched =>
        \/ ~Match /\ sender \in {"lost", "dead"}
        \/ \A s \in cron.seen : grace[s] > cronLeft

GraceInv == /\ TypeOK /\ SeenPending
            /\ SilentBefore /\ MatchesStay /\ GraceCovers /\ CronCovered
            /\ ClosedIsForeign

(* What applying statuses to the row does to matching. *)
LEMMA ApplyMatches ==
  ASSUME NEW S, NEW me, ApplyToRow(S, me)
  PROVE  pmid' = TRUE
  BY DEF ApplyToRow

LEMMA InitGrace == Init => GraceInv
<1> SUFFICES ASSUME Init PROVE GraceInv
  OBVIOUS
<1>1. TypeOK
  BY InitType
<1>2. SeenPending /\ CronCovered /\ GraceCovers /\ ClosedIsForeign
  BY DEF Init, SeenPending, CronCovered, GraceCovers, ClosedIsForeign
<1>3. SilentBefore /\ MatchesStay
  BY DEF Init, SilentBefore, MatchesStay
<1> QED
  BY <1>1, <1>2, <1>3 DEF GraceInv

LEMMA StepGrace == GraceInv /\ [Next]_vars => GraceInv'
<1> SUFFICES ASSUME GraceInv, [Next]_vars PROVE GraceInv'
  OBVIOUS
<1> USE GraceAssumption DEF GraceAssumption
<1>a. TypeOK /\ SeenPending
  BY DEF GraceInv
<1>b. TypeOK' /\ SeenPending'
  BY <1>a, StepType, StepSeen
<1> DEFINE I == SilentBefore /\ MatchesStay /\ GraceCovers /\ CronCovered
                /\ ClosedIsForeign
<1>c. I
  BY DEF GraceInv
<1> SUFFICES I'
  BY <1>b DEF GraceInv
<1> USE DEF SilentBefore, MatchesStay, GraceCovers, CronCovered, ClosedIsForeign, Match
<1>1. CASE Accept
  BY <1>1, <1>c DEF Accept, row
<1>2. CASE StoreId
  <2>1. pmid'
    BY <1>2, ApplyMatches DEF StoreId
  <2>2. /\ sender = "accepted" /\ sender' = "sent" /\ correlated' = correlated
        /\ UNCHANGED <<emitted, event, hook, cron, sendLeft, grace, cronLeft>>
    BY <1>2 DEF StoreId, clocks
  <2>3. cron # None => \A s \in cron.seen : grace[s] > cronLeft
    BY <2>2, <1>a, <1>c DEF TypeOK, SeenPending, CronReads
  <2> QED
    BY <2>1, <2>2, <2>3, <1>c
<1>3. CASE LoseAnswer
  BY <1>3, <1>c DEF LoseAnswer, row, clocks
<1>4. CASE GiveUp
  BY <1>4, <1>c DEF GiveUp, clocks
<1>5. CASE \E s \in Emittable : Emit(s)
  BY <1>5, <1>c DEF Emit, row, clocks
<1>6. ASSUME NEW h \in Hooks, NEW s \in Emittable, HookBegin(h, s) PROVE I'
  <2>1. sender # "calling"
    BY <1>6, <1>c DEF HookBegin
  <2>2. \A g \in Hooks : hook'[g] # None /\ hook'[g].matched => Match
    BY <1>6, <1>c, <1>a DEF HookBegin, TypeOK
  <2> QED
    BY <1>6, <2>1, <2>2, <1>c DEF HookBegin, row, clocks
<1>7. ASSUME NEW h \in Hooks, NEW s \in Emittable, HookDuplicate(h, s) \/ HookFail(h, s)
      PROVE  I'
  <2>1. \A g \in Hooks : hook'[g] = hook[g] \/ hook'[g] = None
    BY <1>7, <1>a DEF HookDuplicate, HookFail, HookEnd, TypeOK
  <2> QED
    BY <1>7, <2>1, <1>c DEF HookDuplicate, HookFail, HookEnd, KeepRow, row
<1>8. ASSUME NEW h \in Hooks, NEW s \in Emittable, HookApply(h, s) PROVE I'
  <2>1. \A g \in Hooks : hook'[g] = hook[g] \/ hook'[g] = None
    BY <1>8, <1>a DEF HookApply, HookEnd, TypeOK
  <2>2. pmid' /\ Match /\ sender # "calling"
    BY <1>8, <1>c, ApplyMatches DEF HookApply, HookEnd
  <2>3. \A t \in Emittable : event'[t] = event[t] \/ event'[t] = "linked"
    BY <1>8, <1>a DEF HookApply, TypeOK
  <2>4. UNCHANGED <<correlated, sender, cron, grace, sendLeft, cronLeft>>
    BY <1>8 DEF HookApply, HookEnd
  <2> QED
    BY <2>1, <2>2, <2>3, <2>4, <1>c
<1>9. ASSUME NEW h \in Hooks, NEW s \in Emittable, HookPending(h, s) PROVE I'
  <2>1. \A g \in Hooks : hook'[g] = hook[g] \/ hook'[g] = None
    BY <1>9, <1>a DEF HookPending, HookEnd, TypeOK
  <2>2. sender # "calling" /\ event[s] = "absent"
    BY <1>9, <1>c DEF HookPending, HookEnd, Fresh
  <2>3. /\ event'[s] = "pending" /\ grace'[s] = Grace
        /\ \A t \in Emittable \ {s} : event'[t] = event[t] /\ grace'[t] = grace[t]
    BY <1>9, <1>a DEF HookPending, TypeOK
  <2>4. UNCHANGED <<correlated, pmid, sender, cron, sendLeft, cronLeft>>
    BY <1>9 DEF HookPending, HookEnd, KeepRow, row
  <2>5. Grace > CronTime + sendLeft
    BY <1>a DEF TypeOK
  <2>6. cron # None => cron.seen \subseteq Emittable \ {s}
    BY <2>2, <1>a, SeenType DEF SeenPending
  <2>7. GraceCovers'
    BY <2>3, <2>4, <2>5, <1>c
  <2>8. CronCovered'
    BY <2>3, <2>4, <2>6, <1>c
  <2>9. ClosedIsForeign'
    BY <2>3, <2>4, <1>c
  <2> QED
    BY <2>1, <2>2, <2>4, <2>7, <2>8, <2>9, <1>c
<1>10. CASE CronBegin
  <2>1. /\ cron'.seen = Pending /\ cron'.matched = Match /\ cronLeft' = CronTime
        /\ UNCHANGED <<correlated, pmid, sender, emitted, event, hook, sendLeft, grace>>
    BY <1>10 DEF CronBegin, row
  <2>2. sender # "calling"
    BY <1>10, <1>c DEF CronBegin, Pending
  <2>3. sender = "accepted" => \A s \in Pending : grace[s] > CronTime
    BY <1>c, <1>a DEF Pending, TypeOK
  <2>4. ~Match => sender \in {"accepted", "lost", "dead"}
    BY <2>2, <1>c, <1>a DEF TypeOK
  <2>5. CronCovered'
    BY <2>1, <2>3, <2>4
  <2> QED
    BY <2>1, <2>5, <1>c
<1>11. CASE CronApply
  <2>1. pmid' /\ Match
    BY <1>11, <1>c, ApplyMatches DEF CronApply
  <2>2. \A t \in Emittable : event'[t] = event[t] \/ event'[t] = "linked"
    BY <1>11 DEF CronApply
  <2>3. \A t \in cron.seen : t \in Emittable /\ event[t] = "pending"
    BY <1>11, <1>a, SeenType DEF CronApply, SeenPending
  <2>4. cron' = None /\ UNCHANGED <<correlated, sender, emitted, hook, sendLeft, grace>>
    BY <1>11 DEF CronApply, clocks
  <2>5. sender = "calling" => \A t \in Emittable : event'[t] = event[t]
    BY <1>11, <2>3, <1>c DEF CronApply
  <2> QED
    BY <2>1, <2>2, <2>4, <2>5, <1>c
<1>12. CASE CronClose
  <2>1. /\ cron # None /\ ~cron.matched /\ cron' = None
        /\ UNCHANGED <<correlated, pmid, sender, emitted, hook, sendLeft, grace>>
    BY <1>12 DEF CronClose, KeepRow, row, clocks
  <2>2. \A t \in Emittable :
           event'[t] = IF t \in Overdue(cron.seen) THEN "closed" ELSE event[t]
    BY <1>12 DEF CronClose
  <2>3. ASSUME NEW t \in Overdue(cron.seen)
        PROVE  ~Match /\ sender \in {"lost", "dead"}
    <3>1. t \in cron.seen /\ grace[t] = 0 /\ cronLeft \in 0..CronTime
      BY <1>a, <2>1 DEF Overdue, TypeOK
    <3> QED
      BY <3>1, <2>1, <1>c
  <2>4. ClosedIsForeign'
    BY <2>1, <2>2, <2>3, <1>c
  <2>5. sender = "calling" => \A t \in Emittable : event'[t] = event[t]
    BY <2>2, <2>3
  <2> QED
    BY <2>1, <2>2, <2>4, <2>5, <1>c
<1>13. CASE CronFail
  BY <1>13, <1>c DEF CronFail, KeepRow, row, clocks
<1>14. CASE Tick
  <2>1. UNCHANGED <<correlated, pmid, sender, emitted, event, hook, cron>>
    BY <1>14 DEF Tick, row
  <2>2. \A s \in Emittable : /\ grace[s] \in Nat /\ grace'[s] \in Nat
                             /\ grace[s] > 0 => grace'[s] = grace[s] - 1
    BY <1>14, <1>a DEF Tick, TypeOK
  <2>3. sendLeft \in Nat /\ (sender = "accepted" => sendLeft' = sendLeft - 1 /\ sendLeft > 0)
    BY <1>14, <1>a DEF Tick, TypeOK
  <2>4. cronLeft \in Nat /\ (cron # None => cronLeft' = cronLeft - 1 /\ cronLeft > 0)
    BY <1>14, <1>a DEF Tick, TypeOK
  <2>5. GraceCovers'
    BY <2>1, <2>2, <2>3, <1>c
  <2>6. CronCovered'
    <3>1. cron # None => cron.seen \subseteq Emittable
      BY <1>a, SeenType
    <3> QED
      BY <2>1, <2>2, <2>4, <3>1, <1>c
  <2> QED
    BY <2>1, <2>5, <2>6, <1>c
<1>15. CASE UNCHANGED vars
  BY <1>15, <1>c DEF vars, row, clocks
<1> QED
  BY <1>1, <1>2, <1>3, <1>4, <1>5, <1>6, <1>7, <1>8, <1>9, <1>10, <1>11, <1>12,
     <1>13, <1>14, <1>15, NextCases

(* The grace is long enough: as long as it outlasts the sender and a run of *)
(* the cron, no callback of a message that can be found, or may still be,   *)
(* is closed without its row.                                               *)
THEOREM GraceSafety == Spec => []ClosedIsForeign
<1>1. GraceInv => ClosedIsForeign
  BY DEF GraceInv
<1> QED
  BY <1>1, InitGrace, StepGrace, PTL DEF Spec

=============================================================================
