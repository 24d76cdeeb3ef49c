-------------------------- MODULE AIBreakerProofs --------------------------
(***************************************************************************)
(* Proofs about AIBreaker, for any finite set of callers and calls of any  *)
(* length: the types, that two half-open tests go out at least a cooldown  *)
(* apart, and how far the daily limit can be passed.                       *)
(*                                                                         *)
(* TestsApart needs to know how old a test is when another can go out: as  *)
(* long as the breaker is not closed, its age and the time until open_until*)
(* make up a cooldown (Covered), whoever prolonged it.                     *)
(***************************************************************************)
EXTENDS AIBreaker, TLAPS, FiniteSetTheorems

Covered ==
    \A w \in test : /\ breaker.state # "absent"
                    /\ breaker.state # "closed" =>
                          (CallTime - left[w]) + breaker.wait >= Cooldown

TestInv == TypeOK /\ Covered /\ TestsApart

(* Every call between its check of the limit and its record is one that the *)
(* limit did not count yet.                                                 *)
Active == {w \in Callers : phase[w] # "idle"}

CountedOrActive ==
    DailyLimit > 0 => used + Cardinality(Active) < DailyLimit + Cardinality(Callers)

-----------------------------------------------------------------------------
(* The rows that the operators build are rows of the breaker.               *)
LEMMA RowTypes ==
    ASSUME NEW b \in Breaker
    PROVE  /\ Closed \in Breaker /\ Testing(b) \in Breaker /\ Succeeded(b) \in Breaker
           /\ Testing(b).state = "half_open" /\ Testing(b).wait = Cooldown
           /\ Closed.state = "closed"
           /\ Succeeded(b) = b \/ Succeeded(b) = Closed
  <1>1. Closed \in Breaker /\ Closed.state = "closed"
    BY TimesAssumption, CountAssumption DEF Closed, Breaker
  <1>2. Testing(b) \in Breaker /\ Testing(b).state = "half_open" /\ Testing(b).wait = Cooldown
    <2>1. Cooldown \in 0..MaxCooldown
      BY TimesAssumption
    <2> QED  BY <2>1 DEF Testing, Breaker
  <1>3. Succeeded(b) = b \/ Succeeded(b) = Closed
    BY DEF Succeeded
  <1> QED  BY <1>1, <1>2, <1>3

LEMMA CooldownBounds ==
    ASSUME NEW n \in 0..MaxCount, NEW r \in 0..MaxCooldown
    PROVE  CooldownFor(n, r) \in Cooldown..MaxCooldown
  <1>1. Backoff(n) \in Nat /\ Backoff(n) >= Cooldown
    BY CountAssumption
  <1> HIDE DEF Backoff
  <1> QED  BY <1>1, TimesAssumption DEF CooldownFor

(* A failure opens the breaker for at least the cooldown, or only counts.   *)
LEMMA FailedRow ==
    ASSUME NEW b \in Breaker, NEW r \in RetryAfters \cup {0}
    PROVE  /\ Failed(b, r) \in Breaker
           /\ Failed(b, r).state = "absent" => b.state = "absent"
           /\ \/ Failed(b, r).state = b.state /\ Failed(b, r).wait = b.wait
              \/ Failed(b, r).state = "open" /\ Failed(b, r).wait >= Cooldown
  <1> DEFINE n == IF b.count = MaxCount THEN MaxCount ELSE b.count + 1
  <1>1. n \in 0..MaxCount /\ r \in 0..MaxCooldown
    BY CountAssumption, TimesAssumption DEF Breaker
  <1>2. CooldownFor(n, r) \in 0..MaxCooldown /\ CooldownFor(n, r) >= Cooldown
    BY <1>1, CooldownBounds, TimesAssumption
  <1>3. Failed(b, r) = IF r > 0 \/ n >= Failures \/ b.state = "half_open"
                       THEN [state |-> "open", count |-> n, wait |-> CooldownFor(n, r)]
                       ELSE [b EXCEPT !.count = n]
    BY DEF Failed
  <1> HIDE DEF n
  <1> QED  BY <1>1, <1>2, <1>3 DEF Breaker

LEMMA InitInv == Init => TestInv /\ CountedOrActive
  <1> SUFFICES ASSUME Init  PROVE TestInv /\ CountedOrActive
    OBVIOUS
  <1>1. TestInv
    BY TimesAssumption, CountAssumption
       DEF Init, TestInv, TypeOK, Covered, TestsApart, Breaker, Closed, InCall
  <1>2. Active = {} /\ used = 0
    BY DEF Init, Active
  <1>3. Cardinality(Callers) \in Nat /\ Cardinality({}) = 0
    BY CallersAssumption, FS_CardinalityType, FS_EmptySet
  <1> QED  BY <1>1, <1>2, <1>3, TimesAssumption DEF CountedOrActive

-----------------------------------------------------------------------------
(* A step preserves the types, one lemma for each kind of step.             *)

LEMMA AskType == ASSUME TypeOK, NEW w \in Callers, Ask(w)  PROVE TypeOK'
  BY DEF Ask, TypeOK, InCall

LEMMA GoesOutType ==
    ASSUME TypeOK, NEW w \in Callers, Admit(w) \/ AdmitFirst(w) \/ AdmitTest(w)
    PROVE  TypeOK'
  <1>1. /\ phase[w] = "asking" /\ w \notin stale
        /\ phase' = [phase EXCEPT ![w] = "calling"]
        /\ left' = [left EXCEPT ![w] = CallTime]
        /\ UNCHANGED <<retry, used>>
        /\ breaker' \in {breaker, Closed, Testing(breaker)}
        /\ test' \subseteq test \cup {w}
        /\ stale' \subseteq stale \cup Others(w)
    BY DEF Admit, AdmitFirst, AdmitTest, GoesOut, Locked
  <1>2. breaker' \in Breaker
    BY <1>1, RowTypes DEF TypeOK
  <1>3. left' \in [Callers -> 0..CallTime]
    BY <1>1, TimesAssumption DEF TypeOK
  <1>4. \A v \in Callers : phase'[v] = IF v = w THEN "calling" ELSE phase[v]
    BY <1>1 DEF TypeOK
  <1>5. test' \subseteq InCall'
    BY <1>1, <1>4 DEF TypeOK, InCall
  <1>6. stale' \subseteq {v \in Callers : phase'[v] \in {"asking", "ok", "failed"}}
    BY <1>1, <1>4 DEF TypeOK, Others
  <1>7. /\ phase' \in [Callers -> {"idle", "asking", "calling", "ok", "failed"}]
        /\ retry' \in [Callers -> RetryAfters \cup {0}] /\ used' \in Nat
    BY <1>1 DEF TypeOK
  <1> QED  BY <1>2, <1>3, <1>5, <1>6, <1>7 DEF TypeOK

LEMMA EndsType ==
    ASSUME TypeOK, NEW w \in Callers,
           Refuse(w) \/ RecordFailure(w) \/ RecordSuccess(w) \/ Abort(w)
    PROVE  TypeOK'
  <1>1. Ends(w)
    BY DEF Refuse, RecordFailure, RecordSuccess, Abort
  <1>2. stale' \subseteq (stale \cup Others(w)) \ {w}
    BY DEF Refuse, RecordFailure, RecordSuccess, Abort, Locked, Others
  <1>3. breaker' \in Breaker
    <2>1. breaker \in Breaker /\ retry[w] \in RetryAfters \cup {0}
      BY DEF TypeOK
    <2>2. Failed(breaker, retry[w]) \in Breaker /\ Succeeded(breaker) \in Breaker
      BY <2>1, FailedRow, RowTypes
    <2> QED  BY <2>1, <2>2 DEF Refuse, RecordFailure, RecordSuccess, Abort
  <1>4. used' \in Nat
    BY DEF Refuse, RecordFailure, RecordSuccess, Abort, TypeOK
  <1>6. \A v \in Callers : phase'[v] = IF v = w THEN "idle" ELSE phase[v]
    BY <1>1 DEF Ends, TypeOK
  <1>7. test' \subseteq InCall'
    BY <1>1, <1>6 DEF Ends, TypeOK, InCall
  <1>8. stale' \subseteq {v \in Callers : phase'[v] \in {"asking", "ok", "failed"}}
    BY <1>2, <1>6 DEF TypeOK, Others
  <1>9. /\ phase' \in [Callers -> {"idle", "asking", "calling", "ok", "failed"}]
        /\ retry' \in [Callers -> RetryAfters \cup {0}]
        /\ left' \in [Callers -> 0..CallTime]
    BY <1>1, TimesAssumption DEF Ends, TypeOK
  <1> QED  BY <1>3, <1>4, <1>7, <1>8, <1>9 DEF TypeOK

LEMMA AnswerType == ASSUME TypeOK, NEW w \in Callers, Answer(w)  PROVE TypeOK'
  <1>1. PICK p \in {"ok", "failed"} : phase' = [phase EXCEPT ![w] = p]
    BY DEF Answer
  <1>2. retry' \in [Callers -> RetryAfters \cup {0}]
    BY DEF Answer, TypeOK
  <1>3. phase[w] = "calling" /\ UNCHANGED <<breaker, left, test, stale, used>>
    BY DEF Answer
  <1> QED  BY <1>1, <1>2, <1>3 DEF TypeOK, InCall

LEMMA TickType == ASSUME TypeOK, Tick  PROVE TypeOK'
  <1>1. \A m \in Nat : \A n \in 0..m : Less(n) \in 0..m
    BY DEF Less
  <1>2. breaker' \in Breaker
    <2>1. breaker \in Breaker /\ Less(breaker.wait) \in 0..MaxCooldown
      BY <1>1, TimesAssumption DEF TypeOK, Breaker
    <2>2. breaker' = [breaker EXCEPT !.wait = Less(breaker.wait)]
      BY DEF Tick
    <2> QED  BY <2>1, <2>2 DEF Breaker
  <1>4. left' \in [Callers -> 0..CallTime]
    <2>1. \A w \in Callers : Less(left[w]) \in 0..CallTime
      BY <1>1, TimesAssumption DEF TypeOK
    <2> QED  BY <2>1 DEF Tick
  <1> QED  BY <1>2, <1>4 DEF Tick, TypeOK, InCall

LEMMA TypeStep == TypeOK /\ [Next]_vars => TypeOK'
  <1> SUFFICES ASSUME TypeOK, [Next]_vars  PROVE TypeOK'
    OBVIOUS
  <1>1. CASE NewDay
    BY <1>1 DEF NewDay, TypeOK, callVars, InCall
  <1>2. CASE UNCHANGED vars
    BY <1>2 DEF vars, TypeOK, callVars, InCall
  <1> QED  BY <1>1, <1>2, AskType, GoesOutType, EndsType, AnswerType, TickType
           DEF Next, CallerStep, Transaction

-----------------------------------------------------------------------------
LEMMA TestStep ==
    ASSUME TestInv, [Next]_vars
    PROVE  Covered' /\ TestsApart'
  <1> USE DEF TestInv
  <1>1. /\ breaker \in Breaker /\ breaker.wait \in Nat
        /\ \A w \in Callers : left[w] \in 0..CallTime
        /\ test \subseteq Callers /\ CallTime \in Nat /\ Cooldown \in Nat
    BY TimesAssumption DEF TypeOK, Breaker, InCall
  <1>2. ASSUME NEW w \in Callers, AdmitFirst(w)
        PROVE  Covered' /\ TestsApart'
    <2>1. test = {} /\ test' = test
      BY <1>2 DEF AdmitFirst, Covered
    <2> QED  BY <2>1 DEF Covered, TestsApart
  <1>3. ASSUME NEW w \in Callers, AdmitTest(w)
        PROVE  Covered' /\ TestsApart'
    <2>1. breaker.state \in {"open", "half_open"} /\ breaker.wait = 0
      BY <1>1, <1>3 DEF AdmitTest, Shut
    <2>2. /\ test' = test \cup {w} /\ w \notin test
          /\ left' = [left EXCEPT ![w] = CallTime] /\ breaker' = Testing(breaker)
      BY <1>3 DEF AdmitTest, GoesOut, Locked, TypeOK, InCall
    <2>3. left'[w] = CallTime /\ \A v \in test : left'[v] = left[v]
      BY <1>1, <2>2 DEF TypeOK
    <2>4. breaker'.wait = Cooldown /\ breaker'.state = "half_open"
      BY <1>1, <2>2, RowTypes
    <2>5. \A v \in test : CallTime - left[v] >= Cooldown
      BY <1>1, <2>1 DEF Covered
    <2>6. Covered'
      <3> SUFFICES ASSUME NEW v \in test'
                   PROVE  (CallTime - left'[v]) + breaker'.wait >= Cooldown
        BY <2>4 DEF Covered
      <3>1. left'[v] \in 0..CallTime
        BY <1>1, <2>2, <2>3
      <3> QED  BY <1>1, <2>4, <3>1
    <2>7. TestsApart'
      <3> SUFFICES ASSUME NEW u \in test', NEW v \in test', u # v
                   PROVE  left'[u] - left'[v] >= Cooldown \/ left'[v] - left'[u] >= Cooldown
        BY DEF TestsApart
      <3>1. CASE u \in test /\ v \in test
        BY <2>3, <3>1 DEF TestsApart
      <3>2. CASE u = w \/ v = w
        BY <1>1, <2>2, <2>3, <2>5, <3>2
      <3> QED  BY <2>2, <3>1, <3>2
    <2> QED  BY <2>6, <2>7
  <1>4. ASSUME NEW w \in Callers,
               Refuse(w) \/ RecordFailure(w) \/ RecordSuccess(w) \/ Abort(w)
        PROVE  Covered' /\ TestsApart'
    <2>1. test' = test \ {w} /\ left' = [left EXCEPT ![w] = 0]
      BY <1>4 DEF Refuse, RecordFailure, RecordSuccess, Abort, Ends
    <2>2. \A v \in test' : v \in test /\ left'[v] = left[v]
      BY <1>1, <2>1 DEF TypeOK
    <2>3. \/ breaker' = breaker
          \/ breaker'.state = "closed"
          \/ /\ breaker'.state = "absent" => breaker.state = "absent"
             /\ \/ breaker'.state = breaker.state /\ breaker'.wait = breaker.wait
                \/ breaker'.state = "open" /\ breaker'.wait >= Cooldown
      <3>1. CASE RecordFailure(w)
        <4>1. retry[w] \in RetryAfters \cup {0} /\ breaker' = Failed(breaker, retry[w])
          BY <3>1 DEF RecordFailure, TypeOK
        <4> QED  BY <1>1, <4>1, FailedRow
      <3>2. CASE RecordSuccess(w)
        BY <1>1, <3>2, RowTypes DEF RecordSuccess
      <3>3. CASE Refuse(w) \/ Abort(w)
        BY <3>3 DEF Refuse, Abort
      <3> QED  BY <1>4, <3>1, <3>2, <3>3
    <2>4. ASSUME NEW v \in test'
          PROVE  /\ breaker'.state # "absent"
                 /\ breaker'.state # "closed" =>
                        (CallTime - left'[v]) + breaker'.wait >= Cooldown
      <3>1. /\ breaker.state # "absent"
            /\ breaker.state # "closed" => (CallTime - left[v]) + breaker.wait >= Cooldown
            /\ left'[v] = left[v] /\ left[v] \in 0..CallTime
        BY <1>1, <2>2, <2>4 DEF Covered
      <3>2. breaker'.wait \in Nat
        <4>1. TypeOK'
          BY TypeStep
        <4> QED  BY <4>1, TimesAssumption DEF TypeOK, Breaker
      <3>3. breaker'.wait >= Cooldown => (CallTime - left'[v]) + breaker'.wait >= Cooldown
        BY <1>1, <3>1, <3>2
      <3>4. breaker'.state # "absent"
        BY <2>3, <3>1
      <3>5. ASSUME breaker'.state # "closed"
            PROVE  (CallTime - left'[v]) + breaker'.wait >= Cooldown
        BY <2>3, <3>1, <3>3, <3>5
      <3> QED  BY <3>4, <3>5
    <2> QED  BY <2>2, <2>4 DEF Covered, TestsApart
  <1>5. ASSUME NEW w \in Callers, Ask(w) \/ Answer(w) \/ Admit(w)
        PROVE  Covered' /\ TestsApart'
    <2>1. breaker' = breaker /\ test' = test
      BY <1>5 DEF Ask, Answer, Admit
    <2>2. \A v \in test : left'[v] = left[v]
      BY <1>5 DEF Ask, Answer, Admit, GoesOut, Locked, TypeOK, InCall
    <2> QED  BY <2>1, <2>2 DEF Covered, TestsApart
  <1>6. CASE Tick
    <2>1. /\ breaker' = [breaker EXCEPT !.wait = Less(@)] /\ test' = test
          /\ \A v \in test : left'[v] = Less(left[v]) /\ left[v] > 0
      BY <1>1, <1>6 DEF Tick, TypeOK, InCall
    <2>2. breaker'.state = breaker.state /\ breaker'.wait = Less(breaker.wait)
      BY <1>1, <2>1 DEF Breaker
    <2>3. /\ \A v \in test : left'[v] = left[v] - 1
          /\ breaker'.wait \in Nat /\ breaker'.wait >= breaker.wait - 1
      BY <1>1, <2>1, <2>2 DEF Less
    <2>4. Covered'
      <3> SUFFICES ASSUME NEW v \in test
                   PROVE  /\ breaker'.state # "absent"
                          /\ breaker'.state # "closed" =>
                                (CallTime - left'[v]) + breaker'.wait >= Cooldown
        BY <2>1 DEF Covered
      <3>1. /\ breaker.state # "absent"
            /\ breaker.state # "closed" => (CallTime - left[v]) + breaker.wait >= Cooldown
            /\ left[v] \in 0..CallTime
        BY <1>1 DEF Covered
      <3> QED  BY <1>1, <2>2, <2>3, <3>1
    <2>5. TestsApart'
      <3> SUFFICES ASSUME NEW u \in test, NEW v \in test, u # v
                   PROVE  left'[u] - left'[v] >= Cooldown \/ left'[v] - left'[u] >= Cooldown
        BY <2>1 DEF TestsApart
      <3>1. /\ left[u] \in Nat /\ left[v] \in Nat
            /\ left[u] - left[v] >= Cooldown \/ left[v] - left[u] >= Cooldown
        BY <1>1 DEF TestsApart
      <3> QED  BY <1>1, <2>3, <3>1
    <2> QED  BY <2>4, <2>5
  <1>7. CASE NewDay \/ UNCHANGED vars
    BY <1>7 DEF NewDay, vars, callVars, Covered, TestsApart
  <1> QED  BY <1>2, <1>3, <1>4, <1>5, <1>6, <1>7 DEF Next, CallerStep, Transaction

LEMMA LimitStep == TypeOK /\ CountedOrActive /\ [Next]_vars => CountedOrActive'
  <1> SUFFICES ASSUME TypeOK, CountedOrActive, [Next]_vars, DailyLimit > 0
               PROVE  used' + Cardinality(Active') < DailyLimit + Cardinality(Callers)
    BY DEF CountedOrActive
  <1>1. /\ Active \subseteq Callers /\ Active' \subseteq Callers
        /\ IsFiniteSet(Active) /\ IsFiniteSet(Active')
    BY CallersAssumption, FS_Subset DEF Active
  <1>2. /\ Cardinality(Active) \in Nat /\ Cardinality(Active') \in Nat
        /\ Cardinality(Callers) \in Nat /\ Cardinality(Active') <= Cardinality(Callers)
    BY <1>1, CallersAssumption, FS_CardinalityType, FS_Subset
  <1>3. used \in Nat /\ DailyLimit \in Nat
        /\ used + Cardinality(Active) < DailyLimit + Cardinality(Callers)
    BY TimesAssumption DEF TypeOK, CountedOrActive
  <1>4. ASSUME NEW w \in Callers, Ask(w)
        PROVE  used' + Cardinality(Active') < DailyLimit + Cardinality(Callers)
    <2>1. used' = used /\ used < DailyLimit
      BY <1>3, <1>4 DEF Ask, LimitReached
    <2> QED  BY <1>2, <1>3, <2>1
  <1>5. CASE NewDay
    BY <1>2, <1>3, <1>5 DEF NewDay
  <1>6. ASSUME NEW w \in Callers, RecordFailure(w) \/ RecordSuccess(w)
        PROVE  used' + Cardinality(Active') < DailyLimit + Cardinality(Callers)
    <2>1. /\ used' = used + 1 /\ w \in Active /\ phase' = [phase EXCEPT ![w] = "idle"]
      BY <1>6 DEF RecordFailure, RecordSuccess, Locked, Ends, Active
    <2>2. Active' = Active \ {w}
      BY <2>1 DEF Active, TypeOK
    <2>3. Cardinality(Active') = Cardinality(Active) - 1
      BY <1>1, <2>1, <2>2, FS_RemoveElement
    <2> QED  BY <1>2, <1>3, <2>1, <2>3
  <1>7. CASE used' = used /\ Active' \subseteq Active
    <2>1. Cardinality(Active') <= Cardinality(Active)
      BY <1>1, <1>7, FS_Subset
    <2> QED  BY <1>2, <1>3, <1>7, <2>1
  <1>8. ASSUME NEW w \in Callers, Admit(w) \/ AdmitFirst(w) \/ AdmitTest(w)
                                  \/ Refuse(w) \/ Answer(w) \/ Abort(w)
        PROVE  used' = used /\ Active' \subseteq Active
    <2>1. used' = used /\ phase[w] # "idle"
      BY <1>8 DEF Admit, AdmitFirst, AdmitTest, Refuse, Answer, Abort, GoesOut, Locked
    <2>2. \A v \in Callers \ {w} : phase'[v] = phase[v]
      BY <1>8 DEF Admit, AdmitFirst, AdmitTest, Refuse, Answer, Abort, GoesOut, Ends, TypeOK
    <2> QED  BY <2>1, <2>2 DEF Active
  <1>9. CASE Tick \/ UNCHANGED vars
    <2>1. used' = used /\ Active' \subseteq Active
      BY <1>9 DEF Tick, vars, callVars, Active
    <2> QED  BY <1>7, <2>1
  <1> QED  BY <1>4, <1>5, <1>6, <1>7, <1>8, <1>9 DEF Next, CallerStep, Transaction

-----------------------------------------------------------------------------
(* The row, the calls and their snapshots keep their types; a test is       *)
(* always a call under way, and its wait never exceeds the longest cooldown *)
(* (ai_governance.py, _record_failure).                                     *)
THEOREM TypeCorrect == Spec => []TypeOK
  <1>1. Init => TypeOK
    BY InitInv DEF TestInv
  <1> QED  BY <1>1, TypeStep, PTL DEF Spec

(* Two half-open tests go out at least a cooldown apart, however long a    *)
(* call takes and whatever late answers do to the breaker meanwhile         *)
(* (ai_governance.py, _acquire).                                            *)
THEOREM TestsSafety == Spec => []TestsApart
  <1>1. TestInv /\ [Next]_vars => TestInv'
    BY TestStep, TypeStep DEF TestInv
  <1>2. TestInv => TestsApart
    BY DEF TestInv
  <1> QED  BY <1>1, <1>2, InitInv, PTL DEF Spec

(* The rest of the promise, that the others wait for the result of the test,*)
(* is kept by providers whose calls are shorter than the cooldown.          *)
COROLLARY OneTestOfShortCalls ==
    ASSUME CallTime < Cooldown
    PROVE  Spec => []OneTest
  <1>1. TypeOK /\ TestsApart => OneTest
    <2> SUFFICES ASSUME TypeOK, TestsApart, NEW v \in test, NEW w \in test, v # w
                 PROVE  FALSE
      BY DEF OneTest
    <2>1. left[v] \in 0..CallTime /\ left[w] \in 0..CallTime
      BY DEF TypeOK, InCall
    <2>2. left[v] - left[w] >= Cooldown \/ left[w] - left[v] >= Cooldown
      BY DEF TestsApart
    <2> QED  BY <2>1, <2>2, TimesAssumption
  <1> QED  BY <1>1, TypeCorrect, TestsSafety, PTL

(* The daily limit is passed by fewer calls than there are callers          *)
(* (ai_service.py, _limit_violation).                                       *)
THEOREM LimitSafety == Spec => []LimitBound
  <1>1. TypeOK /\ CountedOrActive => LimitBound
    <2> SUFFICES ASSUME TypeOK, CountedOrActive, DailyLimit > 0
                 PROVE  used < DailyLimit + Cardinality(Callers)
      BY DEF LimitBound
    <2>1. IsFiniteSet(Active)
      BY CallersAssumption, FS_Subset DEF Active
    <2>2. Cardinality(Active) \in Nat /\ Cardinality(Callers) \in Nat
      BY <2>1, CallersAssumption, FS_CardinalityType
    <2> QED  BY <2>2, TimesAssumption DEF TypeOK, CountedOrActive
  <1>2. Init => TypeOK /\ CountedOrActive
    BY InitInv DEF TestInv
  <1>3. TypeOK /\ CountedOrActive /\ [Next]_vars => (TypeOK /\ CountedOrActive)'
    BY TypeStep, LimitStep
  <1> QED  BY <1>1, <1>2, <1>3, PTL DEF Spec

=============================================================================
