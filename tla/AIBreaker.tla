----------------------------- MODULE AIBreaker -----------------------------
(***************************************************************************)
(* The circuit breaker and the daily limit of dz23_ai, for one company and *)
(* one provider (models/ai_governance.py, models/ai_service.py): calls of  *)
(* many processes ask whether they may go out, and record how they ended.  *)
(*                                                                         *)
(* Asking and recording are transactions of their own, on the governance   *)
(* cursor, at REPEATABLE READ: the lock of the breaker's row fails if the  *)
(* row was written after the snapshot (`stale`).  The exception then goes  *)
(* up through _chat, and nothing is recorded of the call.                  *)
(*                                                                         *)
(* Calls that consent, configuration or the monthly limit refuse change    *)
(* nothing here.                                                           *)
(***************************************************************************)
EXTENDS Integers, FiniteSets

CONSTANTS
    Callers,      (* processes that call _chat                              *)
    Failures,     (* _BREAKER_FAILURES                                      *)
    Cooldown,     (* _BREAKER_COOLDOWN_SECONDS                              *)
    MaxCooldown,  (* _BREAKER_MAX_COOLDOWN_SECONDS                          *)
    MaxCount,     (* failure_count at which the cooldown is MaxCooldown; it *)
                  (* stands for every higher one                            *)
    RetryAfters,  (* what a 429 may ask for                                 *)
    CallTime,     (* longest time from the admission of a call to its record*)
    DailyLimit    (* dz23_ai_daily_call_limit; 0: no limit                  *)

Backoff(n) == Cooldown * 2 ^ (IF n < Failures THEN 0 ELSE n - Failures)

ASSUME CallersAssumption == IsFiniteSet(Callers)

ASSUME TimesAssumption ==
    /\ Failures \in Nat \ {0} /\ CallTime \in Nat /\ DailyLimit \in Nat
    /\ Cooldown \in Nat \ {0} /\ MaxCooldown \in Nat /\ Cooldown <= MaxCooldown
    /\ RetryAfters \subseteq 1..MaxCooldown

ASSUME CountAssumption ==
    /\ MaxCount \in Nat /\ Failures <= MaxCount
    /\ Backoff(MaxCount) >= MaxCooldown
    /\ \A n \in 0..MaxCount : Backoff(n) \in Nat /\ Backoff(n) >= Cooldown

VARIABLES
    breaker,  (* the committed row                                          *)
    phase,    (* what a caller is doing                                     *)
    retry,    (* the Retry-After its call was answered with, or 0           *)
    left,     (* time left to its call                                      *)
    test,     (* callers whose call went out as the half-open test          *)
    stale,    (* transactions whose row was written after their snapshot    *)
    used      (* calls recorded today (dz23.ai.usage)                       *)

callVars == <<phase, retry, left, test>>
vars == <<breaker, callVars, stale, used>>

-----------------------------------------------------------------------------
(* wait is the time until open_until. *)
Breaker == [state : {"absent", "closed", "open", "half_open"},
            count : 0..MaxCount,
            wait : 0..MaxCooldown]

Closed == [state |-> "closed", count |-> 0, wait |-> 0]

Less(n) == IF n = 0 THEN 0 ELSE n - 1

(* Bug: an open breaker is never tested.                                    *)
ShutWhileOpen(b) == b.state = "open"

(* _acquire lets no call out.                                               *)
Shut(b) == b.state \in {"open", "half_open"} /\ b.wait > 0

(* Bug: the test does not open a new window.                                *)
TestingInSameWindow(b) == [b EXCEPT !.state = "half_open"]

(* _acquire after the cooldown.                                             *)
Testing(b) == [state |-> "half_open", count |-> b.count, wait |-> Cooldown]

(* Bug: the cooldown has no upper limit.                                    *)
CooldownUncapped(n, r) == IF r > Backoff(n) THEN r ELSE Backoff(n)

CooldownFor(n, r) ==
    IF r >= MaxCooldown \/ Backoff(n) >= MaxCooldown THEN MaxCooldown
    ELSE IF r > Backoff(n) THEN r ELSE Backoff(n)

(* _record_failure; r is 0 without a Retry-After. *)
Failed(b, r) ==
    LET n == IF b.count = MaxCount THEN MaxCount ELSE b.count + 1
    IN  IF r > 0 \/ n >= Failures \/ b.state = "half_open"
        THEN [state |-> "open", count |-> n, wait |-> CooldownFor(n, r)]
        ELSE [b EXCEPT !.count = n]

(* _record_success *)
Succeeded(b) == IF b.state # "closed" \/ b.count > 0 THEN Closed ELSE b

(* Bug: the call that meets the limit is let through.                       *)
LimitPassed(n) == DailyLimit > 0 /\ n > DailyLimit

(* _limit_violation                                                         *)
LimitReached(n) == DailyLimit > 0 /\ n >= DailyLimit

(* Transactions of the others that are open when the row is written. *)
Others(w) == {v \in Callers \ {w} : phase[v] \in {"asking", "ok", "failed"}}

-----------------------------------------------------------------------------
Init ==
    /\ breaker = [Closed EXCEPT !.state = "absent"]
    /\ phase = [w \in Callers |-> "idle"]
    /\ retry = [w \in Callers |-> 0]
    /\ left = [w \in Callers |-> 0]
    /\ test = {} /\ stale = {}
    /\ used = 0

(* _chat opens the governance cursor and is within the limit. *)
Ask(w) ==
    /\ phase[w] = "idle"
    /\ ~LimitReached(used)
    /\ phase' = [phase EXCEPT ![w] = "asking"]
    /\ UNCHANGED <<breaker, retry, left, test, stale, used>>

(* The row is locked, and as it was in the snapshot. *)
Locked(w, from) == phase[w] \in from /\ w \notin stale

GoesOut(w) ==
    /\ phase' = [phase EXCEPT ![w] = "calling"]
    /\ left' = [left EXCEPT ![w] = CallTime]
    /\ UNCHANGED <<retry, used>>

Admit(w) ==
    /\ Locked(w, {"asking"}) /\ breaker.state = "closed"
    /\ GoesOut(w)
    /\ UNCHANGED <<breaker, test, stale>>

(* The first call creates the row.  _get hides the collision of two such    *)
(* creations but does not find the other's row, and the caller fails as on  *)
(* any other collision.                                                     *)
AdmitFirst(w) ==
    /\ Locked(w, {"asking"}) /\ breaker.state = "absent"
    /\ GoesOut(w)
    /\ breaker' = Closed
    /\ stale' = stale \cup Others(w)
    /\ UNCHANGED test

AdmitTest(w) ==
    /\ Locked(w, {"asking"}) /\ breaker.state \in {"open", "half_open"} /\ ~Shut(breaker)
    /\ GoesOut(w)
    /\ breaker' = Testing(breaker)
    /\ test' = test \cup {w}
    /\ stale' = stale \cup Others(w)

Ends(w) ==
    /\ phase' = [phase EXCEPT ![w] = "idle"]
    /\ retry' = [retry EXCEPT ![w] = 0]
    /\ left' = [left EXCEPT ![w] = 0]
    /\ test' = test \ {w}

(* AICircuitOpenError *)
Refuse(w) ==
    /\ Locked(w, {"asking"}) /\ Shut(breaker)
    /\ Ends(w)
    /\ UNCHANGED <<breaker, stale, used>>

(* The provider answers, fails, or answers 429; then a second transaction   *)
(* takes its snapshot.                                                      *)
Answer(w) ==
    /\ phase[w] = "calling"
    /\ \/ phase' = [phase EXCEPT ![w] = "ok"] /\ UNCHANGED retry
       \/ /\ phase' = [phase EXCEPT ![w] = "failed"]
          /\ \E r \in RetryAfters \cup {0} : retry' = [retry EXCEPT ![w] = r]
    /\ UNCHANGED <<breaker, left, test, stale, used>>

RecordFailure(w) ==
    /\ Locked(w, {"failed"})
    /\ breaker' = Failed(breaker, retry[w])
    /\ stale' = stale \cup Others(w)
    /\ used' = used + 1
    /\ Ends(w)

(* Without a change of state the row is written if last_success_at changes, *)
(* which counts seconds.                                                    *)
RecordSuccess(w) ==
    /\ Locked(w, {"ok"})
    /\ breaker' = Succeeded(breaker)
    /\ stale' \in {stale \cup Others(w)} \cup (IF breaker' = breaker THEN {stale} ELSE {})
    /\ used' = used + 1
    /\ Ends(w)

(* The caller dies, its transaction collides, or the call ends in an error  *)
(* that is not recorded (AIConfigError, for one).                           *)
Abort(w) ==
    /\ phase[w] # "idle"
    /\ stale' = stale \ {w}
    /\ Ends(w)
    /\ UNCHANGED <<breaker, used>>

Tick ==
    /\ breaker.wait > 0 \/ \E w \in Callers : left[w] > 0
    /\ \A w \in Callers : phase[w] \in {"calling", "ok", "failed"} => left[w] > 0
    /\ breaker' = [breaker EXCEPT !.wait = Less(@)]
    /\ left' = [w \in Callers |-> Less(left[w])]
    /\ UNCHANGED <<phase, retry, test, stale, used>>

NewDay ==
    /\ used > 0
    /\ used' = 0
    /\ UNCHANGED <<breaker, callVars, stale>>

Transaction(w) ==
    \/ Admit(w) \/ AdmitFirst(w) \/ AdmitTest(w) \/ Refuse(w)
    \/ RecordFailure(w) \/ RecordSuccess(w)

CallerStep(w) == Transaction(w) \/ Answer(w) \/ Abort(w)

Next ==
    \/ \E w \in Callers : Ask(w) \/ CallerStep(w)
    \/ Tick \/ NewDay

Spec == Init /\ [][Next]_vars

-----------------------------------------------------------------------------
InCall == {w \in Callers : phase[w] \in {"calling", "ok", "failed"}}

TypeOK ==
    /\ breaker \in Breaker
    /\ phase \in [Callers -> {"idle", "asking", "calling", "ok", "failed"}]
    /\ retry \in [Callers -> RetryAfters \cup {0}]
    /\ left \in [Callers -> 0..CallTime]
    /\ test \subseteq InCall
    /\ stale \subseteq {w \in Callers : phase[w] \in {"asking", "ok", "failed"}}
    /\ used \in Nat

(* ai_governance.py:86, "UMA chamada de teste (half-open) passa por janela":*)
(* two tests go out at least a cooldown apart, although calls that went out *)
(* before the breaker opened close it, open it again and prolong it         *)
(* meanwhile.  The same comment goes on "as outras esperam o resultado", and*)
(* that follows only for calls that are shorter than the window: a second   *)
(* test goes out when the first is as old as the window.                    *)
TestsApart ==
    \A v, w \in test :
        v # w => left[v] - left[w] >= Cooldown \/ left[w] - left[v] >= Cooldown

(* No test goes out while another is waiting for its answer.                *)
OneTest == \A v, w \in test : v = w

(* The daily limit is counted before a call and reserved by nobody: it can  *)
(* be passed by the calls that were under way, and by no more than those.   *)
LimitBound == DailyLimit > 0 => used < DailyLimit + Cardinality(Callers)

(* An open breaker is not open for ever: whatever late answers prolong it,  *)
(* a test goes out or a late success closes it.                             *)
EventuallyTested == breaker.state = "open" ~> breaker.state # "open"

(* Time passes, days end, calls are asked for again and again, and a call   *)
(* that is under way ends.                                                  *)
Fairness ==
    /\ WF_vars(Tick) /\ WF_vars(NewDay)
    /\ \A w \in Callers : WF_vars(Ask(w)) /\ WF_vars(CallerStep(w))
                          /\ SF_vars(Transaction(w))

FairSpec == Spec /\ Fairness

=============================================================================
