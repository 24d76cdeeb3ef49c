-------------------------- MODULE AIRequestProofs ---------------------------
(***************************************************************************)
(* Proofs about the queue of AI answers, for every number of requests,     *)
(* runs and attempts.                                                      *)
(*                                                                         *)
(* A customer is told something when a request becomes "done", and only    *)
(* then; "done" is final, because neither a claim nor the recovery looks   *)
(* at it.  What remains to show is that the row a run ends is still        *)
(* "processing": the row of a run has a live lease (Held), and no other    *)
(* run has it (Alone), so no recovery and no other run can end it first.   *)
(* The same facts show that the queue implements AnswerDesk, step by step:  *)
(* what is answered or dropped was open, and nothing closed opens again.   *)
(***************************************************************************)
EXTENDS AIRequest, TLAPS

Has(w) == batch[w] \cup ({cur[w]} \ {None})

(* What a run has in hand is in processing under its own lease. *)
Held == \A w \in Workers : \A r \in Has(w) :
            req[r].status = "processing" /\ req[r].lease = "live"

(* A request is in the hands of one run. *)
Alone == \A v, w \in Workers : v # w => Has(v) \cap Has(w) = {}

(* The request a run handles has left its batch. *)
Apart == \A w \in Workers : cur[w] \notin batch[w]

IInv == TypeOK /\ Held /\ Alone /\ Apart /\ AnsweredOnce

-----------------------------------------------------------------------------
(* The conversation *)

(* A handover, or its attempt, leaves a conversation. *)
LEMMA HandoffType ==
    ASSUME NEW c \in Conversation
    PROVE  HandedOff(c) \in Conversation /\ Handoff(c) \in Conversation
BY DEF HandedOff, Handoff, Conversation, States

LEMMA ReopenedType ==
    ASSUME NEW c \in Conversation
    PROVE  Reopened(c) \in Conversation
BY DEF Reopened, Conversation, States

LEMMA HumanType ==
    ASSUME NEW c \in Conversation, NEW d \in ByHuman(c)
    PROVE  d \in Conversation
<1>1. Released(c) \in Conversation
  BY DEF Released, Conversation, States
<1>2. Marked(c) \subseteq Conversation
  BY DEF Marked, Conversation, States
<1>3. Transferred(c) \subseteq Conversation
  BY DEF Transferred, Conversation, States
<1>4. Taken(c) \in Conversation /\ Answered(c) \in Conversation
  BY DEF Taken, Answered, Conversation, States
<1> QED
  BY <1>1, <1>2, <1>3, <1>4 DEF ByHuman

(* Neither a message of the customer nor a handover moves a conversation    *)
(* that the robot does not hold.                                            *)
LEMMA RobotKeepsOff ==
    ASSUME NEW c, c.state \notin BotAllowed
    PROVE  (Handoff(c) = c) /\ (Reopened(c).state = c.state)
<1>1. Handoff(c) = c
  BY DEF Handoff
<1>2. c.state # "waiting_customer" /\ c.state # "resolved"
  BY DEF BotAllowed
<1>3. Reopened(c).state = c.state
  BY <1>2 DEF Reopened
<1> QED
  BY <1>1, <1>3

-----------------------------------------------------------------------------
(* Rows *)

LEMMA RowType ==
    ASSUME NEW r \in Row, NEW status \in {"pending", "processing", "done", "failed"}
    PROVE  /\ Settled(r, status) \in Row
           /\ Claimed(r) \in Row
           /\ Returned(r) \in Row
<1>1. \A s \in {"pending", "processing", "done", "failed"} : Settled(r, s) \in Row
  BY DEF Settled, Row
<1>2. Claimed(r) \in Row
  BY DEF Claimed, Row
<1>3. Returned(r) \in Row
  <2>1. Settled(r, "pending") \in Row
    BY <1>1
  <2> QED
    BY <2>1 DEF Returned, Row
<1> QED
  BY <1>1, <1>2, <1>3

(* What a run has in hand are requests. *)
LEMMA HasRequests ==
    ASSUME TypeOK, NEW w \in Workers
    PROVE  Has(w) \subseteq Requests
BY DEF TypeOK, Has

(* Rows that no run has any more may change in any way. *)
LEMMA Shrink ==
    ASSUME TypeOK, Held, Alone, NEW Gone,
           \A v \in Workers : Has(v)' \subseteq Has(v) \ Gone,
           \A q \in Requests \ Gone : req'[q] = req[q]
    PROVE  Held' /\ Alone'
<1>1. Held'
  <2> SUFFICES ASSUME NEW v \in Workers, NEW q \in Has(v)'
               PROVE  req'[q].status = "processing" /\ req'[q].lease = "live"
    BY DEF Held
  <2>1. q \in Has(v) /\ q \notin Gone
    OBVIOUS
  <2>2. q \in Requests
    BY <2>1, HasRequests
  <2> QED
    BY <2>1, <2>2 DEF Held
<1>2. Alone'
  <2> SUFFICES ASSUME NEW v \in Workers, NEW w \in Workers, v # w
               PROVE  Has(v)' \cap Has(w)' = {}
    BY DEF Alone
  <2>1. Has(v) \cap Has(w) = {}
    BY DEF Alone
  <2> QED
    BY <2>1
<1> QED
  BY <1>1, <1>2

(* The run that has a request is the only one. *)
LEMMA OnlyHere ==
    ASSUME Alone, NEW w \in Workers, NEW r \in Has(w), NEW v \in Workers, v # w
    PROVE  r \notin Has(v)
BY DEF Alone

(* A request in hand has told the customer nothing. *)
LEMMA NotToldYet ==
    ASSUME TypeOK, Held, AnsweredOnce, NEW w \in Workers, NEW r \in Has(w)
    PROVE  r \in Requests /\ said[r] = 0
<1>1. r \in Requests
  BY HasRequests
<1>2. req[r].status # "done"
  BY DEF Held
<1>3. said[r] \in Nat /\ said[r] <= 0
  BY <1>1, <1>2 DEF AnsweredOnce, TypeOK
<1> QED
  BY <1>1, <1>3

-----------------------------------------------------------------------------
LEMMA InitInv == Init => IInv
<1> SUFFICES ASSUME Init PROVE IInv
  OBVIOUS
<1> USE DEF Init
<1>1. TypeOK
  BY LimitsAssumption DEF TypeOK, Conversation, States, Row, Busy
<1>2. \A w \in Workers : Has(w) = {}
  BY DEF Has
<1>3. Apart /\ AnsweredOnce
  BY DEF Apart, AnsweredOnce
<1> QED
  BY <1>1, <1>2, <1>3 DEF IInv, Held, Alone

(* Steps of people and customers: no row in hand and nothing said changes. *)
LEMMA OutsideStep ==
    ASSUME IInv, NEW c \in Conversation,
           (WriteConv(c) \/ UNCHANGED <<conv, moved>>),
           req' \in [Requests -> Row],
           heard' \subseteq {q \in Requests : req'[q].status = "absent"},
           \A q \in Requests : (req'[q] = req[q])
                \/ ((\A w \in Workers : q \notin Has(w)) /\ req[q].status # "done"),
           human' \in 0..MaxHuman,
           UNCHANGED <<runVars, said>>
    PROVE  IInv'
<1> DEFINE Gone == {q \in Requests : req'[q] # req[q]}
<1>1. TypeOK /\ Held /\ Alone /\ Apart /\ AnsweredOnce
  BY DEF IInv
<1>2. batch' = batch /\ cur' = cur /\ begun' = begun /\ said' = said
  BY DEF runVars
<1>3. TypeOK'
  <2>1. conv' \in Conversation
    BY <1>1 DEF WriteConv, TypeOK
  <2>2. Busy' = Busy
    BY <1>2 DEF Busy
  <2>3. moved' \subseteq Busy'
    BY <1>1, <2>2 DEF WriteConv, TypeOK
  <2> QED
    BY <1>1, <1>2, <2>1, <2>3 DEF TypeOK
<1>4. Held' /\ Alone'
  <2>1. \A v \in Workers : Has(v)' \subseteq Has(v) \ Gone
    BY <1>2 DEF Has
  <2>2. \A q \in Requests \ Gone : req'[q] = req[q]
    OBVIOUS
  <2> HIDE DEF Gone
  <2> QED
    BY <1>1, <2>1, <2>2, Shrink
<1>5. Apart'
  BY <1>1, <1>2 DEF Apart
<1>6. AnsweredOnce'
  <2> SUFFICES ASSUME NEW q \in Requests
               PROVE  said'[q] <= (IF req'[q].status = "done" THEN 1 ELSE 0)
    BY DEF AnsweredOnce
  <2>1. said[q] \in Nat /\ said[q] <= (IF req[q].status = "done" THEN 1 ELSE 0)
    BY <1>1 DEF AnsweredOnce, TypeOK
  <2>2. req'[q] = req[q] \/ req[q].status # "done"
    OBVIOUS
  <2> QED
    BY <1>2, <2>1, <2>2
<1> QED
  BY <1>3, <1>4, <1>5, <1>6 DEF IInv

(* A run ends the request it handles, or one it has just taken from its     *)
(* batch, and says at most one thing about it, then only as "done".         *)
LEMMA EndStep ==
    ASSUME IInv, NEW w \in Workers, NEW r \in Has(w),
           NEW status \in {"done", "failed"},
           req' = [req EXCEPT ![r] = Settled(@, status)],
           batch' \in [Workers -> SUBSET Requests],
           \A v \in Workers : batch'[v] \subseteq batch[v],
           cur' \in [Workers -> Requests \cup {None}],
           \A v \in Workers : (cur'[v] = cur[v]) \/ (cur'[v] = None),
           r \notin Has(w)',
           begun' \subseteq Workers, heard' = heard,
           conv' \in Conversation, moved' \subseteq Busy',
           (said' = said) \/ ((status = "done") /\ (said' = [said EXCEPT ![r] = @ + 1])),
           human' = human
    PROVE  IInv'
<1>1. TypeOK /\ Held /\ Alone /\ Apart /\ AnsweredOnce
  BY DEF IInv
<1>2. r \in Requests /\ said[r] = 0
  BY <1>1, NotToldYet
<1>3. req[r] \in Row /\ said \in [Requests -> Nat]
  BY <1>1, <1>2 DEF TypeOK
<1>4. Settled(req[r], status) \in Row
  BY <1>3, RowType
<1>5. TypeOK'
  <2>1. req' \in [Requests -> Row]
    BY <1>1, <1>4 DEF TypeOK
  <2>2. said' \in [Requests -> Nat]
    BY <1>2, <1>3
  <2>3. heard' \subseteq {q \in Requests : req'[q].status = "absent"}
    <3>1. req[r].status = "processing"
      BY <1>1 DEF Held
    <3> QED
      BY <1>1, <3>1 DEF TypeOK
  <2> QED
    BY <1>1, <2>1, <2>2, <2>3 DEF TypeOK
<1>6. Held' /\ Alone'
  <2>1. \A v \in Workers : Has(v)' \subseteq Has(v)
    BY DEF Has
  <2>2. \A v \in Workers : r \notin Has(v)'
    BY <1>1, <2>1, OnlyHere
  <2>3. \A v \in Workers : Has(v)' \subseteq Has(v) \ {r}
    BY <2>1, <2>2
  <2>4. \A q \in Requests \ {r} : req'[q] = req[q]
    BY <1>1 DEF TypeOK
  <2> QED
    BY <1>1, <2>3, <2>4, Shrink
<1>7. Apart'
  <2> SUFFICES ASSUME NEW v \in Workers PROVE cur'[v] \notin batch'[v]
    BY DEF Apart
  <2>1. cur[v] \notin batch[v]
    BY <1>1 DEF Apart
  <2>2. batch[v] \subseteq Requests
    BY <1>1 DEF TypeOK
  <2> QED
    BY <2>1, <2>2, RequestsAssumption
<1>8. AnsweredOnce'
  <2> SUFFICES ASSUME NEW q \in Requests
               PROVE  said'[q] <= (IF req'[q].status = "done" THEN 1 ELSE 0)
    BY DEF AnsweredOnce
  <2>1. CASE q = r
    <3>1. req'[r] = Settled(req[r], status)
      BY <1>1, <1>2 DEF TypeOK
    <3>2. req'[r].status = status
      BY <3>1, <1>3 DEF Settled, Row
    <3> QED
      BY <2>1, <3>2, <1>2, <1>3
  <2>2. CASE q # r
    <3>1. req'[q] = req[q] /\ said'[q] = said[q]
      BY <1>1, <1>3, <2>2 DEF TypeOK
    <3> QED
      BY <1>1, <3>1 DEF AnsweredOnce
  <2> QED
    BY <2>1, <2>2
<1> QED
  BY <1>5, <1>6, <1>7, <1>8 DEF IInv

-----------------------------------------------------------------------------
(* A request that is queued was in nobody's hands. *)
LEMMA QueuedRow ==
    ASSUME IInv, NEW r \in Requests, req[r].status = "absent", Queued(r),
           heard' \subseteq heard, r \notin heard'
    PROVE  /\ req' \in [Requests -> Row]
           /\ heard' \subseteq {q \in Requests : req'[q].status = "absent"}
           /\ \A q \in Requests : (req'[q] = req[q])
                \/ ((\A w \in Workers : q \notin Has(w)) /\ req[q].status # "done")
<1>1. /\ req \in [Requests -> Row] /\ Held
      /\ heard \subseteq {q \in Requests : req[q].status = "absent"}
  BY DEF IInv, TypeOK
<1>2. req' = [req EXCEPT ![r].status = "pending"]
  BY DEF Queued
<1>3. req' \in [Requests -> Row]
  BY <1>1, <1>2 DEF Row
<1>4. \A w \in Workers : r \notin Has(w)
  BY <1>1 DEF Held
<1>5. \A q \in Requests : (req'[q] = req[q])
          \/ ((\A w \in Workers : q \notin Has(w)) /\ req[q].status # "done")
  BY <1>1, <1>2, <1>4
<1> QED
  BY <1>1, <1>2, <1>3, <1>5

(* The steps of people, customers and the webhook. *)
LEMMA PeopleStep ==
    ASSUME IInv, Human \/ Inbound \/ Touch \/ Sensitive \/ Business
    PROVE  IInv'
<1>1. /\ conv \in Conversation /\ req \in [Requests -> Row] /\ human \in 0..MaxHuman
      /\ heard \subseteq {q \in Requests : req[q].status = "absent"}
  BY DEF IInv, TypeOK
<1>2. CASE Human
  <2>1. PICK c \in ByHuman(conv) : WriteConv(c)
    BY <1>2 DEF Human
  <2>2. c \in Conversation
    BY <1>1, HumanType
  <2>3. human' \in 0..MaxHuman
    BY <1>1, <1>2, LimitsAssumption DEF Human
  <2>4. req' = req /\ UNCHANGED <<heard, runVars, said>>
    BY <1>2 DEF Human
  <2> QED
    BY <1>1, <2>1, <2>2, <2>3, <2>4, OutsideStep
<1>3. CASE Inbound
  <2>1. Reopened(conv) \in Conversation
    BY <1>1, ReopenedType
  <2>2. WriteConv(Reopened(conv)) /\ req' = req /\ human' = human
        /\ UNCHANGED <<heard, runVars, said>>
    BY <1>3 DEF Inbound
  <2> QED
    BY <1>1, <2>1, <2>2, OutsideStep
<1>4. CASE Touch
  <2>1. WriteConv(conv) /\ req' = req /\ human' = human /\ UNCHANGED <<heard, runVars, said>>
    BY <1>4 DEF Touch
  <2> QED
    BY <1>1, <2>1, OutsideStep
<1>5. CASE Sensitive
  <2>1. HandedOff(conv) \in Conversation
    BY <1>1, HandoffType
  <2>2. WriteConv(HandedOff(conv)) /\ req' = req /\ human' = human
        /\ UNCHANGED <<heard, runVars, said>>
    BY <1>5 DEF Sensitive
  <2> QED
    BY <1>1, <2>1, <2>2, OutsideStep
<1>6. CASE Business
  <2>1. [conv EXCEPT !.turns = 0] \in Conversation
    BY <1>1 DEF Conversation
  <2>2. WriteConv([conv EXCEPT !.turns = 0]) /\ human' = human
        /\ UNCHANGED <<heard, runVars, said>>
    BY <1>6 DEF Business
  <2>3. CASE req' = req
    BY <1>1, <2>1, <2>2, <2>3, OutsideStep
  <2>4. CASE req' # req
    <3>1. PICK r \in Requests : New(r) /\ Queued(r)
      BY <1>6, <2>4 DEF Business
    <3>2. /\ req' \in [Requests -> Row]
          /\ heard' \subseteq {q \in Requests : req'[q].status = "absent"}
          /\ \A q \in Requests : (req'[q] = req[q])
                \/ ((\A w \in Workers : q \notin Has(w)) /\ req[q].status # "done")
      BY <2>2, <3>1, QueuedRow DEF New
    <3> QED
      BY <1>1, <2>1, <2>2, <3>2, OutsideStep
  <2> QED
    BY <2>3, <2>4
<1> QED
  BY <1>2, <1>3, <1>4, <1>5, <1>6

LEMMA QueueStep ==
    ASSUME IInv, NEW r \in Requests,
           FreeText(r) \/ HearQuestion(r) \/ QueueQuestion(r) \/ LoseQuestion(r)
               \/ ExpireLease(r)
    PROVE  IInv'
<1>1. /\ conv \in Conversation /\ req \in [Requests -> Row] /\ human \in 0..MaxHuman
      /\ heard \subseteq {q \in Requests : req[q].status = "absent"}
      /\ Held /\ req[r] \in Row
  BY DEF IInv, TypeOK
<1>2. CASE FreeText(r)
  <2>1. UNCHANGED <<heard, runVars, said>> /\ human' = human
    BY <1>2 DEF FreeText
  <2>2. CASE TurnLimit > 0 /\ conv.turns >= TurnLimit
    <3>1. WriteConv(HandedOff(conv)) /\ req' = req
      BY <1>2, <2>2 DEF FreeText
    <3>2. HandedOff(conv) \in Conversation
      BY <1>1, HandoffType
    <3> QED
      BY <1>1, <2>1, <3>1, <3>2, OutsideStep
  <2>3. CASE ~(TurnLimit > 0 /\ conv.turns >= TurnLimit)
    <3>1. WriteConv([conv EXCEPT !.turns = @ + 1]) /\ Queued(r) /\ New(r)
      BY <1>2, <2>3 DEF FreeText
    <3>2. [conv EXCEPT !.turns = @ + 1] \in Conversation
      BY <1>1 DEF Conversation
    <3>3. /\ req' \in [Requests -> Row]
          /\ heard' \subseteq {q \in Requests : req'[q].status = "absent"}
          /\ \A q \in Requests : (req'[q] = req[q])
                \/ ((\A w \in Workers : q \notin Has(w)) /\ req[q].status # "done")
      BY <2>1, <3>1, QueuedRow DEF New
    <3> QED
      BY <1>1, <2>1, <3>1, <3>2, <3>3, OutsideStep
  <2> QED
    BY <2>2, <2>3
<1>3. CASE ExpireLease(r)
  <2>1. \A w \in Workers : r \notin Has(w)
    BY <1>3 DEF ExpireLease, Has
  <2>2. /\ UNCHANGED <<conv, moved>> /\ UNCHANGED <<heard, runVars, said>> /\ human' = human
        /\ req' = [req EXCEPT ![r].lease = "over"]
        /\ req[r].status = "processing"
    BY <1>3 DEF ExpireLease
  <2>3. req' \in [Requests -> Row]
    BY <1>1, <2>2 DEF Row
  <2>4. \A q \in Requests : (req'[q] = req[q])
            \/ ((\A w \in Workers : q \notin Has(w)) /\ req[q].status # "done")
    BY <1>1, <2>1, <2>2
  <2>5. heard' \subseteq {q \in Requests : req'[q].status = "absent"}
    BY <1>1, <2>2
  <2> QED
    BY <1>1, <2>2, <2>3, <2>4, <2>5, OutsideStep
<1>4. CASE HearQuestion(r) \/ LoseQuestion(r)
  <2>1. /\ UNCHANGED <<conv, moved>> /\ UNCHANGED <<runVars, said>> /\ human' = human
        /\ req' = req
        /\ heard' \subseteq {q \in Requests : req[q].status = "absent"}
    BY <1>1, <1>4 DEF HearQuestion, LoseQuestion, New
  <2> QED
    BY <1>1, <2>1, OutsideStep
<1>5. CASE QueueQuestion(r)
  <2>1. /\ UNCHANGED <<conv, moved>> /\ UNCHANGED <<runVars, said>> /\ human' = human
        /\ r \in heard /\ heard' = heard \ {r} /\ Queued(r)
    BY <1>5 DEF QueueQuestion
  <2>2. req[r].status = "absent"
    BY <1>1, <2>1
  <2>3. /\ req' \in [Requests -> Row]
        /\ heard' \subseteq {q \in Requests : req'[q].status = "absent"}
        /\ \A q \in Requests : (req'[q] = req[q])
              \/ ((\A w \in Workers : q \notin Has(w)) /\ req[q].status # "done")
    BY <2>1, <2>2, QueuedRow
  <2> QED
    BY <1>1, <2>1, <2>3, OutsideStep
<1> QED
  BY <1>2, <1>3, <1>4, <1>5

-----------------------------------------------------------------------------
(* The steps of a run. *)

(* What NextRequest takes is a request the run has. *)
LEMMA Taking ==
    ASSUME IInv, NEW w \in Workers, NEW r \in Requests, NextRequest(w, r)
    PROVE  /\ r \in Has(w) /\ cur[w] = None
           /\ batch' = [batch EXCEPT ![w] = @ \ {r}]
           /\ batch' \in [Workers -> SUBSET Requests]
           /\ \A v \in Workers : batch'[v] \subseteq batch[v]
           /\ r \notin batch'[w]
           /\ begun' \subseteq Workers
<1>1. batch \in [Workers -> SUBSET Requests] /\ begun \subseteq Workers
  BY DEF IInv, TypeOK
<1>2. /\ cur[w] = None /\ r \in batch[w]
      /\ batch' = [batch EXCEPT ![w] = @ \ {r}]
      /\ begun' = begun \cup {w}
  BY DEF NextRequest
<1> QED
  BY <1>1, <1>2 DEF Has

LEMMA SilentStep ==
    ASSUME IInv, NEW w \in Workers, NEW r \in Requests, StaySilent(w, r)
    PROVE  IInv'
<1>1. /\ NextRequest(w, r) /\ req' = [req EXCEPT ![r] = Settled(@, "done")]
      /\ cur' = cur /\ conv' = conv /\ moved' = moved /\ said' = said /\ human' = human
      /\ heard' = heard
  BY DEF StaySilent
<1>2. /\ conv \in Conversation /\ cur \in [Workers -> Requests \cup {None}]
      /\ moved \subseteq Busy
  BY DEF IInv, TypeOK
<1>3. /\ r \in Has(w) /\ cur[w] = None
      /\ batch' \in [Workers -> SUBSET Requests]
      /\ \A v \in Workers : batch'[v] \subseteq batch[v]
      /\ r \notin batch'[w]
      /\ begun' \subseteq Workers
  BY <1>1, Taking
<1>4. r \notin Has(w)'
  BY <1>1, <1>3 DEF Has
<1>5. moved' \subseteq Busy'
  BY <1>1, <1>2 DEF Busy
<1> QED
  BY <1>1, <1>2, <1>3, <1>4, <1>5, EndStep

LEMMA AskStep ==
    ASSUME IInv, NEW w \in Workers, NEW r \in Requests, Ask(w, r)
    PROVE  IInv'
<1>1. /\ NextRequest(w, r) /\ cur' = [cur EXCEPT ![w] = r]
      /\ conv' = conv /\ req' = req /\ moved' = moved /\ said' = said /\ human' = human
      /\ heard' = heard
  BY DEF Ask
<1>2. TypeOK /\ Held /\ Alone /\ Apart /\ AnsweredOnce
  BY DEF IInv
<1>3. /\ r \in Has(w) /\ cur[w] = None
      /\ batch' = [batch EXCEPT ![w] = @ \ {r}]
      /\ batch' \in [Workers -> SUBSET Requests]
      /\ r \notin batch'[w]
      /\ begun' \subseteq Workers
  BY <1>1, Taking
<1>4. /\ cur \in [Workers -> Requests \cup {None}] /\ batch \in [Workers -> SUBSET Requests]
      /\ moved \subseteq Busy
  BY <1>2 DEF TypeOK
<1>5. TypeOK'
  <2>1. cur' \in [Workers -> Requests \cup {None}]
    BY <1>1, <1>4
  <2>2. Busy \subseteq Busy'
    BY <1>1, <1>4, RequestsAssumption DEF Busy
  <2>3. moved' \subseteq Busy'
    BY <1>1, <1>4, <2>2
  <2> QED
    BY <1>1, <1>2, <1>3, <2>1, <2>3 DEF TypeOK
<1>6. Held' /\ Alone'
  <2>1. \A v \in Workers : Has(v)' \subseteq Has(v) \ {}
    <3> SUFFICES ASSUME NEW v \in Workers PROVE Has(v)' \subseteq Has(v)
      OBVIOUS
    <3>1. CASE v = w
      BY <1>1, <1>3, <1>4, <3>1 DEF Has
    <3>2. CASE v # w
      BY <1>1, <1>3, <1>4, <3>2 DEF Has
    <3> QED
      BY <3>1, <3>2
  <2>2. \A q \in Requests \ {} : req'[q] = req[q]
    BY <1>1
  <2> QED
    BY <1>2, <2>1, <2>2, Shrink
<1>7. Apart'
  BY <1>1, <1>2, <1>3, <1>4 DEF Apart
<1>8. AnsweredOnce'
  BY <1>1, <1>2 DEF AnsweredOnce
<1> QED
  BY <1>5, <1>6, <1>7, <1>8 DEF IInv

(* What CommitRequest ends is the request the run handles. *)
LEMMA Committing ==
    ASSUME IInv, NEW w \in Workers, NEW status \in {"done", "failed"},
           CommitRequest(w, status)
    PROVE  /\ cur[w] \in Has(w) /\ cur[w] \in Requests
           /\ batch' \in [Workers -> SUBSET Requests]
           /\ \A v \in Workers : batch'[v] \subseteq batch[v]
           /\ cur' \in [Workers -> Requests \cup {None}]
           /\ \A v \in Workers : (cur'[v] = cur[v]) \/ (cur'[v] = None)
           /\ cur[w] \notin Has(w)'
           /\ begun' \subseteq Workers
           /\ Busy \ {w} \subseteq Busy'
<1>1. /\ cur \in [Workers -> Requests \cup {None}] /\ batch \in [Workers -> SUBSET Requests]
      /\ begun \subseteq Workers /\ cur[w] \notin batch[w]
  BY DEF IInv, TypeOK, Apart
<1>2. /\ cur[w] # None /\ cur' = [cur EXCEPT ![w] = None]
      /\ batch' = batch /\ begun' = begun
  BY DEF CommitRequest
<1>3. cur[w] \in Has(w) /\ cur[w] \in Requests
  BY <1>1, <1>2 DEF Has
<1>4. cur[w] \notin Has(w)'
  BY <1>1, <1>2 DEF Has
<1>5. Busy \ {w} \subseteq Busy'
  BY <1>1, <1>2 DEF Busy
<1>6. cur' \in [Workers -> Requests \cup {None}]
  BY <1>1, <1>2
<1>7. \A v \in Workers : (cur'[v] = cur[v]) \/ (cur'[v] = None)
  BY <1>1, <1>2
<1> QED
  BY <1>1, <1>2, <1>3, <1>4, <1>5, <1>6, <1>7

LEMMA CommitStep ==
    ASSUME IInv, NEW w \in Workers, Reply(w) \/ Retry(w) \/ GiveUp(w) \/ GiveUpFails(w)
    PROVE  IInv'
<1>1. conv \in Conversation /\ moved \subseteq Busy
  BY DEF IInv, TypeOK
<1>2. Handoff(conv) \in Conversation
  BY <1>1, HandoffType
<1> DEFINE Ends(status) ==
        /\ CommitRequest(w, status)
        /\ (conv' = conv) \/ (conv' = Handoff(conv))
        /\ moved' \subseteq Busy \ {w}
        /\ (said' = said) \/ ((status = "done") /\ (said' = [said EXCEPT ![cur[w]] = @ + 1]))
<1>3. ASSUME NEW status \in {"done", "failed"}, Ends(status)
      PROVE  IInv'
  <2>1. /\ req' = [req EXCEPT ![cur[w]] = Settled(@, status)] /\ human' = human
        /\ heard' = heard
        /\ (said' = said) \/ ((status = "done") /\ (said' = [said EXCEPT ![cur[w]] = @ + 1]))
    BY <1>3 DEF CommitRequest
  <2>2. CommitRequest(w, status)
    BY <1>3
  <2>3. /\ cur[w] \in Has(w)
        /\ batch' \in [Workers -> SUBSET Requests]
        /\ \A v \in Workers : batch'[v] \subseteq batch[v]
        /\ cur' \in [Workers -> Requests \cup {None}]
        /\ \A v \in Workers : (cur'[v] = cur[v]) \/ (cur'[v] = None)
        /\ cur[w] \notin Has(w)'
        /\ begun' \subseteq Workers
        /\ Busy \ {w} \subseteq Busy'
    BY <2>2, Committing
  <2>4. conv' \in Conversation /\ moved' \subseteq Busy'
    BY <1>1, <1>2, <1>3, <2>3
  <2> HIDE DEF Ends
  <2> QED
    BY <2>1, <2>3, <2>4, EndStep
<1>4. CASE Reply(w)
  <2>1. Ends("done")
    BY <1>1, <1>4 DEF Reply, Tell
  <2> HIDE DEF Ends
  <2> QED
    BY <1>3, <2>1
<1>5. CASE Retry(w)
  <2>1. Ends("failed")
    BY <1>1, <1>5 DEF Retry
  <2> HIDE DEF Ends
  <2> QED
    BY <1>3, <2>1
<1>6. CASE GiveUp(w)
  <2>1. Ends("done")
    BY <1>1, <1>6 DEF GiveUp, Tell
  <2> HIDE DEF Ends
  <2> QED
    BY <1>3, <2>1
<1>7. CASE GiveUpFails(w)
  <2>1. Ends("failed")
    BY <1>1, <1>7 DEF GiveUpFails
  <2> HIDE DEF Ends
  <2> QED
    BY <1>3, <2>1
<1> QED
  BY <1>4, <1>5, <1>6, <1>7

(* A run loses what it has in hand; the rows stay, or go back to the queue. *)
LEMMA LetGo ==
    ASSUME IInv, NEW w \in Workers, Abort(w) \/ ReturnRest(w)
    PROVE  IInv'
<1>1. TypeOK /\ Held /\ Alone /\ Apart /\ AnsweredOnce
  BY DEF IInv
<1>2. /\ cur \in [Workers -> Requests \cup {None}] /\ batch \in [Workers -> SUBSET Requests]
      /\ req \in [Requests -> Row] /\ said \in [Requests -> Nat] /\ moved \subseteq Busy
  BY <1>1 DEF TypeOK
<1>3. /\ batch' = [batch EXCEPT ![w] = {}]
      /\ cur' = [cur EXCEPT ![w] = None]
      /\ moved' \subseteq Busy'
      /\ conv' = conv /\ begun' = begun /\ said' = said /\ human' = human
      /\ heard' = heard
      /\ req' = [r \in Requests |-> req'[r]]
      /\ \A q \in Requests : (req'[q] = req[q])
              \/ (q \in batch[w] /\ req'[q] = Returned(req[q]))
  <2>1. CASE Abort(w)
    BY <1>2, <2>1 DEF Abort, Busy
  <2>2. CASE ReturnRest(w)
    <3>1. /\ cur' = [cur EXCEPT ![w] = None]
          /\ moved' \subseteq Busy'
      BY <1>2, <2>2 DEF ReturnRest, Busy
    <3>2. req' = [r \in Requests |-> IF r \in batch[w] THEN Returned(req[r]) ELSE req[r]]
      BY <2>2 DEF ReturnRest
    <3> QED
      BY <2>2, <3>1, <3>2 DEF ReturnRest
  <2> QED
    BY <2>1, <2>2
<1>4. TypeOK'
  <2>1. \A q \in Requests : req'[q] \in Row
    <3> SUFFICES ASSUME NEW q \in Requests PROVE req'[q] \in Row
      OBVIOUS
    <3>1. req[q] \in Row
      BY <1>2
    <3>2. Returned(req[q]) \in Row
      BY <3>1, RowType
    <3> QED
      BY <1>3, <3>1, <3>2
  <2>2. req' \in [Requests -> Row]
    BY <1>3, <2>1
  <2>3. batch' \in [Workers -> SUBSET Requests] /\ cur' \in [Workers -> Requests \cup {None}]
    BY <1>2, <1>3
  <2>4. heard' \subseteq {q \in Requests : req'[q].status = "absent"}
    <3>1. \A q \in heard : q \in Requests /\ req[q].status = "absent"
      BY <1>1 DEF TypeOK
    <3>2. \A q \in batch[w] : req[q].status = "processing"
      BY <1>1 DEF Held, Has
    <3>3. \A q \in heard : req'[q] = req[q]
      BY <1>3, <3>1, <3>2
    <3> QED
      BY <1>3, <3>1, <3>3
  <2> QED
    BY <1>1, <1>3, <2>2, <2>3, <2>4 DEF TypeOK
<1>5. Held' /\ Alone'
  <2>1. Has(w)' = {}
    BY <1>2, <1>3 DEF Has
  <2>2. \A v \in Workers \ {w} : Has(v)' = Has(v)
    BY <1>2, <1>3 DEF Has
  <2>3. \A v \in Workers : Has(v)' \subseteq Has(v) \ Has(w)
    <3> SUFFICES ASSUME NEW v \in Workers PROVE Has(v)' \subseteq Has(v) \ Has(w)
      OBVIOUS
    <3>1. CASE v = w
      BY <2>1, <3>1
    <3>2. CASE v # w
      BY <1>1, <2>2, <3>2 DEF Alone
    <3> QED
      BY <3>1, <3>2
  <2>4. \A q \in Requests \ Has(w) : req'[q] = req[q]
    BY <1>3 DEF Has
  <2> QED
    BY <1>1, <2>3, <2>4, Shrink
<1>6. Apart'
  BY <1>1, <1>2, <1>3 DEF Apart
<1>7. AnsweredOnce'
  <2> SUFFICES ASSUME NEW q \in Requests
               PROVE  said'[q] <= (IF req'[q].status = "done" THEN 1 ELSE 0)
    BY DEF AnsweredOnce
  <2>1. said[q] <= (IF req[q].status = "done" THEN 1 ELSE 0)
    BY <1>1 DEF AnsweredOnce
  <2>2. CASE req'[q] = req[q]
    BY <1>3, <2>1, <2>2
  <2>3. CASE q \in batch[w]
    <3>1. said[q] = 0
      BY <1>1, <2>3, NotToldYet DEF Has
    <3> QED
      BY <1>3, <3>1
  <2> QED
    BY <1>3, <2>2, <2>3
<1> QED
  BY <1>4, <1>5, <1>6, <1>7 DEF IInv

(* Recovery looks only at rows that no run has, and a claim takes such rows *)
(* into an empty batch.                                                     *)
LEMMA CronStep ==
    ASSUME IInv, NEW w \in Workers, RunCron(w)
    PROVE  IInv'
<1> DEFINE Lost == {r \in Requests : Expired(req[r])}
           Last == {r \in Lost : Exhausted(req[r])}
<1>1. TypeOK /\ Held /\ Alone /\ Apart /\ AnsweredOnce
  BY DEF IInv
<1>2. /\ cur \in [Workers -> Requests \cup {None}] /\ batch \in [Workers -> SUBSET Requests]
      /\ req \in [Requests -> Row] /\ said \in [Requests -> Nat] /\ moved \subseteq Busy
      /\ conv \in Conversation
  BY <1>1 DEF TypeOK
<1>3. PICK F \in SUBSET {r \in Last : req[r].attempts < MaxTries} :
        LET rows == [r \in Requests |->
                        IF r \in Last \ F THEN Settled(req[r], "done")
                        ELSE IF r \in Lost THEN Settled(req[r], "failed")
                        ELSE req[r]]
        IN  /\ Idle(w)
            /\ \E S \in SUBSET ({r \in Requests : Due(rows[r])} \ F) :
                /\ Cardinality(S) <= BatchLimit
                /\ S # {} \/ Lost # {}
                /\ req' = [r \in Requests |-> IF r \in S THEN Claimed(rows[r]) ELSE rows[r]]
                /\ batch' = [batch EXCEPT ![w] = S]
            /\ said' = [r \in Requests |-> IF r \in Last \ F THEN said[r] + 1 ELSE said[r]]
            /\ IF Last \ F # {} THEN WriteConv(Handoff(conv)) ELSE UNCHANGED <<conv, moved>>
            /\ begun' = begun \ {w}
            /\ UNCHANGED <<heard, cur, human>>
  BY DEF RunCron
<1> DEFINE rows == [r \in Requests |->
                       IF r \in Last \ F THEN Settled(req[r], "done")
                       ELSE IF r \in Lost THEN Settled(req[r], "failed")
                       ELSE req[r]]
<1>4. PICK S \in SUBSET ({r \in Requests : Due(rows[r])} \ F) :
        /\ req' = [r \in Requests |-> IF r \in S THEN Claimed(rows[r]) ELSE rows[r]]
        /\ batch' = [batch EXCEPT ![w] = S]
  BY <1>3
<1>5. /\ cur[w] = None /\ batch[w] = {}
      /\ said' = [r \in Requests |-> IF r \in Last \ F THEN said[r] + 1 ELSE said[r]]
      /\ begun' = begun \ {w} /\ cur' = cur /\ human' = human /\ heard' = heard
  BY <1>3 DEF Idle
<1>6. (WriteConv(Handoff(conv))) \/ (UNCHANGED <<conv, moved>>)
  BY <1>3
<1>7. Lost \subseteq Requests /\ Last \subseteq Lost
  OBVIOUS
<1>8. \A r \in Lost : req[r].status = "processing" /\ req[r].lease = "over"
  BY DEF Expired
<1>9. \A r \in Requests : rows[r] = (IF r \in Last \ F THEN Settled(req[r], "done")
                                     ELSE IF r \in Lost THEN Settled(req[r], "failed")
                                     ELSE req[r])
  OBVIOUS
<1>10. \A r \in S : Due(rows[r]) /\ r \in Requests
  BY <1>4
<1> HIDE DEF rows, Lost, Last
<1>11. \A r \in Requests : rows[r] \in Row
  <2> SUFFICES ASSUME NEW r \in Requests PROVE rows[r] \in Row
    OBVIOUS
  <2>1. req[r] \in Row
    BY <1>2
  <2>2. Settled(req[r], "done") \in Row /\ Settled(req[r], "failed") \in Row
    BY <2>1, RowType
  <2> QED
    BY <1>9, <2>1, <2>2
<1>12. \A v \in Workers : \A r \in Has(v) :
          r \in Requests /\ r \notin Lost /\ r \notin S
              /\ rows[r] = req[r] /\ req'[r] = req[r]
  <2> SUFFICES ASSUME NEW v \in Workers, NEW r \in Has(v)
               PROVE  r \in Requests /\ r \notin Lost /\ r \notin S
                          /\ rows[r] = req[r] /\ req'[r] = req[r]
    OBVIOUS
  <2>1. r \in Requests
    BY <1>1, HasRequests
  <2>2. req[r].status = "processing" /\ req[r].lease = "live"
    BY <1>1 DEF Held
  <2>3. r \notin Lost
    BY <1>8, <2>2
  <2>4. rows[r] = req[r]
    BY <1>7, <1>9, <2>1, <2>3
  <2>5. r \notin S
    BY <1>10, <2>2, <2>4 DEF Due
  <2> QED
    BY <1>4, <2>1, <2>3, <2>4, <2>5
<1>13. TypeOK'
  <2>1. req' \in [Requests -> Row]
    <3>1. \A r \in Requests : Claimed(rows[r]) \in Row
      BY <1>11, RowType
    <3> QED
      BY <1>4, <1>11, <3>1
  <2>2. batch' \in [Workers -> SUBSET Requests]
    BY <1>2, <1>4
  <2>3. said' \in [Requests -> Nat]
    BY <1>2, <1>5
  <2>4. Handoff(conv) \in Conversation
    BY <1>2, HandoffType
  <2>5. conv' \in Conversation
    BY <1>2, <1>6, <2>4 DEF WriteConv
  <2>6. Busy' = Busy
    BY <1>5 DEF Busy
  <2>7. moved' \subseteq Busy'
    BY <1>2, <1>6, <2>6 DEF WriteConv
  <2>8. heard' \subseteq {q \in Requests : req'[q].status = "absent"}
    <3>1. \A q \in heard : q \in Requests /\ req[q].status = "absent"
      BY <1>1 DEF TypeOK
    <3>2. \A q \in heard : q \notin Lost
      BY <1>8, <3>1
    <3>3. \A q \in heard : rows[q] = req[q]
      BY <1>7, <1>9, <3>1, <3>2
    <3>4. \A q \in heard : q \notin S
      BY <1>10, <3>1, <3>3 DEF Due
    <3>5. \A q \in heard : req'[q] = req[q]
      BY <1>4, <3>1, <3>3, <3>4
    <3> QED
      BY <1>5, <3>1, <3>5
  <2> QED
    BY <1>1, <1>5, <2>1, <2>2, <2>3, <2>5, <2>7, <2>8 DEF TypeOK
<1>14. /\ Has(w)' = S
       /\ \A v \in Workers \ {w} : Has(v)' = Has(v)
  BY <1>2, <1>4, <1>5 DEF Has
<1>15. Held'
  <2> SUFFICES ASSUME NEW v \in Workers, NEW r \in Has(v)'
               PROVE  req'[r].status = "processing" /\ req'[r].lease = "live"
    BY DEF Held
  <2>1. CASE v = w
    <3>1. r \in S /\ r \in Requests
      BY <1>10, <1>14, <2>1
    <3>2. req'[r] = Claimed(rows[r])
      BY <1>4, <3>1
    <3> QED
      BY <3>2 DEF Claimed
  <2>2. CASE v # w
    <3>1. r \in Has(v)
      BY <1>14, <2>2
    <3> QED
      BY <1>1, <1>12, <3>1 DEF Held
  <2> QED
    BY <2>1, <2>2
<1>16. Alone'
  <2>1. \A v \in Workers : S \cap Has(v) = {}
    BY <1>12
  <2> SUFFICES ASSUME NEW v \in Workers, NEW u \in Workers, v # u
               PROVE  Has(v)' \cap Has(u)' = {}
    BY DEF Alone
  <2>2. CASE v = w
    BY <1>14, <2>1, <2>2
  <2>3. CASE u = w
    BY <1>14, <2>1, <2>3
  <2>4. CASE v # w /\ u # w
    BY <1>1, <1>14, <2>4 DEF Alone
  <2> QED
    BY <2>2, <2>3, <2>4
<1>17. Apart'
  <2>1. None \notin S
    BY <1>10, RequestsAssumption
  <2> QED
    BY <1>1, <1>2, <1>4, <1>5, <2>1 DEF Apart
<1>18. AnsweredOnce'
  <2> SUFFICES ASSUME NEW q \in Requests
               PROVE  said'[q] <= (IF req'[q].status = "done" THEN 1 ELSE 0)
    BY DEF AnsweredOnce
  <2>1. said[q] \in Nat /\ said[q] <= (IF req[q].status = "done" THEN 1 ELSE 0)
    BY <1>1, <1>2 DEF AnsweredOnce
  <2>2. CASE q \in Last \ F
    <3>1. said[q] = 0
      BY <1>7, <1>8, <2>1, <2>2
    <3>2. said'[q] = 1
      BY <1>5, <2>2, <3>1
    <3>3. rows[q].status = "done"
      <4>1. rows[q] = Settled(req[q], "done") /\ req[q] \in Row
        BY <1>2, <1>9, <2>2
      <4> QED
        BY <4>1 DEF Settled, Row
    <3>4. req'[q] = rows[q]
      BY <1>4, <1>10, <3>3 DEF Due
    <3> QED
      BY <3>2, <3>3, <3>4
  <2>3. CASE q \in Lost /\ q \notin Last \ F
    <3>1. said'[q] = 0
      BY <1>5, <1>8, <2>1, <2>3
    <3> QED
      BY <3>1
  <2>4. CASE q \notin Lost
    <3>1. rows[q] = req[q] /\ said'[q] = said[q]
      BY <1>5, <1>7, <1>9, <2>4
    <3>2. CASE q \in S
      <4>1. req[q].status # "done"
        BY <1>10, <3>1, <3>2 DEF Due
      <4> QED
        BY <2>1, <3>1, <4>1
    <3>3. CASE q \notin S
      <4>1. req'[q] = req[q]
        BY <1>4, <3>1, <3>3
      <4> QED
        BY <2>1, <3>1, <4>1
    <3> QED
      BY <3>2, <3>3
  <2> QED
    BY <2>2, <2>3, <2>4
<1> QED
  BY <1>13, <1>15, <1>16, <1>17, <1>18 DEF IInv

LEMMA Stutter == ASSUME IInv, UNCHANGED vars PROVE IInv'
<1>1. \A w \in Workers : Has(w)' = Has(w)
  BY DEF vars, runVars, Has
<1>2. Busy' = Busy
  BY DEF vars, runVars, Busy
<1>3. TypeOK'
  BY <1>2 DEF IInv, TypeOK, vars, runVars
<1>4. Held' /\ Alone'
  BY <1>1 DEF IInv, Held, Alone, vars
<1>5. Apart' /\ AnsweredOnce'
  BY DEF IInv, Apart, AnsweredOnce, vars, runVars
<1> QED
  BY <1>3, <1>4, <1>5 DEF IInv

LEMMA NextInv == ASSUME IInv, [Next]_vars PROVE IInv'
<1>1. CASE Human \/ Inbound \/ Touch \/ Sensitive \/ Business
  BY <1>1, PeopleStep
<1>2. CASE \E r \in Requests :
            \/ FreeText(r) \/ HearQuestion(r) \/ QueueQuestion(r) \/ LoseQuestion(r)
            \/ ExpireLease(r)
  BY <1>2, QueueStep
<1>3. CASE \E w \in Workers : RunCron(w) \/ WorkerStep(w)
  <2> SUFFICES ASSUME NEW w \in Workers, RunCron(w) \/ WorkerStep(w) PROVE IInv'
    BY <1>3
  <2>1. CASE RunCron(w)
    BY <2>1, CronStep
  <2>2. CASE \E r \in Requests : StaySilent(w, r) \/ Ask(w, r)
    BY <2>2, SilentStep, AskStep
  <2>3. CASE Reply(w) \/ Retry(w) \/ GiveUp(w) \/ GiveUpFails(w)
    BY <2>3, CommitStep
  <2>4. CASE Abort(w) \/ ReturnRest(w)
    BY <2>4, LetGo
  <2> QED
    BY <2>1, <2>2, <2>3, <2>4 DEF WorkerStep
<1>4. CASE UNCHANGED vars
  BY <1>4, Stutter
<1> QED
  BY <1>1, <1>2, <1>3, <1>4 DEF Next

(* What a run has in hand stays its own, whatever people, customers and the *)
(* other runs of _cron_process do.                                          *)
THEOREM Invariant == Spec => []IInv
<1>1. Init => IInv
  BY InitInv
<1>2. IInv /\ [Next]_vars => IInv'
  BY NextInv
<1> QED
  BY <1>1, <1>2, PTL DEF Spec

(* The conversation, the rows and the runs keep their types. *)
THEOREM TypeCorrect == Spec => []TypeOK
<1>1. IInv => TypeOK
  BY DEF IInv
<1> QED
  BY <1>1, Invariant, PTL

(* A customer is told at most one thing for each request, however often it  *)
(* is retried, recovered or given back, and nothing before it is "done".    *)
THEOREM AnsweredSafety == Spec => []AnsweredOnce
<1>1. IInv => AnsweredOnce
  BY DEF IInv
<1> QED
  BY <1>1, Invariant, PTL

-----------------------------------------------------------------------------
(* AIRequest implements AnswerDesk. *)

SameTexts == \A r \in Requests : TextOf(req'[r]) = TextOf(req[r])

(* A step that the desk does not see. *)
LEMMA Unseen ==
    ASSUME SameTexts, heard' = heard, conv'.state = conv.state, said' = said,
           human' = human
    PROVE  UNCHANGED <<conv.state, Texts, said, human>>
<1>1. Texts' = Texts
  BY DEF Texts, SameTexts
<1> QED
  BY <1>1

(* The requests of S are answered, and perhaps the robot hands over. *)
LEMMA Answering ==
    ASSUME TypeOK, NEW S \in SUBSET Requests, S # {},
           \A r \in S : TextOf(req[r]) = "open" /\ TextOf(req'[r]) = "closed",
           \A r \in Requests \ S : TextOf(req'[r]) = TextOf(req[r]),
           said' = [r \in Requests |-> IF r \in S THEN said[r] + 1 ELSE said[r]],
           conv' = conv \/ conv' = Handoff(conv),
           heard' = heard, human' = human
    PROVE  Desk!Next
<1> \A r \in S : r \notin heard
  BY DEF TypeOK, TextOf
<1>1. \A r \in S : Texts[r] = "open"
  BY DEF Texts
<1>2. Texts' = [r \in Requests |-> IF r \in S THEN "closed" ELSE Texts[r]]
  BY DEF Texts
<1>3. \/ conv'.state = conv.state
      \/ conv.state \in BotAllowed /\ conv'.state = "waiting_internal"
  <2>1. CASE conv' = conv
    BY <2>1
  <2>2. CASE conv' = Handoff(conv) /\ conv.state \notin BotAllowed
    BY <2>2 DEF Handoff
  <2>3. CASE conv' = Handoff(conv) /\ conv.state \in BotAllowed
    BY <2>3 DEF Handoff, HandedOff
  <2> QED
    BY <2>1, <2>2, <2>3
<1>4. Desk!Answer(S)
  BY <1>1, <1>2, <1>3 DEF Desk!Answer
<1> QED
  BY <1>4 DEF Desk!Next

(* People, customers and rules move the conversation and no request. *)
LEMMA PeopleDesk ==
    ASSUME IInv, Human \/ Inbound \/ Touch \/ Sensitive
    PROVE  [Desk!Next]_<<conv.state, Texts, said, human>>
<1>1. conv \in Conversation /\ req' = req /\ heard' = heard /\ said' = said
  BY DEF IInv, TypeOK, Human, Inbound, Touch, Sensitive
<1>2. Texts' = Texts
  BY <1>1 DEF Texts
<1>3. CASE Human
  <2>1. PICK c \in ByHuman(conv) : conv' = c
    BY <1>3 DEF Human, WriteConv
  <2>2. c \in Conversation
    BY <1>1, HumanType
  <2>3. Desk!Attend
    BY <1>1, <1>2, <1>3, <2>1, <2>2 DEF Human, Desk!Attend, Conversation
  <2> QED
    BY <2>3 DEF Desk!Next
<1>4. CASE Inbound \/ Touch \/ Sensitive
  <2>1. human' = human
    BY <1>4 DEF Inbound, Touch, Sensitive
  <2>2. conv' \in Conversation
    <3>1. HandedOff(conv) \in Conversation /\ Reopened(conv) \in Conversation
      BY <1>1, HandoffType, ReopenedType
    <3> QED
      BY <1>1, <1>4, <3>1 DEF Inbound, Touch, Sensitive, WriteConv
  <2>3. CASE conv.state \in BotAllowed
    <3>1. Desk!Converse
      BY <1>1, <1>2, <2>1, <2>2, <2>3 DEF Desk!Converse, Conversation
    <3> QED
      BY <3>1 DEF Desk!Next
  <2>4. CASE conv.state \notin BotAllowed
    <3>1. conv'.state = conv.state
      BY <1>4, <2>4, RobotKeepsOff DEF Inbound, Touch, Sensitive, WriteConv
    <3> QED
      BY <1>1, <1>2, <2>1, <3>1
  <2> QED
    BY <2>3, <2>4
<1> QED
  BY <1>3, <1>4

(* A text is queued by a step that leaves the state of the conversation.    *)
LEMMA Accepting ==
    ASSUME IInv, NEW r \in Requests, req[r].status = "absent", Queued(r),
           heard' = heard \ {r}, r \in heard \/ conv.state \in BotAllowed,
           conv'.state = conv.state, said' = said, human' = human
    PROVE  Desk!Next
<1>1. req \in [Requests -> Row]
  BY DEF IInv, TypeOK
<1>2. req'[r].status = "pending" /\ \A q \in Requests \ {r} : req'[q] = req[q]
  BY <1>1 DEF Queued, Row
<1>3. TextOf(req[r]) = "unknown" /\ TextOf(req'[r]) = "open"
  BY <1>2 DEF TextOf
<1>4. /\ Texts[r] = "heard" \/ (Texts[r] = "unknown" /\ conv.state \in BotAllowed)
      /\ Texts' = [Texts EXCEPT ![r] = "open"]
  BY <1>2, <1>3 DEF Texts
<1>5. Desk!Accept(r)
  BY <1>4 DEF Desk!Accept
<1> QED
  BY <1>5 DEF Desk!Next

(* An answer of the rules, which may leave a question to the AI.            *)
LEMMA BusinessDesk ==
    ASSUME IInv, Business
    PROVE  [Desk!Next]_<<conv.state, Texts, said, human>>
<1>1. conv \in Conversation
  BY DEF IInv, TypeOK
<1>2. /\ conv.state \in BotAllowed /\ conv' = [conv EXCEPT !.turns = 0]
      /\ heard' = heard /\ said' = said /\ human' = human
  BY DEF Business, WriteConv
<1>3. conv'.state = conv.state
  BY <1>1, <1>2 DEF Conversation
<1>4. CASE req' = req
  BY <1>2, <1>3, <1>4 DEF Texts
<1>5. CASE req' # req
  <2>1. PICK r \in Requests : New(r) /\ Queued(r)
    BY <1>5 DEF Business
  <2>2. req[r].status = "absent" /\ heard' = heard \ {r}
    BY <1>2, <2>1 DEF New
  <2> QED
    BY <1>2, <1>3, <2>1, <2>2, Accepting
<1> QED
  BY <1>4, <1>5

(* A text is heard, accepted, lost or ends in a handover; a lease runs out. *)
LEMMA TextDesk ==
    ASSUME IInv, NEW r \in Requests,
           FreeText(r) \/ HearQuestion(r) \/ QueueQuestion(r) \/ LoseQuestion(r)
               \/ ExpireLease(r)
    PROVE  [Desk!Next]_<<conv.state, Texts, said, human>>
<1>1. /\ conv \in Conversation /\ req \in [Requests -> Row]
      /\ heard \subseteq {q \in Requests : req[q].status = "absent"}
  BY DEF IInv, TypeOK
<1>2. said' = said /\ human' = human
  BY DEF FreeText, HearQuestion, QueueQuestion, LoseQuestion, ExpireLease
<1>3. CASE ExpireLease(r)
  <2>1. /\ req[r].status = "processing" /\ req' = [req EXCEPT ![r].lease = "over"]
        /\ conv' = conv /\ heard' = heard
    BY <1>3 DEF ExpireLease
  <2>2. SameTexts
    BY <1>1, <2>1 DEF SameTexts, TextOf, Row
  <2> QED
    BY <1>2, <2>1, <2>2, Unseen
<1>4. CASE FreeText(r) /\ TurnLimit > 0 /\ conv.turns >= TurnLimit
  <2>1. /\ conv.state \in BotAllowed /\ conv' = HandedOff(conv) /\ req' = req
        /\ heard' = heard
    BY <1>4 DEF FreeText, WriteConv
  <2>2. conv' \in Conversation /\ Texts' = Texts
    BY <1>1, <2>1, HandoffType DEF Texts
  <2>3. Desk!Converse
    BY <1>2, <2>1, <2>2 DEF Desk!Converse, Conversation
  <2> QED
    BY <2>3 DEF Desk!Next
<1>5. CASE FreeText(r) /\ ~(TurnLimit > 0 /\ conv.turns >= TurnLimit)
  <2>1. /\ conv.state \in BotAllowed /\ New(r) /\ Queued(r) /\ heard' = heard
        /\ conv' = [conv EXCEPT !.turns = @ + 1]
    BY <1>5 DEF FreeText, WriteConv
  <2>2. conv'.state = conv.state
    BY <1>1, <2>1 DEF Conversation
  <2>3. req[r].status = "absent" /\ heard' = heard \ {r}
    BY <2>1 DEF New
  <2> QED
    BY <1>2, <2>1, <2>2, <2>3, Accepting
<1>6. CASE HearQuestion(r)
  <2>1. /\ conv.state \in BotAllowed /\ New(r) /\ heard' = heard \cup {r}
        /\ conv' = conv /\ req' = req
    BY <1>6 DEF HearQuestion
  <2>2. Texts[r] = "unknown" /\ Texts' = [Texts EXCEPT ![r] = "heard"]
    BY <2>1 DEF Texts, New, TextOf
  <2>3. Desk!Hear(r)
    BY <1>2, <2>1, <2>2 DEF Desk!Hear
  <2> QED
    BY <2>3 DEF Desk!Next
<1>7. CASE LoseQuestion(r)
  <2>1. r \in heard /\ heard' = heard \ {r} /\ conv' = conv /\ req' = req
    BY <1>7 DEF LoseQuestion
  <2>2. Texts[r] = "heard" /\ Texts' = [Texts EXCEPT ![r] = "unknown"]
    BY <1>1, <2>1 DEF Texts, TextOf
  <2>3. Desk!Forget(r)
    BY <1>2, <2>1, <2>2 DEF Desk!Forget
  <2> QED
    BY <2>3 DEF Desk!Next
<1>8. CASE QueueQuestion(r)
  <2>1. r \in heard /\ heard' = heard \ {r} /\ Queued(r) /\ conv' = conv
    BY <1>8 DEF QueueQuestion
  <2>2. req[r].status = "absent"
    BY <1>1, <2>1
  <2> QED
    BY <1>2, <2>1, <2>2, Accepting
<1> QED
  BY <1>3, <1>4, <1>5, <1>6, <1>7, <1>8

(* A run drops a request, begins one, ends one or lets its batch go. *)
LEMMA WorkerDesk ==
    ASSUME IInv, NEW w \in Workers, WorkerStep(w)
    PROVE  [Desk!Next]_<<conv.state, Texts, said, human>>
<1>1. /\ conv \in Conversation /\ req \in [Requests -> Row] /\ said \in [Requests -> Nat]
      /\ batch \in [Workers -> SUBSET Requests]
  BY DEF IInv, TypeOK
<1>2. \A r \in Has(w) : r \in Requests /\ req[r].status = "processing"
  BY HasRequests DEF IInv, Held
<1>3. \A row \in Row : /\ Settled(row, "done").status = "done"
                       /\ Settled(row, "failed").status = "failed"
                       /\ Returned(row).status = "pending"
  BY DEF Settled, Returned, Row
<1>4. ASSUME NEW r \in Requests, StaySilent(w, r)
      PROVE  Desk!Next
  <2>1. /\ r \in Has(w) /\ conv.state \notin BotAllowed
        /\ req' = [req EXCEPT ![r] = Settled(@, "done")]
        /\ UNCHANGED <<conv, heard, said, human>>
    BY <1>4, Taking DEF StaySilent
  <2>2. req'[r].status = "done" /\ req[r].status = "processing"
    BY <1>1, <1>2, <1>3, <2>1
  <2>3. Texts[r] = "open" /\ Texts' = [Texts EXCEPT ![r] = "closed"]
    <3>1. TextOf(req[r]) = "open" /\ TextOf(req'[r]) = "closed"
      BY <2>2 DEF TextOf
    <3>2. \A q \in Requests \ {r} : TextOf(req'[q]) = TextOf(req[q])
      BY <1>1, <2>1
    <3>3. r \notin heard /\ heard' = heard
      BY <2>1, <2>2 DEF IInv, TypeOK
    <3> QED
      BY <3>1, <3>2, <3>3 DEF Texts
  <2>4. Desk!DropInSilence(r)
    BY <2>1, <2>3 DEF Desk!DropInSilence
  <2> QED
    BY <2>4 DEF Desk!Next
<1>5. ASSUME NEW r \in Requests, Ask(w, r)
      PROVE  UNCHANGED <<conv.state, Texts, said, human>>
  BY <1>5 DEF Ask, Texts
<1>6. CASE Reply(w) \/ GiveUp(w)
  <2>1. CommitRequest(w, "done") /\ Tell(w) /\ (conv' = conv \/ conv' = Handoff(conv))
    BY <1>6 DEF Reply, GiveUp
  <2>2. cur[w] \in Has(w) /\ cur[w] \in Requests
    BY <2>1, Committing
  <2>3. /\ req' = [req EXCEPT ![cur[w]] = Settled(@, "done")] /\ human' = human
        /\ heard' = heard
        /\ said' = [said EXCEPT ![cur[w]] = @ + 1]
    BY <2>1 DEF CommitRequest, Tell
  <2>4. req[cur[w]].status = "processing" /\ req'[cur[w]].status = "done"
    BY <1>1, <1>2, <1>3, <2>2, <2>3
  <2>5. \A q \in Requests \ {cur[w]} : TextOf(req'[q]) = TextOf(req[q])
    BY <1>1, <2>3
  <2>6. said' = [r \in Requests |-> IF r \in {cur[w]} THEN said[r] + 1 ELSE said[r]]
    BY <1>1, <2>2, <2>3
  <2>7. TextOf(req[cur[w]]) = "open" /\ TextOf(req'[cur[w]]) = "closed"
    BY <2>4 DEF TextOf
  <2>8. {cur[w]} \in SUBSET Requests /\ {cur[w]} # {}
    BY <2>2
  <2> QED
    BY <2>1, <2>3, <2>5, <2>6, <2>7, <2>8, Answering DEF IInv
<1>7. CASE Retry(w) \/ GiveUpFails(w)
  <2>1. CommitRequest(w, "failed") /\ conv' = conv /\ said' = said
    BY <1>7 DEF Retry, GiveUpFails
  <2>2. cur[w] \in Has(w) /\ cur[w] \in Requests
    BY <2>1, Committing
  <2>3. /\ req' = [req EXCEPT ![cur[w]] = Settled(@, "failed")] /\ human' = human
        /\ heard' = heard
    BY <2>1 DEF CommitRequest
  <2>4. req[cur[w]].status = "processing" /\ req'[cur[w]].status = "failed"
    BY <1>1, <1>2, <1>3, <2>2, <2>3
  <2>5. SameTexts
    BY <1>1, <2>3, <2>4 DEF SameTexts, TextOf
  <2> QED
    BY <2>1, <2>3, <2>5, Unseen
<1>8. CASE Abort(w)
  BY <1>8 DEF Abort, Texts
<1>9. CASE ReturnRest(w)
  <2>1. /\ req' = [r \in Requests |-> IF r \in batch[w] THEN Returned(req[r]) ELSE req[r]]
        /\ conv' = conv /\ said' = said /\ human' = human /\ heard' = heard
    BY <1>9 DEF ReturnRest
  <2>2. \A r \in batch[w] : req[r].status = "processing" /\ req'[r].status = "pending"
    BY <1>1, <1>2, <1>3, <2>1 DEF Has
  <2>3. SameTexts
    BY <2>1, <2>2 DEF SameTexts, TextOf
  <2> QED
    BY <2>1, <2>3, Unseen
<1> QED
  BY <1>4, <1>5, <1>6, <1>7, <1>8, <1>9 DEF WorkerStep

(* A run recovers what has expired, telling some customers, and claims.     *)
LEMMA CronDesk ==
    ASSUME IInv, NEW w \in Workers, RunCron(w)
    PROVE  [Desk!Next]_<<conv.state, Texts, said, human>>
<1> DEFINE Lost == {r \in Requests : Expired(req[r])}
           Last == {r \in Lost : Exhausted(req[r])}
<1>1. req \in [Requests -> Row] /\ said \in [Requests -> Nat]
  BY DEF IInv, TypeOK
<1>2. PICK F \in SUBSET {r \in Last : req[r].attempts < MaxTries} :
        LET rows == [r \in Requests |->
                        IF r \in Last \ F THEN Settled(req[r], "done")
                        ELSE IF r \in Lost THEN Settled(req[r], "failed")
                        ELSE req[r]]
        IN  /\ Idle(w)
            /\ \E S \in SUBSET ({r \in Requests : Due(rows[r])} \ F) :
                /\ Cardinality(S) <= BatchLimit
                /\ S # {} \/ Lost # {}
                /\ req' = [r \in Requests |-> IF r \in S THEN Claimed(rows[r]) ELSE rows[r]]
                /\ batch' = [batch EXCEPT ![w] = S]
            /\ said' = [r \in Requests |-> IF r \in Last \ F THEN said[r] + 1 ELSE said[r]]
            /\ IF Last \ F # {} THEN WriteConv(Handoff(conv)) ELSE UNCHANGED <<conv, moved>>
            /\ begun' = begun \ {w}
            /\ UNCHANGED <<heard, cur, human>>
  BY DEF RunCron
<1> DEFINE Told == Last \ F
           rows == [r \in Requests |-> IF r \in Told THEN Settled(req[r], "done")
                                       ELSE IF r \in Lost THEN Settled(req[r], "failed")
                                       ELSE req[r]]
<1>3. PICK S \in SUBSET ({r \in Requests : Due(rows[r])} \ F) :
        req' = [r \in Requests |-> IF r \in S THEN Claimed(rows[r]) ELSE rows[r]]
  BY <1>2
<1>4. /\ said' = [r \in Requests |-> IF r \in Told THEN said[r] + 1 ELSE said[r]]
      /\ Told # {} => conv' = Handoff(conv)
      /\ Told = {} => conv' = conv
      /\ human' = human /\ heard' = heard
  BY <1>2 DEF WriteConv
<1>5. \A r \in Told : /\ req[r].status = "processing" /\ r \in Requests
                      /\ rows[r].status = "done"
  <2> SUFFICES ASSUME NEW r \in Told
               PROVE  /\ req[r].status = "processing" /\ r \in Requests
                      /\ rows[r].status = "done"
    OBVIOUS
  <2>1. r \in Requests /\ Expired(req[r])
    OBVIOUS
  <2>2. rows[r] = Settled(req[r], "done")
    BY <2>1
  <2> HIDE DEF rows, Told
  <2> QED
    BY <1>1, <2>1, <2>2 DEF Expired, Settled, Row
<1>6. \A r \in Requests \ Told : TextOf(rows[r]) = TextOf(req[r])
  <2> SUFFICES ASSUME NEW r \in Requests \ Told  PROVE TextOf(rows[r]) = TextOf(req[r])
    OBVIOUS
  <2>1. CASE r \in Lost
    <3>1. rows[r] = Settled(req[r], "failed") /\ Expired(req[r])
      BY <2>1
    <3> HIDE DEF rows, Told, Lost
    <3> QED
      BY <1>1, <3>1 DEF Expired, Settled, Row, TextOf
  <2>2. CASE r \notin Lost
    BY <2>2
  <2> QED
    BY <2>1, <2>2
<1>7. \A r \in S : r \in Requests /\ Due(rows[r])
  OBVIOUS
<1>8. \A r \in S : req'[r] = Claimed(rows[r])
  BY <1>3
<1>9. \A r \in Requests \ S : req'[r] = rows[r]
  BY <1>3
<1>10. Told \subseteq Requests
  OBVIOUS
<1> HIDE DEF rows, Told, Lost, Last
<1>11. \A r \in S : r \notin Told /\ TextOf(req'[r]) = TextOf(rows[r])
  <2> SUFFICES ASSUME NEW r \in S
               PROVE  r \notin Told /\ TextOf(req'[r]) = TextOf(rows[r])
    OBVIOUS
  <2>1. rows[r].status \in {"pending", "failed"}
    BY <1>7 DEF Due
  <2>2. req'[r].status = "processing"
    <3>1. Claimed(rows[r]).status = "processing"
      BY DEF Claimed
    <3>2. req'[r] = Claimed(rows[r])
      BY <1>8
    <3> QED
      BY <3>1, <3>2
  <2>3. TextOf(req'[r]) = "open"
    BY <2>2 DEF TextOf
  <2>4. TextOf(rows[r]) = "open"
    BY <2>1 DEF TextOf
  <2>5. r \notin Told
    BY <1>5, <2>1
  <2> QED
    BY <2>3, <2>4, <2>5
<1>12. \A r \in Told : TextOf(req[r]) = "open" /\ TextOf(req'[r]) = "closed"
  BY <1>5, <1>9, <1>11 DEF TextOf
<1>13. \A r \in Requests \ Told : TextOf(req'[r]) = TextOf(req[r])
  BY <1>6, <1>9, <1>11
<1>14. CASE Told = {}
  <2>1. said' = said
    BY <1>1, <1>4, <1>14
  <2>2. SameTexts
    BY <1>13, <1>14 DEF SameTexts
  <2> QED
    BY <1>4, <1>14, <2>1, <2>2, Unseen
<1>15. CASE Told # {}
  BY <1>4, <1>10, <1>12, <1>13, <1>15, Answering DEF IInv
<1> QED
  BY <1>14, <1>15

LEMMA DeskStep == IInv /\ [Next]_vars => [Desk!Next]_<<conv.state, Texts, said, human>>
<1> SUFFICES ASSUME IInv, [Next]_vars
             PROVE  [Desk!Next]_<<conv.state, Texts, said, human>>
  OBVIOUS
<1>1. CASE \E w \in Workers : RunCron(w) \/ WorkerStep(w)
  BY <1>1, CronDesk, WorkerDesk
<1>2. CASE UNCHANGED vars
  BY <1>2 DEF vars, Texts
<1> QED
  BY <1>1, <1>2, PeopleDesk, BusinessDesk, TextDesk DEF Next

(* The queue implements the desk: each of its steps accepts, answers or     *)
(* drops a text as the desk does, moves the conversation as the desk        *)
(* allows, or is not seen by customers and attendants.                      *)
THEOREM ImplementsDesk == Spec => KeepsItsDesk
<1>1. Init => Desk!Init
  <2> SUFFICES ASSUME Init PROVE Desk!Init
    OBVIOUS
  <2>1. Texts = [r \in Requests |-> "unknown"]
    <3>1. heard = {} /\ \A r \in Requests : req[r].status = "absent"
      BY DEF Init
    <3> QED
      BY <3>1 DEF Texts, TextOf
  <2>2. conv.state = "bot_active" /\ said = [r \in Requests |-> 0] /\ human = 0
    BY DEF Init
  <2> QED
    BY <2>1, <2>2 DEF Desk!Init, BotAllowed
<1> QED
  BY <1>1, DeskStep, Invariant, PTL DEF Spec, KeepsItsDesk, Desk!Spec

(* A conversation that a person has, that waits for one or that is blocked  *)
(* does not return to the robot by a message of the customer or by a late   *)
(* failure of the AI, but only by a button: the desk has no such step.      *)
THEOREM ControlSafety == Spec => HumanKeepsControl
<1>1. ASSUME Desk!Next, conv.state \notin BotAllowed, conv'.state # conv.state
      PROVE  human' = human + 1
  BY <1>1 DEF Desk!Next, Desk!Converse, Desk!Attend, Desk!Hear, Desk!Accept,
              Desk!Forget, Desk!Answer, Desk!DropInSilence
<1>2. [Desk!Next]_<<conv.state, Texts, said, human>>
          => [conv.state \notin BotAllowed /\ conv'.state # conv.state
                 => human' = human + 1]_vars
  BY <1>1
<1>3. IInv /\ [Next]_vars
          => [conv.state \notin BotAllowed /\ conv'.state # conv.state
                 => human' = human + 1]_vars
  BY <1>2, DeskStep
<1> QED
  BY <1>3, Invariant, PTL DEF Spec, HumanKeepsControl

=============================================================================
