---------------------------- MODULE InboxProofs ----------------------------
(***************************************************************************)
(* Machine-checked proofs about the commitment controller, for every       *)
(* number of events, every event stream and every set of workers,          *)
(* resources, plans and replies.                                           *)
(***************************************************************************)
EXTENDS Inbox, TLAPS

-----------------------------------------------------------------------------
(***************************************************************************)
(* What each operation writes into a request, and what it leaves alone.    *)
(***************************************************************************)

(* The part of a request that only planning and classification change. *)
SamePlan(q, r) ==
  q.deps = r.deps /\ q.resources = r.resources /\ q.suggestion = r.suggestion

(* The part that the approval dialogue changes. *)
SameDialogue(q, r) ==
  q.question = r.question /\ q.delivery = r.delivery /\ q.declined = r.declined

LEMMA StartedFacts ==
  ASSUME NEW r \in Request, NEW w \in Workers, NEW a \in Nat
  PROVE  /\ Started(r, w, a) \in Request
         /\ Started(r, w, a).status = "running"
         /\ Started(r, w, a).claim = a /\ Started(r, w, a).worker = w
         /\ Started(r, w, a).attempt = a /\ Started(r, w, a).reply = r.reply
         /\ SamePlan(Started(r, w, a), r) /\ SameDialogue(Started(r, w, a), r)
BY DEF Started, Request, Status, SamePlan, SameDialogue

LEMMA GivenBackFacts ==
  ASSUME NEW r \in Request, NEW t \in Status
  PROVE  /\ GivenBack(r, t) \in Request
         /\ GivenBack(r, t).status = t
         /\ GivenBack(r, t).claim = 0 /\ GivenBack(r, t).worker = NoWorker
         /\ GivenBack(r, t).attempt = r.attempt
         /\ GivenBack(r, t).reply = r.reply
         /\ SamePlan(GivenBack(r, t), r) /\ SameDialogue(GivenBack(r, t), r)
BY DEF GivenBack, Request, SamePlan, SameDialogue

LEMMA AnsweredFacts ==
  ASSUME NEW r \in Request, NEW text \in Texts
  PROVE  /\ Answered(r, text) \in Request
         /\ Answered(r, text).status = "reply_pending"
         /\ Answered(r, text).claim = r.claim
         /\ Answered(r, text).worker = r.worker
         /\ Answered(r, text).attempt = r.attempt
         /\ Answered(r, text).reply = text
         /\ SamePlan(Answered(r, text), r) /\ SameDialogue(Answered(r, text), r)
BY DEF Answered, Request, Status, SamePlan, SameDialogue

LEMMA AskedFacts ==
  ASSUME NEW r \in Request, NEW q \in Nat
  PROVE  /\ Asked(r, q) \in Request
         /\ Asked(r, q).question = q /\ Asked(r, q).delivery = "pending"
         /\ Asked(r, q).declined = r.declined
         /\ Asked(r, q).status = r.status /\ Asked(r, q).claim = r.claim
         /\ Asked(r, q).worker = r.worker /\ Asked(r, q).attempt = r.attempt
         /\ Asked(r, q).reply = r.reply /\ SamePlan(Asked(r, q), r)
BY DEF Asked, Request, SamePlan

LEMMA AckedFacts ==
  ASSUME NEW r \in Request
  PROVE  /\ Acked(r) \in Request
         /\ r.status \in {"completed", "declined"} => Acked(r) = r
         /\ r.status \notin {"completed", "declined"} =>
              /\ Acked(r).status = IF r.declined THEN "declined" ELSE "completed"
              /\ Acked(r).claim = 0 /\ Acked(r).worker = NoWorker
              /\ Acked(r).attempt = r.attempt /\ Acked(r).reply = NoText
              /\ SamePlan(Acked(r), r) /\ SameDialogue(Acked(r), r)
BY DEF Acked, Request, Status, SamePlan, SameDialogue

LEMMA ShownFacts ==
  ASSUME NEW r \in Request
  PROVE  /\ Shown(r) \in Request
         /\ Shown(r).status = r.status /\ Shown(r).claim = r.claim
         /\ Shown(r).worker = r.worker /\ Shown(r).attempt = r.attempt
         /\ Shown(r).reply = r.reply /\ SamePlan(Shown(r), r)
         /\ Shown(r).question = r.question /\ Shown(r).declined = r.declined
BY DEF Shown, Request, SamePlan

LEMMA ResolvedFacts ==
  ASSUME NEW r \in Request, NEW action \in {"approve", "decline", "answer"}
  PROVE  LET q == Resolved(r, action) IN
         /\ q \in Request
         /\ q.claim = r.claim /\ q.worker = r.worker /\ q.attempt = r.attempt
         /\ q.question = r.question /\ SamePlan(q, r)
         /\ action = "decline" =>
              q.status = "reply_pending" /\ q.reply = DeclineText /\ q.declined
         /\ action # "decline" => q.status = "ready" /\ q.reply = r.reply
BY DEF Resolved, Request, Status, SamePlan

LEMMA RecoveredFacts ==
  ASSUME NEW r \in Request, NEW action \in {"resume", "cancel"}
  PROVE  LET q == Recovered(r, action) IN
         /\ q \in Request
         /\ q.status = IF action = "cancel" THEN "cancelled" ELSE "ready"
         /\ q.claim = 0 /\ q.worker = NoWorker /\ q.attempt = r.attempt
         /\ q.reply = r.reply /\ q.question = r.question /\ SamePlan(q, r)
BY DEF Recovered, GivenBack, Request, Status, SamePlan

LEMMA PlannedFacts ==
  ASSUME NEW r \in Request, NEW D \in SUBSET Seqs, NEW R \in SUBSET Resources
  PROVE  LET q == Planned(r, D, R) IN
         /\ q \in Request
         /\ q.status = r.status /\ q.claim = r.claim /\ q.worker = r.worker
         /\ q.attempt = r.attempt /\ q.reply = r.reply
         /\ q.suggestion = r.suggestion /\ SameDialogue(q, r)
BY DEF Planned, Request, SameDialogue

LEMMA MarkFacts ==
  ASSUME NEW r \in Request, NEW key \in Nat
  PROVE  \A q \in {Undelivered(r), Annotated(r, key), Reopened(r), Cancelled(r)} :
         /\ q \in Request
         /\ q.claim = r.claim /\ q.worker = r.worker /\ q.attempt = r.attempt
         /\ q.reply = r.reply /\ SameDialogue(q, r)
         /\ q.deps = r.deps /\ q.resources = r.resources
<1> DEFINE P(q) ==
         /\ q \in Request
         /\ q.claim = r.claim /\ q.worker = r.worker /\ q.attempt = r.attempt
         /\ q.reply = r.reply /\ SameDialogue(q, r)
         /\ q.deps = r.deps /\ q.resources = r.resources
<1>1. P(Undelivered(r)) BY DEF Undelivered, Request, SameDialogue
<1>2. P(Annotated(r, key)) BY DEF Annotated, Request, SameDialogue
<1>3. P(Reopened(r)) BY DEF Reopened, Request, Status, SameDialogue
<1>4. P(Cancelled(r)) BY DEF Cancelled, Request, Status, SameDialogue
<1> QED BY <1>1, <1>2, <1>3, <1>4

LEMMA MarkStatus ==
  ASSUME NEW r \in Request, NEW key \in Nat
  PROVE  /\ Undelivered(r).status = r.status
         /\ Undelivered(r).suggestion = r.suggestion
         /\ Annotated(r, key).status = r.status
         /\ Annotated(r, key).suggestion = key
         /\ Cancelled(r).status = "cancelled"
         /\ Cancelled(r).suggestion = r.suggestion
         /\ Reopened(r).suggestion = r.suggestion
         /\ Reopened(r).status = IF r.status = "running" THEN "needs_recovery"
                                 ELSE r.status
BY DEF Undelivered, Annotated, Cancelled, Reopened, Request

LEMMA NewRequestFacts ==
  ASSUME ConstantsAssumption, NEW s \in Seqs, NEW t \in Status
  PROVE  LET q == NewRequest(s, t) IN
         /\ q \in Request
         /\ q.status = t /\ q.claim = 0 /\ q.worker = NoWorker /\ q.attempt = 0
         /\ q.reply = NoText /\ q.question = 0 /\ q.deps = {}
         /\ Event[s].kind = "semantic" => q.suggestion = Event[s].key
BY DEF NewRequest, Request, EventRecord, ConstantsAssumption

LEMMA SaveFacts ==
  ASSUME TypeOK, NEW s \in Seqs, NEW r \in Request, SaveRequest(s, r)
  PROVE  /\ req' \in [Seqs -> Request]
         /\ req'[s] = r
         /\ \A t \in Seqs : t # s => req'[t] = req[t]
BY DEF TypeOK, SaveRequest

-----------------------------------------------------------------------------
LEMMA InitInv == ConstantsAssumption /\ Init => IInv
<1> SUFFICES ASSUME ConstantsAssumption, Init PROVE IInv OBVIOUS
<1>1. /\ req \in [Seqs -> Request]
      /\ \A s \in Seqs :
           /\ req[s].status = "absent" /\ req[s].claim = 0
           /\ req[s].reply = NoText /\ req[s].attempt = 0
           /\ Event[s].kind = "semantic" => req[s].suggestion = Event[s].key
  BY NewRequestFacts DEF Init, Status
<1>2. TypeOK BY <1>1 DEF Init, TypeOK, ConstantsAssumption
<1>3. SavedStateValid BY <1>1 DEF SavedStateValid, Present
<1>4. ClaimDiscipline BY <1>1 DEF ClaimDiscipline, Present
<1>5. ClaimedExclusive /\ ClaimedAfterDependencies
  BY <1>1 DEF ClaimedExclusive, ClaimedAfterDependencies, Claimed
<1>6. NoticeKeepsKey BY <1>1 DEF NoticeKeepsKey
<1>7. ExecutionOwned /\ UngrantedUnclaimed /\ SentIsSaved /\ StoredWasSent
  BY DEF Init, ExecutionOwned, UngrantedUnclaimed, SentIsSaved, StoredWasSent
<1> QED BY <1>2, <1>3, <1>4, <1>5, <1>6, <1>7 DEF IInv

(***************************************************************************)
(* A step that rewrites one request, and neither touches the wire nor the  *)
(* cursor, preserves IInv if the new record is consistent in itself, does  *)
(* not acquire a claim, does not un-complete a dependency and does not     *)
(* drop a reply that may be on its way.                                    *)
(***************************************************************************)

(* The part of SavedStateValid and ClaimDiscipline that is about one record. *)
Consistent(r) ==
  /\ r.status # "absent"
  /\ r.status = "running" => r.claim # 0
  /\ r.status \in SuspendedStatus => r.question # 0 /\ r.claim = 0
  /\ r.claim # 0 => r.worker # NoWorker
  /\ r.reply # NoText <=> r.status = "reply_pending"
  /\ r.claim # 0 =>
       r.claim = r.attempt
       /\ r.status \in {"running", "needs_recovery", "reply_pending"}
  /\ r.status = "needs_recovery" => r.claim # 0

LEMMA UpdateInv ==
  ASSUME ConstantsAssumption, IInv, NEW s \in Seqs, NEW r \in Request,
         SaveRequest(s, r),
         UNCHANGED <<up, after, maxWorkers, allowed, sent, srv>>,
         posting' = posting \/ posting' = 0,
         Present(s),
         Consistent(r),
         r.claim # 0 => r.claim = req[s].claim /\ SamePlan(r, req[s]),
         req[s].status = "completed" => r.status = "completed",
         r.suggestion = req[s].suggestion,
         \/ r.reply = req[s].reply /\ req[s].status \notin {"completed", "declined"}
         \/ r.reply = req[s].reply /\ r.status = req[s].status
         \/ req[s].reply = NoText /\ req[s].status \notin {"completed", "declined"}
         \/ /\ r.status \in {"completed", "declined"}
            /\ \A x \in sent : x[1] = s => srv[s] = x[2],
         live' \subseteq live,
         \A x \in live' : x[1] = s =>
           r.claim = req[s].claim /\ r.status \in {"running", "needs_recovery"},
         ungranted' \subseteq Seqs \X Nat,
         \A x \in ungranted' : x[1] # s => x \in ungranted,
         \A x \in ungranted' : x[1] = s =>
           /\ r.question = x[2] /\ r.claim = 0
           /\ r.status \in {"awaiting_approval", "reply_pending", "declined"}
           /\ r.status # "awaiting_approval" => r.declined
  PROVE  IInv'
<1> USE DEF IInv
<1>1. /\ req' \in [Seqs -> Request]
      /\ req'[s] = r
      /\ \A t \in Seqs : t # s => req'[t] = req[t]
  BY SaveFacts
<1>2. TypeOK' BY <1>1 DEF TypeOK, ConstantsAssumption
<1>3. SavedStateValid'
  BY <1>1 DEF SavedStateValid, Present, Consistent
<1>4. ClaimDiscipline'
  BY <1>1 DEF ClaimDiscipline, Consistent, Present
<1>5. ExecutionOwned'
  BY <1>1 DEF ExecutionOwned, TypeOK
<1>6. \A t \in Claimed' : t \in Claimed /\ SamePlan(req'[t], req[t])
  BY <1>1 DEF Claimed, SamePlan
<1>7. ClaimedExclusive'
  BY <1>6 DEF ClaimedExclusive, SharesResource, SameNotice, Lifecycle, SamePlan
<1>8. ClaimedAfterDependencies'
  BY <1>1, <1>6 DEF ClaimedAfterDependencies, Lifecycle, SamePlan, TypeOK, Request, Claimed
<1>9. NoticeKeepsKey' BY <1>1 DEF NoticeKeepsKey
<1>10. UngrantedUnclaimed' BY <1>1 DEF UngrantedUnclaimed
<1>11. SentIsSaved'
  BY <1>1 DEF SentIsSaved, TypeOK, ConstantsAssumption
<1>12. StoredWasSent' BY DEF StoredWasSent
<1> QED BY <1>2, <1>3, <1>4, <1>5, <1>7, <1>8, <1>9, <1>10, <1>11, <1>12

(* The holder of the claim is the only execution of its request. *)
LEMMA HolderAlone ==
  ASSUME IInv, NEW s \in Seqs, NEW a, req[s].claim = a
  PROVE  \A x \in live \ {<<s, a>>} : x[1] # s
BY DEF IInv, TypeOK, ExecutionOwned

(* Nothing executes a request without a claim. *)
LEMMA UnclaimedIdle ==
  ASSUME IInv, NEW s \in Seqs,
         \/ req[s].claim = 0
         \/ req[s].status \notin {"running", "needs_recovery"}
  PROVE  \A x \in live : x[1] # s
<1> SUFFICES ASSUME NEW x \in live, x[1] = s PROVE FALSE OBVIOUS
<1>1. req[s].claim = x[2] /\ req[s].status \in {"running", "needs_recovery"}
  BY DEF IInv, ExecutionOwned
<1>2. req[s].claim # 0
  BY <1>1 DEF IInv, SavedStateValid, ClaimDiscipline, Present
<1> QED BY <1>1, <1>2

LEMMA RequestType ==
  ASSUME IInv, NEW s \in Seqs
  PROVE  req[s] \in Request
BY DEF IInv, TypeOK

(* A claimed request was not left waiting for approval. *)
LEMMA ClaimedGranted ==
  ASSUME IInv, NEW s \in Seqs,
         \/ req[s].claim # 0
         \/ req[s].status \notin {"awaiting_approval", "reply_pending", "declined"}
  PROVE  \A x \in ungranted : x[1] # s
BY DEF IInv, UngrantedUnclaimed

LEMMA ReleaseInv ==
  ASSUME ConstantsAssumption, IInv, NEW s \in Seqs, NEW a \in Nat, Release(s, a)
  PROVE  IInv'
<1> DEFINE r == GivenBack(req[s], "ready")
<1>1. req[s] \in Request BY RequestType
<1>2. /\ req[s].claim = a /\ a # 0 /\ req[s].reply = NoText
      /\ SaveRequest(s, r) /\ live' = live \ {<<s, a>>}
      /\ UNCHANGED <<up, after, maxWorkers, allowed, posting, sent, srv, ungranted>>
  BY DEF Release, HoldsClaim
<1>3. /\ r \in Request /\ r.status = "ready" /\ r.claim = 0
      /\ r.reply = NoText /\ r.suggestion = req[s].suggestion
  BY <1>1, <1>2, GivenBackFacts DEF Status, SamePlan
<1>4. /\ req[s].status \in {"running", "needs_recovery"} /\ Present(s)
  BY <1>2 DEF IInv, ClaimDiscipline, Present
<1>5. /\ \A x \in live' : x[1] # s
      /\ \A x \in ungranted : x[1] # s
  BY <1>2, HolderAlone, ClaimedGranted
<1>6. Consistent(r) BY <1>3 DEF Consistent, SuspendedStatus
<1> HIDE DEF r
<1> QED BY <1>2, <1>3, <1>4, <1>5, <1>6, UpdateInv DEF IInv, TypeOK

LEMMA AckInv ==
  ASSUME ConstantsAssumption, IInv, NEW s \in Seqs, NEW a \in Nat, Ack(s, a)
  PROVE  IInv'
<1> DEFINE r == Acked(req[s])
<1>1. req[s] \in Request BY RequestType
<1>2. /\ req[s].claim = a /\ req[s].reply = NoText /\ Present(s)
      /\ req[s].status \notin SuspendedStatus \cup {"needs_recovery"}
      /\ SaveRequest(s, r) /\ live' = live \ {<<s, a>>}
      /\ UNCHANGED <<up, after, maxWorkers, allowed, posting, sent, srv, ungranted>>
  BY DEF Ack, CheckRequestClaim
<1>3. \A x \in live' : x[1] # s BY <1>2, HolderAlone
<1>4. CASE req[s].status \in {"completed", "declined"}
  <2>1. r = req[s] BY <1>1, <1>4, AckedFacts
  <2>2. Consistent(req[s])
    BY <1>2 DEF IInv, SavedStateValid, ClaimDiscipline, Consistent, Present
  <2>3. /\ \A x \in ungranted' : x[1] = s =>
             /\ req[s].question = x[2] /\ req[s].claim = 0
             /\ req[s].status \in {"awaiting_approval", "reply_pending", "declined"}
             /\ req[s].status # "awaiting_approval" => req[s].declined
    BY <1>2 DEF IInv, UngrantedUnclaimed
  <2> HIDE DEF r
  <2> QED BY <1>1, <1>2, <1>3, <2>1, <2>2, <2>3, UpdateInv DEF IInv, TypeOK, SamePlan
<1>5. CASE req[s].status \notin {"completed", "declined"}
  <2>1. /\ r \in Request /\ r.status \in {"completed", "declined"} /\ r.claim = 0
        /\ r.reply = NoText /\ r.suggestion = req[s].suggestion
    BY <1>1, <1>5, AckedFacts DEF SamePlan
  <2>2. \A x \in ungranted : x[1] # s
    <3>1. req[s].status \notin {"awaiting_approval", "reply_pending", "declined"}
      BY <1>2, <1>5 DEF SuspendedStatus, IInv, ClaimDiscipline
    <3> QED BY <3>1, ClaimedGranted
  <2>3. Consistent(r) BY <2>1 DEF Consistent, SuspendedStatus
  <2> HIDE DEF r
  <2> QED BY <1>2, <1>3, <1>5, <2>1, <2>2, <2>3, UpdateInv DEF IInv, TypeOK
<1> QED BY <1>4, <1>5

LEMMA ReplyInv ==
  ASSUME ConstantsAssumption, IInv, NEW s \in Seqs, NEW a \in Nat,
         NEW text \in Texts, Reply(s, a, text)
  PROVE  IInv'
<1> DEFINE r == Answered(req[s], text)
<1>1. req[s] \in Request BY RequestType
<1>2. /\ req[s].claim = a /\ a # 0 /\ req[s].reply = NoText
      /\ req[s].status \notin SuspendedStatus \cup {"needs_recovery"}
      /\ SaveRequest(s, r) /\ live' = live \ {<<s, a>>}
      /\ UNCHANGED <<up, after, maxWorkers, allowed, posting, sent, srv, ungranted>>
  BY DEF Reply, CheckRequestClaim
<1>3. /\ r \in Request /\ r.status = "reply_pending" /\ r.claim = a
      /\ r.reply = text /\ SamePlan(r, req[s]) /\ r.suggestion = req[s].suggestion
      /\ r.worker = req[s].worker /\ r.attempt = req[s].attempt
  BY <1>1, <1>2, AnsweredFacts DEF SamePlan
<1>4. /\ req[s].status \in {"running", "needs_recovery"} /\ Present(s)
      /\ a = req[s].attempt
  BY <1>2 DEF IInv, ClaimDiscipline, Present
<1>5. /\ \A x \in live' : x[1] # s
      /\ \A x \in ungranted : x[1] # s
  BY <1>2, HolderAlone, ClaimedGranted
<1>6. Consistent(r)
  BY <1>2, <1>3, <1>4
  DEF Consistent, SuspendedStatus, ConstantsAssumption, IInv, SavedStateValid
<1> HIDE DEF r
<1> QED BY <1>2, <1>3, <1>4, <1>5, <1>6, UpdateInv DEF IInv, TypeOK

LEMMA OutcomeInv ==
  ASSUME ConstantsAssumption, IInv, NEW s \in Seqs, NEW a \in Nat,
         NEW status \in Outcomes, Outcome(s, a, status)
  PROVE  IInv'
<1> DEFINE r == Reported(req[s], a, status)
<1>1. req[s] \in Request BY RequestType
<1>2. /\ req[s].claim = a /\ a # 0 /\ req[s].reply = NoText
      /\ SaveRequest(s, r)
      /\ UNCHANGED <<up, after, maxWorkers, allowed, posting, sent, srv>>
  BY DEF Outcome, HoldsClaim
<1>3. /\ req[s].status \in {"running", "needs_recovery"} /\ Present(s)
      /\ a = req[s].attempt /\ req[s].worker # NoWorker
  BY <1>2 DEF IInv, ClaimDiscipline, SavedStateValid, Present
<1>4. \A x \in ungranted : x[1] # s BY <1>2, ClaimedGranted
<1>5. CASE status = "needs_recovery"
  <2>1. /\ r \in Request /\ r.status = "needs_recovery" /\ r.claim = a
        /\ r.reply = NoText /\ SamePlan(r, req[s])
        /\ r.suggestion = req[s].suggestion
        /\ r.worker = req[s].worker /\ r.attempt = req[s].attempt
    BY <1>1, <1>2, <1>5 DEF Reported, Request, Status, SamePlan
  <2>2. Consistent(r)
    BY <1>2, <1>3, <2>1 DEF Consistent, SuspendedStatus
  <2>3. live' = live /\ ungranted' = ungranted BY <1>5 DEF Outcome
  <2> HIDE DEF r
  <2> QED BY <1>2, <1>3, <1>4, <2>1, <2>2, <2>3, UpdateInv DEF IInv, TypeOK
<1>6. CASE status = "failed"
  <2>1. /\ r \in Request /\ r.status = "failed" /\ r.claim = 0
        /\ r.reply = NoText /\ r.suggestion = req[s].suggestion
    BY <1>1, <1>2, <1>6, GivenBackFacts DEF Reported, Status, SamePlan
  <2>2. Consistent(r) BY <2>1 DEF Consistent, SuspendedStatus
  <2>3. live' = live \ {<<s, a>>} /\ ungranted' = ungranted
    BY <1>6 DEF Outcome
  <2>4. \A x \in live' : x[1] # s BY <1>2, <2>3, HolderAlone
  <2> HIDE DEF r
  <2> QED BY <1>2, <1>3, <1>4, <2>1, <2>2, <2>3, <2>4, UpdateInv DEF IInv, TypeOK
<1>7. CASE status \in SuspendedStatus
  <2>1. Asked(req[s], a) \in Request /\ status \in Status
    BY <1>1, <1>7, AskedFacts DEF Status
  <2>2. r = GivenBack(Asked(req[s], a), status)
    BY <1>7 DEF Reported, SuspendedStatus
  <2>3. /\ r \in Request /\ r.status = status /\ r.claim = 0
        /\ r.reply = NoText /\ r.suggestion = req[s].suggestion
        /\ r.question = a
    <3> DEFINE q == Asked(req[s], a)
    <3>1. q.reply = NoText /\ q.suggestion = req[s].suggestion /\ q.question = a
      BY <1>1, <1>2, AskedFacts DEF SamePlan
    <3>2. q \in Request /\ r = GivenBack(q, status) BY <2>1, <2>2
    <3> HIDE DEF q, r
    <3> QED BY <2>1, <3>1, <3>2, GivenBackFacts DEF SamePlan, SameDialogue
  <2>4. Consistent(r) BY <1>2, <1>7, <2>3 DEF Consistent, SuspendedStatus
  <2>5. /\ live' = live \ {<<s, a>>}
        /\ ungranted' = IF status = "awaiting_approval"
                        THEN ungranted \cup {<<s, a>>} ELSE ungranted
    BY <1>7 DEF Outcome, SuspendedStatus
  <2>6. \A x \in live' : x[1] # s BY <1>2, <2>5, HolderAlone
  <2>7. /\ ungranted' \subseteq Seqs \X Nat
        /\ \A x \in ungranted' : x[1] # s => x \in ungranted
        /\ \A x \in ungranted' : x[1] = s =>
             x[2] = a /\ status = "awaiting_approval"
    <3>1. CASE status = "awaiting_approval"
      <4>1. ungranted' = ungranted \cup {<<s, a>>} BY <2>5, <3>1
      <4>2. ungranted \subseteq Seqs \X Nat /\ <<s, a>> \in Seqs \X Nat
        BY DEF IInv, TypeOK
      <4>3. <<s, a>>[1] = s /\ <<s, a>>[2] = a OBVIOUS
      <4> HIDE <2>5
      <4> QED BY <1>4, <3>1, <4>1, <4>2, <4>3
    <3>2. CASE status # "awaiting_approval"
      BY <1>4, <2>5, <3>2 DEF IInv, TypeOK
    <3> QED BY <3>1, <3>2
  <2> HIDE DEF r
  <2> QED BY <1>2, <1>3, <1>4, <2>3, <2>4, <2>5, <2>6, <2>7, UpdateInv
<1> QED BY <1>5, <1>6, <1>7 DEF ConstantsAssumption

LEMMA WorkerStopsInv ==
  ASSUME IInv, NEW s \in Seqs, NEW a \in Nat, WorkerStops(s, a)
  PROVE  IInv'
<1>1. /\ live' \subseteq live
      /\ UNCHANGED <<up, after, req, maxWorkers, allowed, posting, sent, srv, ungranted>>
  BY DEF WorkerStops
<1>2. TypeOK' /\ ExecutionOwned' BY <1>1 DEF IInv, TypeOK, ExecutionOwned
<1>3. SavedStateValid' /\ ClaimDiscipline' /\ NoticeKeepsKey'
  BY <1>1 DEF IInv, SavedStateValid, ClaimDiscipline, NoticeKeepsKey, Present
<1>4. ClaimedExclusive' /\ ClaimedAfterDependencies'
  BY <1>1 DEF IInv, ClaimedExclusive, ClaimedAfterDependencies, Claimed,
              SharesResource, SameNotice, Lifecycle
<1>5. UngrantedUnclaimed' /\ SentIsSaved' /\ StoredWasSent'
  BY <1>1 DEF IInv, UngrantedUnclaimed, SentIsSaved, StoredWasSent
<1> QED BY <1>2, <1>3, <1>4, <1>5 DEF IInv

LEMMA PresentedInv ==
  ASSUME ConstantsAssumption, IInv, NEW s \in Seqs, NEW q \in Nat, Presented(s, q)
  PROVE  IInv'
<1> DEFINE r == Shown(req[s])
<1>1. req[s] \in Request BY RequestType
<1>2. /\ SaveRequest(s, r) /\ live' = live /\ ungranted' = ungranted
      /\ UNCHANGED <<up, after, maxWorkers, allowed, posting, sent, srv>>
  BY DEF Presented
<1>3. /\ r \in Request /\ r.status = req[s].status /\ r.claim = req[s].claim
      /\ r.reply = req[s].reply /\ SamePlan(r, req[s])
      /\ r.suggestion = req[s].suggestion
      /\ r.worker = req[s].worker /\ r.attempt = req[s].attempt
      /\ r.question = req[s].question /\ r.declined = req[s].declined
  BY <1>1, ShownFacts DEF SamePlan
<1>4. Present(s) /\ Consistent(r)
  BY <1>3 DEF Presented, IInv, SavedStateValid, ClaimDiscipline, Present, Consistent
<1>5. /\ \A x \in live : x[1] = s =>
           r.claim = req[s].claim /\ r.status \in {"running", "needs_recovery"}
      /\ \A x \in ungranted : x[1] = s =>
           /\ r.question = x[2] /\ r.claim = 0
           /\ r.status \in {"awaiting_approval", "reply_pending", "declined"}
           /\ r.status # "awaiting_approval" => r.declined
  BY <1>3 DEF IInv, ExecutionOwned, UngrantedUnclaimed
<1> HIDE DEF r
<1> QED BY <1>2, <1>3, <1>4, <1>5, UpdateInv DEF IInv, TypeOK

LEMMA ResolveInv ==
  ASSUME ConstantsAssumption, IInv, NEW s \in Seqs, NEW q \in Nat,
         NEW action \in {"approve", "decline", "answer"}, Resolve(s, q, action)
  PROVE  IInv'
<1> DEFINE r == Resolved(req[s], action)
<1>1. req[s] \in Request BY RequestType
<1>2. /\ req[s].status \in SuspendedStatus /\ req[s].question = q /\ q # 0
      /\ SaveRequest(s, r) /\ live' = live /\ ungranted' \subseteq ungranted
      /\ action = "approve" => ungranted' = ungranted \ {<<s, q>>}
      /\ action = "answer" => req[s].status = "awaiting_information"
      /\ UNCHANGED <<up, after, maxWorkers, allowed, posting, sent, srv>>
  BY DEF Resolve
<1>3. /\ Present(s) /\ req[s].claim = 0 /\ req[s].reply = NoText
      /\ req[s].status \notin {"completed", "declined"}
  BY <1>2 DEF SuspendedStatus, Present, IInv, SavedStateValid, ClaimDiscipline
<1>4. /\ r \in Request /\ r.claim = 0 /\ r.suggestion = req[s].suggestion
      /\ r.question = q
      /\ action = "decline" =>
           r.status = "reply_pending" /\ r.reply = DeclineText /\ r.declined
      /\ action # "decline" => r.status = "ready" /\ r.reply = NoText
  BY <1>1, <1>2, <1>3, ResolvedFacts DEF SamePlan
<1> HIDE DEF r
<1>5. Consistent(r)
  BY <1>2, <1>4 DEF Consistent, SuspendedStatus, ConstantsAssumption
<1>6. \A x \in live : x[1] # s BY <1>3, UnclaimedIdle
<1>7. \A x \in ungranted' : x[1] = s =>
        /\ x[2] = q
        /\ action = "decline"
  <2> SUFFICES ASSUME NEW x \in ungranted', x[1] = s
               PROVE  x[2] = q /\ action = "decline"
    OBVIOUS
  <2>1. x \in Seqs \X Nat /\ x[2] = q /\ req[s].status = "awaiting_approval"
    BY <1>2 DEF IInv, TypeOK, UngrantedUnclaimed, SuspendedStatus
  <2>2. x = <<s, q>> BY <2>1
  <2>3. action # "approve" BY <1>2, <2>2
  <2>4. action # "answer" BY <1>2, <2>1
  <2> QED BY <2>1, <2>3, <2>4
<1> QED BY <1>2, <1>3, <1>4, <1>5, <1>6, <1>7, UpdateInv DEF IInv, TypeOK

LEMMA RecoverInv ==
  ASSUME ConstantsAssumption, IInv, NEW s \in Seqs,
         NEW action \in {"resume", "cancel"}, NEW stopped \in BOOLEAN,
         Recover(s, action, stopped)
  PROVE  IInv'
<1> DEFINE r == Recovered(req[s], action)
<1>1. req[s] \in Request BY RequestType
<1>2. /\ Present(s) /\ req[s].reply = NoText /\ ~ Terminal(s)
      /\ req[s].claim # 0 => LiveOf(s) = {}
      /\ req[s].status # "awaiting_approval"
      /\ SaveRequest(s, r)
      /\ UNCHANGED <<up, after, maxWorkers, allowed, posting, sent, srv, live, ungranted>>
  BY DEF Recover
<1>3. /\ r \in Request /\ r.status \in {"cancelled", "ready"} /\ r.claim = 0
      /\ r.reply = NoText /\ r.suggestion = req[s].suggestion
  BY <1>1, <1>2, RecoveredFacts DEF SamePlan
<1> HIDE DEF r
<1>4. Consistent(r) BY <1>3 DEF Consistent, SuspendedStatus
<1>5. \A x \in live : x[1] # s BY <1>2, UnclaimedIdle DEF LiveOf
<1>6. req[s].status \notin {"awaiting_approval", "reply_pending", "declined", "completed"}
  BY <1>2 DEF Terminal, IInv, ClaimDiscipline
<1>7. \A x \in ungranted : x[1] # s BY <1>6, ClaimedGranted
<1> QED BY <1>2, <1>3, <1>4, <1>5, <1>6, <1>7, UpdateInv DEF IInv, TypeOK

LEMMA PlanInv ==
  ASSUME ConstantsAssumption, IInv, NEW s \in Seqs, NEW D \in SUBSET Seqs,
         NEW R \in SUBSET Resources, Plan(s, D, R)
  PROVE  IInv'
<1> DEFINE r == Planned(req[s], D, R)
<1>1. req[s] \in Request BY RequestType
<1>2. /\ req[s].status = "ready" /\ SaveRequest(s, r)
      /\ UNCHANGED <<up, after, maxWorkers, allowed, posting, sent, srv, live, ungranted>>
  BY DEF Plan
<1>3. Present(s) /\ req[s].claim = 0 /\ req[s].reply = NoText
  BY <1>2 DEF Present, IInv, ClaimDiscipline
<1>4. /\ r \in Request /\ r.status = "ready" /\ r.claim = 0
      /\ r.reply = NoText /\ r.suggestion = req[s].suggestion
  BY <1>1, <1>2, <1>3, PlannedFacts
<1> HIDE DEF r
<1>5. Consistent(r) BY <1>4 DEF Consistent, SuspendedStatus
<1>6. /\ \A x \in live : x[1] # s
      /\ \A x \in ungranted : x[1] # s
  BY <1>2, <1>3, UnclaimedIdle, ClaimedGranted
<1> QED BY <1>2, <1>3, <1>4, <1>5, <1>6, UpdateInv DEF IInv, TypeOK

(***************************************************************************)
(* Steps that leave every request alone.                                   *)
(***************************************************************************)
LEMMA SameRequests ==
  ASSUME IInv, UNCHANGED <<after, req, live, ungranted>>
  PROVE  /\ SavedStateValid' /\ ClaimDiscipline' /\ NoticeKeepsKey'
         /\ ClaimedExclusive' /\ ClaimedAfterDependencies'
         /\ ExecutionOwned' /\ UngrantedUnclaimed'
<1>1. SavedStateValid' /\ ClaimDiscipline' /\ NoticeKeepsKey'
  BY DEF IInv, SavedStateValid, ClaimDiscipline, NoticeKeepsKey, Present
<1>2. ClaimedExclusive' /\ ClaimedAfterDependencies'
  BY DEF IInv, ClaimedExclusive, ClaimedAfterDependencies, Claimed,
         SharesResource, SameNotice, Lifecycle
<1>3. ExecutionOwned' /\ UngrantedUnclaimed'
  BY DEF IInv, ExecutionOwned, UngrantedUnclaimed
<1> QED BY <1>1, <1>2, <1>3

LEMMA PolicyInv ==
  ASSUME ConstantsAssumption, IInv, NEW max \in Limits, Policy(max)
  PROVE  IInv'
<1>1. TypeOK' BY DEF IInv, Policy, TypeOK, ConstantsAssumption
<1>2. SentIsSaved' /\ StoredWasSent'
  BY DEF IInv, Policy, SentIsSaved, StoredWasSent
<1> QED BY <1>1, <1>2, SameRequests DEF IInv, Policy

LEMMA CrashInv ==
  ASSUME ConstantsAssumption, IInv, Crash
  PROVE  IInv'
<1>0. up' \in BOOLEAN BY Zenon DEF Crash
<1>1. TypeOK' BY <1>0 DEF IInv, Crash, TypeOK, ConstantsAssumption
<1>2. SentIsSaved' /\ StoredWasSent'
  BY DEF IInv, Crash, SentIsSaved, StoredWasSent
<1> QED BY <1>1, <1>2, SameRequests DEF IInv, Crash

LEMMA DeliverStartInv ==
  ASSUME ConstantsAssumption, IInv, NEW s \in Seqs, DeliverStart(s)
  PROVE  IInv'
<1> DEFINE t == req[s].reply
<1>1. /\ t # NoText /\ posting' = s /\ sent' = sent \cup {<<s, t>>}
      /\ UNCHANGED <<up, after, req, maxWorkers, allowed, srv, live, ungranted>>
  BY DEF DeliverStart
<1>2. t \in Texts \cup {DeclineText}
  BY <1>1, RequestType DEF Request
<1>3. <<s, t>> \in Seqs \X (Texts \cup {DeclineText}) BY <1>2
<1>4. <<s, t>>[1] = s /\ <<s, t>>[2] = t OBVIOUS
<1>5. req[s].status \notin {"completed", "declined"}
  BY <1>1 DEF IInv, ClaimDiscipline
<1>6. \A x \in sent : x[1] = s => x[2] = t
  BY <1>5 DEF IInv, SentIsSaved
<1>7. TypeOK' BY <1>1, <1>3 DEF IInv, TypeOK, Seqs
<1>8. SentIsSaved' BY <1>1, <1>4 DEF IInv, SentIsSaved
<1>9. StoredWasSent'
  <2>1. \A x, y \in sent' : x[1] = y[1] => x[2] = y[2]
    BY <1>1, <1>4, <1>6 DEF IInv, StoredWasSent
  <2>2. \A u \in Seqs : srv'[u] # NoText => <<u, srv'[u]>> \in sent'
    BY <1>1 DEF IInv, StoredWasSent
  <2>3. \E x \in sent' : x[1] = posting' BY <1>1, <1>4
  <2> QED BY <2>1, <2>2, <2>3 DEF StoredWasSent
<1> QED BY <1>1, <1>7, <1>8, <1>9, SameRequests DEF IInv

LEMMA ServerStoreInv ==
  ASSUME ConstantsAssumption, IInv, NEW s \in Seqs,
         NEW text \in Texts \cup {DeclineText}, ServerStore(s, text)
  PROVE  IInv'
<1>1. /\ <<s, text>> \in sent /\ srv[s] = NoText /\ text # NoText
      /\ srv' = [srv EXCEPT ![s] = text]
      /\ UNCHANGED <<up, after, req, maxWorkers, allowed, posting, sent, live, ungranted>>
  BY DEF ServerStore, ConstantsAssumption
<1>2. TypeOK' BY <1>1 DEF IInv, TypeOK
<1>3. /\ srv'[s] = text
      /\ \A u \in Seqs : u # s => srv'[u] = srv[u]
  BY <1>1 DEF IInv, TypeOK
<1>4. SentIsSaved'
  <2> SUFFICES ASSUME NEW x \in sent
               PROVE  \/ req[x[1]].reply = x[2]
                      \/ /\ req[x[1]].status \in {"completed", "declined"}
                         /\ srv'[x[1]] = x[2]
    BY <1>1 DEF SentIsSaved
  <2>1. x[1] \in Seqs /\ x[2] # NoText
    BY DEF IInv, TypeOK, ConstantsAssumption
  <2> QED BY <1>1, <1>3, <2>1 DEF IInv, SentIsSaved
<1>5. StoredWasSent' BY <1>1, <1>3 DEF IInv, StoredWasSent
<1> QED BY <1>1, <1>2, <1>4, <1>5, SameRequests DEF IInv

(***************************************************************************)
(* The end of a post.                                                      *)
(***************************************************************************)

(* A post under way is of a reply that is saved or was acknowledged. *)
LEMMA PostingFacts ==
  ASSUME ConstantsAssumption, IInv, NEW s \in Seqs, posting = s
  PROVE  /\ req[s].status \in {"reply_pending", "completed", "declined"}
         /\ \A x \in live : x[1] # s
<1>1. posting # 0 BY DEF Seqs
<1>2. PICK x \in sent : x[1] = s BY <1>1 DEF IInv, StoredWasSent
<1>3. x[2] # NoText BY DEF IInv, TypeOK, ConstantsAssumption
<1>4. req[s].status \in {"reply_pending", "completed", "declined"}
  BY <1>2, <1>3 DEF IInv, SentIsSaved, ClaimDiscipline
<1> QED BY <1>4, UnclaimedIdle

LEMMA ConsistentRequest ==
  ASSUME IInv, NEW s \in Seqs, Present(s)
  PROVE  Consistent(req[s])
BY DEF IInv, SavedStateValid, ClaimDiscipline, Consistent, Present

LEMMA UngrantedRequest ==
  ASSUME IInv, NEW s \in Seqs
  PROVE  \A x \in ungranted : x[1] = s =>
           /\ req[s].question = x[2] /\ req[s].claim = 0
           /\ req[s].status \in {"awaiting_approval", "reply_pending", "declined"}
           /\ req[s].status # "awaiting_approval" => req[s].declined
BY DEF IInv, UngrantedUnclaimed

(* The part of UpdateInv for a step that ends the post and keeps the record. *)
LEMMA PostEnds ==
  ASSUME ConstantsAssumption, IInv, posting' = 0,
         UNCHANGED <<up, after, req, maxWorkers, allowed, sent, srv, live, ungranted>>
  PROVE  IInv'
<1>1. TypeOK' BY DEF IInv, TypeOK, ConstantsAssumption
<1>2. SentIsSaved' /\ StoredWasSent' BY DEF IInv, SentIsSaved, StoredWasSent
<1> QED BY <1>1, <1>2, SameRequests DEF IInv

LEMMA DeliverDoneInv ==
  ASSUME ConstantsAssumption, IInv, NEW s \in Seqs, NEW saved \in BOOLEAN,
         DeliverDone(s, saved)
  PROVE  IInv'
<1>1. req[s] \in Request /\ req = [req EXCEPT ![s] = req[s]]
  BY RequestType DEF IInv, TypeOK
<1>2. /\ posting = s /\ posting' = 0 /\ srv[s] # NoText
      /\ UNCHANGED <<up, after, maxWorkers, allowed, sent, srv, live, ungranted>>
  BY DEF DeliverDone
<1>3. CASE ~ saved \/ req[s].status \in {"completed", "declined"}
  <2>1. req' = req BY <1>1, <1>3, AckedFacts DEF DeliverDone, SaveRequest
  <2> QED BY <1>2, <2>1, PostEnds
<1>4. CASE saved /\ req[s].status \notin {"completed", "declined"}
  <2> DEFINE r == Acked(req[s])
  <2>1. SaveRequest(s, r) BY <1>4 DEF DeliverDone
  <2>2. req[s].status = "reply_pending" /\ \A x \in live : x[1] # s
    BY <1>2, <1>4, PostingFacts
  <2>3. /\ r \in Request /\ r.claim = 0
        /\ r.status = IF req[s].declined THEN "declined" ELSE "completed"
        /\ r.reply = NoText /\ r.suggestion = req[s].suggestion
        /\ r.question = req[s].question /\ r.declined = req[s].declined
    BY <1>1, <1>4, AckedFacts DEF SamePlan, SameDialogue
  <2> HIDE DEF r
  <2>4. Consistent(r) BY <2>3 DEF Consistent, SuspendedStatus
  <2>5. \A x \in ungranted : x[1] = s =>
          /\ r.question = x[2] /\ r.claim = 0 /\ r.status = "declined"
          /\ r.declined
    BY <2>2, <2>3, UngrantedRequest
  <2>6. \A x \in sent : x[1] = s => srv[s] = x[2]
    BY <1>2 DEF IInv, StoredWasSent
  <2>7. Present(s) BY <2>2 DEF Present
  <2> QED BY <1>2, <2>1, <2>2, <2>3, <2>4, <2>5, <2>6, <2>7, UpdateInv
          DEF IInv, TypeOK
<1> QED BY <1>3, <1>4

LEMMA DeliverErrorInv ==
  ASSUME ConstantsAssumption, IInv, NEW s \in Seqs, NEW saved \in BOOLEAN,
         DeliverError(s, saved)
  PROVE  IInv'
<1>1. req[s] \in Request /\ req = [req EXCEPT ![s] = req[s]]
  BY RequestType DEF IInv, TypeOK
<1>2. /\ posting = s /\ posting' = 0
      /\ UNCHANGED <<up, after, maxWorkers, allowed, sent, srv, live, ungranted>>
  BY DEF DeliverError
<1>3. CASE ~ (saved /\ req[s].reply # NoText)
  <2>1. req' = req BY <1>1, <1>3 DEF DeliverError, SaveRequest
  <2> QED BY <1>2, <2>1, PostEnds
<1>4. CASE saved /\ req[s].reply # NoText
  <2> DEFINE r == Undelivered(req[s])
  <2>1. SaveRequest(s, r) BY <1>4 DEF DeliverError
  <2>2. req[s].status = "reply_pending" /\ \A x \in live : x[1] # s
    BY <1>2, <1>4, PostingFacts DEF IInv, ClaimDiscipline
  <2>3. /\ r \in Request /\ r.claim = req[s].claim /\ r.worker = req[s].worker
        /\ r.attempt = req[s].attempt /\ r.reply = req[s].reply
        /\ SameDialogue(r, req[s])
        /\ r.deps = req[s].deps /\ r.resources = req[s].resources
    BY <1>1, MarkFacts
  <2>4. r.status = req[s].status /\ r.suggestion = req[s].suggestion
    BY <1>1, MarkStatus
  <2> HIDE DEF r
  <2>5. Present(s) /\ Consistent(r)
    BY <2>2, <2>3, <2>4, ConsistentRequest DEF Consistent, Present, SameDialogue
  <2>6. SamePlan(r, req[s]) BY <2>3, <2>4 DEF SamePlan
  <2>7. \A x \in ungranted : x[1] = s =>
           /\ r.question = x[2] /\ r.claim = 0
           /\ r.status \in {"awaiting_approval", "reply_pending", "declined"}
           /\ r.status # "awaiting_approval" => r.declined
    BY <2>3, <2>4, UngrantedRequest DEF SameDialogue
  <2> QED BY <1>2, <2>1, <2>2, <2>3, <2>4, <2>5, <2>6, <2>7, UpdateInv
          DEF IInv, TypeOK
<1> QED BY <1>3, <1>4

(***************************************************************************)
(* Claims.                                                                 *)
(***************************************************************************)
LEMMA ReclaimInv ==
  ASSUME ConstantsAssumption, IInv, NEW s \in Seqs, NEW w \in Workers,
         Claim(s, w), req[s].claim # 0
  PROVE  IInv'
<1> DEFINE a == req[s].claim
<1>1. /\ req[s].status = "running" /\ live' = live \cup {<<s, a>>}
      /\ UNCHANGED <<up, after, req, maxWorkers, allowed, posting, sent, srv, ungranted>>
  BY DEF Claim
<1>2. <<s, a>> \in Seqs \X Nat BY RequestType DEF Request
<1>3. <<s, a>>[1] = s /\ <<s, a>>[2] = req[s].claim OBVIOUS
<1> HIDE DEF a
<1>4. TypeOK' BY <1>1, <1>2 DEF IInv, TypeOK
<1>5. ExecutionOwned' BY <1>1, <1>3 DEF IInv, ExecutionOwned
<1>6. SavedStateValid' /\ ClaimDiscipline' /\ NoticeKeepsKey'
  BY <1>1 DEF IInv, SavedStateValid, ClaimDiscipline, NoticeKeepsKey, Present
<1>7. ClaimedExclusive' /\ ClaimedAfterDependencies'
  BY <1>1 DEF IInv, ClaimedExclusive, ClaimedAfterDependencies, Claimed,
              SharesResource, SameNotice, Lifecycle
<1>8. UngrantedUnclaimed' /\ SentIsSaved' /\ StoredWasSent'
  BY <1>1 DEF IInv, UngrantedUnclaimed, SentIsSaved, StoredWasSent
<1> QED BY <1>4, <1>5, <1>6, <1>7, <1>8 DEF IInv

LEMMA FreshClaimInv ==
  ASSUME ConstantsAssumption, IInv, NEW s \in Seqs, NEW w \in Workers,
         Claim(s, w), req[s].claim = 0
  PROVE  IInv'
<1> DEFINE a == req[s].attempt + 1
           r == Started(req[s], w, a)
<1>1. req[s] \in Request /\ a \in Nat /\ a # 0 BY RequestType DEF Request
<1>2. /\ Eligible(s) /\ req[s].reply = NoText /\ SaveRequest(s, r)
      /\ live' = live \cup {<<s, a>>}
      /\ UNCHANGED <<up, after, maxWorkers, allowed, posting, sent, srv, ungranted>>
  BY DEF Claim
<1>3. <<s, a>> \in Seqs \X Nat /\ <<s, a>>[1] = s /\ <<s, a>>[2] = a BY <1>1
<1> HIDE DEF a
<1>4. /\ r \in Request /\ r.status = "running" /\ r.claim = a /\ r.worker = w
      /\ r.attempt = a /\ r.reply = NoText /\ SamePlan(r, req[s])
  BY <1>1, <1>2, StartedFacts
<1> HIDE DEF r
<1>5. req[s].status = "ready" BY <1>2 DEF Eligible
<1>6. /\ req' \in [Seqs -> Request] /\ req'[s] = r
      /\ \A t \in Seqs : t # s => req'[t] = req[t]
  BY <1>2, <1>4, SaveFacts DEF IInv
<1>7. /\ \A x \in live : x[1] # s
      /\ \A x \in ungranted : x[1] # s
      /\ \A x \in sent : x[1] # s
  <2>1. \A x \in sent : x[1] = s => x[2] # NoText
    BY DEF IInv, TypeOK, ConstantsAssumption
  <2>2. \A x \in sent : x[1] # s BY <1>2, <1>5, <2>1 DEF IInv, SentIsSaved
  <2> QED BY <1>5, <2>2, UnclaimedIdle, ClaimedGranted
<1>8. TypeOK' BY <1>2, <1>3, <1>6 DEF IInv, TypeOK
<1>9. SavedStateValid'
  BY <1>1, <1>2, <1>4, <1>5, <1>6
  DEF IInv, SavedStateValid, Present, SuspendedStatus, ConstantsAssumption
<1>10. ClaimDiscipline' BY <1>4, <1>6 DEF IInv, ClaimDiscipline, Present
<1>11. ExecutionOwned'
  BY <1>2, <1>3, <1>4, <1>6, <1>7 DEF IInv, ExecutionOwned, TypeOK
<1>12. Claimed' = Claimed \cup {s} BY <1>1, <1>4, <1>6 DEF Claimed
<1>13. \A t \in Seqs : SamePlan(req'[t], req[t])
  BY <1>4, <1>6 DEF SamePlan
<1>14. ~ Lifecycle(s) =>
         /\ \A d \in req[s].deps : req[d].status = "completed"
         /\ \A t \in Claimed : ~ Conflict(s, t)
  BY <1>2 DEF Eligible
<1>15. ClaimedExclusive'
  <2>1. \A t \in Claimed : ~ Lifecycle(s) =>
          /\ ~ SharesResource(s, t) /\ ~ SharesResource(t, s)
          /\ ~ SameNotice(s, t) /\ ~ SameNotice(t, s)
    <3> SUFFICES ASSUME NEW t \in Claimed, ~ Lifecycle(s)
                 PROVE  /\ ~ SharesResource(s, t) /\ ~ SharesResource(t, s)
                        /\ ~ SameNotice(s, t) /\ ~ SameNotice(t, s)
      OBVIOUS
    <3>1. ~ Conflict(s, t) /\ t \in Seqs BY <1>14 DEF Claimed
    <3>2. ~ SharesResource(s, t) BY <3>1 DEF Conflict
    <3>3. ~ SharesResource(t, s) BY <3>2 DEF SharesResource
    <3>4. ~ SameNotice(s, t)
      BY <3>1 DEF Conflict, SameNotice, IInv, NoticeKeepsKey
    <3>5. ~ SameNotice(t, s) BY <3>4 DEF SameNotice
    <3> QED BY <3>2, <3>3, <3>4, <3>5
  <2>2. \A t, u \in Seqs : SharesResource(t, u)' <=> SharesResource(t, u)
    BY <1>13 DEF SharesResource, SamePlan
  <2> SUFFICES ASSUME NEW t \in Claimed', NEW u \in Claimed', t # u,
                      ~ Lifecycle(t), ~ Lifecycle(u)
               PROVE  ~ SharesResource(t, u) /\ ~ SameNotice(t, u)
    BY <2>2, <1>12 DEF ClaimedExclusive, Lifecycle, SameNotice, Claimed
  <2> QED BY <1>12, <2>1 DEF IInv, ClaimedExclusive
<1>16. ClaimedAfterDependencies'
  <2>1. \A t \in Claimed' : ~ Lifecycle(t) =>
          \A d \in req[t].deps : req[d].status = "completed"
    BY <1>12, <1>14 DEF IInv, ClaimedAfterDependencies
  <2>2. \A t \in Seqs : req[t].deps \subseteq Seqs /\ req'[t].deps = req[t].deps
    BY <1>13 DEF IInv, TypeOK, Request, SamePlan
  <2>3. \A d \in Seqs : req[d].status = "completed" => req'[d] = req[d]
    BY <1>5, <1>6
  <2>4. Claimed' \subseteq Seqs BY DEF Claimed
  <2> QED BY <2>1, <2>2, <2>3, <2>4 DEF ClaimedAfterDependencies, Lifecycle
<1>17. NoticeKeepsKey' BY <1>13 DEF IInv, NoticeKeepsKey, SamePlan
<1>18. UngrantedUnclaimed'
  BY <1>2, <1>6, <1>7 DEF IInv, UngrantedUnclaimed, TypeOK
<1>19. SentIsSaved' /\ StoredWasSent'
  BY <1>2, <1>6, <1>7 DEF IInv, SentIsSaved, StoredWasSent, TypeOK
<1> QED BY <1>8, <1>9, <1>10, <1>11, <1>15, <1>16, <1>17, <1>18, <1>19 DEF IInv

(***************************************************************************)
(* Steps that look at every request: receipt, revalidation, restart.       *)
(***************************************************************************)

(* How such a step may change a record: it keeps a claim and its plan, a    *)
(* finished status, a saved reply and an open question as they are.         *)
Kept(q, r) ==
  /\ q.claim = r.claim /\ q.reply = r.reply
  /\ q.claim # 0 => q.deps = r.deps /\ q.resources = r.resources
  /\ r.status \in {"completed", "declined", "reply_pending", "awaiting_approval"}
     => q.status = r.status /\ SameDialogue(q, r)
  /\ r.status \in {"running", "needs_recovery"} =>
       q.status \in {"running", "needs_recovery"}

LEMMA SweepInv ==
  ASSUME ConstantsAssumption, IInv, TypeOK',
         UNCHANGED <<posting, sent, srv, live, ungranted>>,
         \A t \in Seqs : Kept(req'[t], req[t]),
         \A t \in Seqs : req'[t] = req[t] \/ Consistent(req'[t]),
         \A t \in Seqs : req'[t].status # "absent" => t <= after',
         NoticeKeepsKey'
  PROVE  IInv'
<1>1. SavedStateValid'
  <2> SUFFICES ASSUME NEW t \in Seqs, Present(t)'
               PROVE  /\ t <= after'
                      /\ Consistent(req'[t])
    BY DEF SavedStateValid, Consistent
  <2>1. t <= after' BY DEF Present
  <2>2. Consistent(req'[t]) BY ConsistentRequest DEF Present
  <2> QED BY <2>1, <2>2
<1>2. ClaimDiscipline'
  BY DEF IInv, ClaimDiscipline, Consistent, Present
<1>3. ExecutionOwned' BY DEF IInv, ExecutionOwned, Kept, TypeOK
<1>4. /\ Claimed' = Claimed
      /\ \A t \in Claimed : /\ req'[t].deps = req[t].deps
                            /\ req'[t].resources = req[t].resources
  BY DEF Claimed, Kept
<1>5. ClaimedExclusive'
  BY <1>4 DEF IInv, ClaimedExclusive, SharesResource, SameNotice, Lifecycle
<1>6. ClaimedAfterDependencies'
  <2>1. \A t \in Claimed : req[t].deps \subseteq Seqs
    BY DEF IInv, TypeOK, Request, Claimed
  <2> QED BY <1>4, <2>1
          DEF IInv, ClaimedAfterDependencies, Kept, Lifecycle
<1>7. UngrantedUnclaimed'
  BY DEF IInv, UngrantedUnclaimed, Kept, SameDialogue, TypeOK
<1>8. SentIsSaved' /\ StoredWasSent'
  <2>1. \A x \in sent : x[1] \in Seqs BY DEF IInv, TypeOK
  <2>2. SentIsSaved' BY <2>1 DEF IInv, SentIsSaved, Kept
  <2>3. StoredWasSent' BY DEF IInv, StoredWasSent
  <2> QED BY <2>2, <2>3
<1> QED BY <1>1, <1>2, <1>3, <1>5, <1>6, <1>7, <1>8 DEF IInv

LEMMA RevalidateInv ==
  ASSUME ConstantsAssumption, IInv, Revalidate
  PROVE  IInv'
<1>1. UNCHANGED <<up, after, maxWorkers, allowed, posting, sent, srv, live, ungranted>>
  BY DEF Revalidate
<1>2. \A t \in Seqs :
        \/ req'[t] = req[t]
        \/ req[t].status = "ready" /\ req'[t] = Cancelled(req[t])
  BY DEF Revalidate
<1>3. \A t \in Seqs :
        /\ req'[t] \in Request
        /\ Kept(req'[t], req[t])
        /\ req'[t] = req[t] \/ Consistent(req'[t])
        /\ req'[t].status # "absent" => t <= after
        /\ req'[t].suggestion = req[t].suggestion
  <2> SUFFICES ASSUME NEW t \in Seqs
               PROVE  /\ req'[t] \in Request
                      /\ Kept(req'[t], req[t])
                      /\ req'[t] = req[t] \/ Consistent(req'[t])
                      /\ req'[t].status # "absent" => t <= after
                      /\ req'[t].suggestion = req[t].suggestion
    OBVIOUS
  <2>1. req[t] \in Request BY RequestType
  <2>2. CASE req'[t] = req[t]
    BY <2>1, <2>2 DEF Kept, SameDialogue, IInv, SavedStateValid, Present
  <2>3. CASE req[t].status = "ready" /\ req'[t] = Cancelled(req[t])
    <3> DEFINE q == Cancelled(req[t])
    <3>1. /\ q \in Request /\ q.claim = req[t].claim /\ q.reply = req[t].reply
          /\ q.deps = req[t].deps /\ q.resources = req[t].resources
      BY <2>1, MarkFacts
    <3>2. q.status = "cancelled" /\ q.suggestion = req[t].suggestion
      BY <2>1, MarkStatus
    <3> HIDE DEF q
    <3>3. req'[t] = q BY <2>3 DEF q
    <3>4. req[t].claim = 0 /\ req[t].reply = NoText /\ t <= after
      BY <2>3 DEF IInv, ClaimDiscipline, SavedStateValid, Present
    <3>5. Consistent(q) BY <3>1, <3>2, <3>4 DEF Consistent, SuspendedStatus
    <3> QED BY <2>3, <3>1, <3>2, <3>3, <3>4, <3>5 DEF Kept
  <2> QED BY <1>2, <2>2, <2>3
<1>4. req' \in [Seqs -> Request] BY <1>3 DEF Revalidate
<1>5. TypeOK' BY <1>1, <1>4 DEF IInv, TypeOK
<1>6. NoticeKeepsKey' BY <1>3 DEF IInv, NoticeKeepsKey
<1> QED BY <1>1, <1>3, <1>5, <1>6, SweepInv

LEMMA OpenInv ==
  ASSUME ConstantsAssumption, IInv, NEW peers \in SUBSET Senders, Open(peers)
  PROVE  IInv'
<1>1. /\ up' = TRUE /\ allowed' = peers
      /\ UNCHANGED <<after, maxWorkers, posting, sent, srv, live, ungranted>>
  BY DEF Open
<1>2. \A t \in Seqs : req'[t] = Reopened(req[t]) BY DEF Open
<1>3. \A t \in Seqs :
        /\ req'[t] \in Request
        /\ Kept(req'[t], req[t])
        /\ req'[t] = req[t] \/ Consistent(req'[t])
        /\ req'[t].status # "absent" => t <= after
        /\ req'[t].suggestion = req[t].suggestion
  <2> TAKE t \in Seqs
  <2> DEFINE q == Reopened(req[t])
  <2>1. req[t] \in Request BY RequestType
  <2>2. /\ q \in Request /\ q.claim = req[t].claim /\ q.reply = req[t].reply
        /\ q.deps = req[t].deps /\ q.resources = req[t].resources
        /\ q.worker = req[t].worker /\ q.attempt = req[t].attempt
        /\ SameDialogue(q, req[t])
    BY <2>1, MarkFacts
  <2>3. /\ q.suggestion = req[t].suggestion
        /\ q.status = IF req[t].status = "running" THEN "needs_recovery"
                      ELSE req[t].status
    BY <2>1, MarkStatus
  <2>4. req[t].status # "running" => q = req[t] BY DEF Reopened
  <2> HIDE DEF q
  <2>5. req'[t] = q BY <1>2 DEF q
  <2>6. req[t].status = "running" => Consistent(q)
    BY <2>2, <2>3
    DEF Consistent, SuspendedStatus, IInv, SavedStateValid, ClaimDiscipline, Present
  <2>7. req[t].status # "absent" => t <= after
    BY DEF IInv, SavedStateValid, Present
  <2> QED BY <2>2, <2>3, <2>4, <2>5, <2>6, <2>7 DEF Kept
<1>4. req' \in [Seqs -> Request] BY <1>3 DEF Open
<1>5. up' \in BOOLEAN BY <1>1, Zenon
<1>6. TypeOK' BY <1>1, <1>4, <1>5 DEF IInv, TypeOK
<1>7. NoticeKeepsKey' BY <1>3 DEF IInv, NoticeKeepsKey
<1> QED BY <1>1, <1>3, <1>6, <1>7, SweepInv

LEMMA IngestInv ==
  ASSUME ConstantsAssumption, IInv, NEW s \in Seqs, NEW valid \in BOOLEAN,
         Ingest(s, valid)
  PROVE  IInv'
<1> DEFINE status == IF Event[s].kind = "attention" THEN "completed" ELSE "ready"
           New(t) == t = s /\ req'[t] = NewRequest(s, status)
           Note(t) == /\ Present(t) /\ Event[t].kind \in {"message", "hello"}
                      /\ req'[t] = Annotated(req[t], Event[s].key)
<1>1. /\ s = after + 1 /\ after' = s
      /\ UNCHANGED <<up, maxWorkers, allowed, posting, sent, srv, live, ungranted>>
  BY DEF Ingest
<1>2. \A t \in Seqs : req'[t] = req[t] \/ New(t) \/ Note(t) BY DEF Ingest
<1>3. after \in Nat /\ \A t \in Seqs : t <= after => t <= after'
  BY <1>1 DEF IInv, TypeOK, ConstantsAssumption, Seqs
<1>4. ~ Present(s) BY <1>1, <1>3 DEF IInv, SavedStateValid, Seqs
<1>5. \A t \in Seqs :
        /\ req'[t] \in Request
        /\ Kept(req'[t], req[t])
        /\ req'[t] = req[t] \/ Consistent(req'[t])
        /\ req'[t].status # "absent" => t <= after'
        /\ Event[t].kind = "semantic" => req'[t].suggestion = Event[t].key
  <2> TAKE t \in Seqs
  <2>1. req[t] \in Request BY RequestType
  <2>2. CASE req'[t] = req[t]
    <3>1. /\ req[t].status # "absent" => t <= after
          /\ Event[t].kind = "semantic" => req[t].suggestion = Event[t].key
      BY DEF IInv, SavedStateValid, Present, NoticeKeepsKey
    <3> QED BY <1>3, <2>1, <2>2, <3>1 DEF Kept, SameDialogue
  <2>3. CASE New(t)
    <3> DEFINE q == NewRequest(s, status)
    <3>1. status \in {"completed", "ready"} OBVIOUS
    <3>2. status \in Status BY <3>1 DEF Status
    <3>3. /\ q \in Request /\ q.status = status /\ q.claim = 0
          /\ q.reply = NoText
          /\ Event[s].kind = "semantic" => q.suggestion = Event[s].key
      <4> HIDE DEF status
      <4> QED BY <3>2, NewRequestFacts
    <3> HIDE DEF q
    <3>4. req'[t] = q /\ t = s BY <2>3 DEF q
    <3>5. req[t].claim = 0 /\ req[t].reply = NoText /\ req[t].status = "absent"
      BY <1>4, <3>4 DEF IInv, ClaimDiscipline, Present
    <3>6. Consistent(q) BY <3>1, <3>3 DEF Consistent, SuspendedStatus
    <3>7. t <= after' BY <1>1, <3>4 DEF Seqs
    <3> QED BY <3>3, <3>4, <3>5, <3>6, <3>7 DEF Kept
  <2>4. CASE Note(t)
    <3> DEFINE q == Annotated(req[t], Event[s].key)
    <3>1. Event[s].key \in Nat BY DEF ConstantsAssumption, EventRecord
    <3>2. /\ q \in Request /\ q.claim = req[t].claim /\ q.reply = req[t].reply
          /\ q.deps = req[t].deps /\ q.resources = req[t].resources
          /\ q.worker = req[t].worker /\ q.attempt = req[t].attempt
          /\ SameDialogue(q, req[t])
      BY <2>1, <3>1, MarkFacts
    <3>3. q.status = req[t].status BY <2>1, <3>1, MarkStatus
    <3> HIDE DEF q
    <3>4. /\ req'[t] = q /\ Present(t) /\ Event[t].kind # "semantic"
      BY <2>4 DEF q
    <3>5. Consistent(req[t]) BY <3>4, ConsistentRequest
    <3>6. Consistent(q) BY <3>2, <3>3, <3>5 DEF Consistent, SameDialogue
    <3>7. t <= after' BY <1>3, <3>4 DEF IInv, SavedStateValid
    <3> QED BY <3>2, <3>3, <3>4, <3>6, <3>7 DEF Kept
  <2> QED BY <1>2, <2>2, <2>3, <2>4
<1>6. req' \in [Seqs -> Request]
  <2>1. DOMAIN req' = Seqs /\ req' = [t \in Seqs |-> req'[t]] BY DEF Ingest
  <2> QED BY <1>5, <2>1
<1>7. TypeOK' BY <1>1, <1>6 DEF IInv, TypeOK, Seqs, ConstantsAssumption
<1>8. NoticeKeepsKey' BY <1>5 DEF NoticeKeepsKey
<1> HIDE DEF status, New, Note
<1> QED BY <1>1, <1>5, <1>7, <1>8, SweepInv

-----------------------------------------------------------------------------
(***************************************************************************)
(* The theorems.                                                           *)
(***************************************************************************)
LEMMA NextInv ==
  ASSUME ConstantsAssumption, IInv, [Next]_vars
  PROVE  IInv'
<1>1. CASE UNCHANGED vars
  <2>1. UNCHANGED <<up, after, req, maxWorkers, allowed, posting, sent, srv,
                    live, ungranted>>
    BY <1>1 DEF vars
  <2>2. TypeOK' BY <2>1 DEF IInv, TypeOK
  <2>3. SentIsSaved' /\ StoredWasSent'
    BY <2>1 DEF IInv, SentIsSaved, StoredWasSent
  <2> QED BY <2>1, <2>2, <2>3, SameRequests DEF IInv
<1>2. ASSUME NEW s \in Seqs, NEW valid \in BOOLEAN, Ingest(s, valid)
      PROVE  IInv'
  BY <1>2, IngestInv
<1>3. ASSUME NEW s \in Seqs PROVE Tokens(s) \subseteq Nat
  <2>1. req[s].attempt \in Nat BY RequestType DEF Request
  <2> QED BY <2>1 DEF Tokens
<1>4. ASSUME NEW s \in Seqs, Worker(s) PROVE IInv'
  <2>1. ASSUME NEW w \in Workers, Claim(s, w) PROVE IInv'
    BY <2>1, ReclaimInv, FreshClaimInv
  <2>2. ASSUME Ack(s, 0) PROVE IInv' BY <2>2, AckInv
  <2>3. ASSUME NEW a \in Nat, Release(s, a) PROVE IInv' BY <2>3, ReleaseInv
  <2>4. ASSUME NEW a \in Nat, Ack(s, a) PROVE IInv' BY <2>4, AckInv
  <2>5. ASSUME NEW a \in Nat, NEW text \in Texts, Reply(s, a, text) PROVE IInv'
    BY <2>5, ReplyInv
  <2>6. ASSUME NEW a \in Nat, NEW status \in Outcomes, Outcome(s, a, status)
        PROVE  IInv'
    BY <2>6, OutcomeInv
  <2>7. ASSUME NEW a \in Nat, WorkerStops(s, a) PROVE IInv'
    BY <2>7, WorkerStopsInv
  <2> QED BY <1>3, <1>4, <2>1, <2>2, <2>3, <2>4, <2>5, <2>6, <2>7 DEF Worker
<1>5. ASSUME NEW s \in Seqs, Controller(s) PROVE IInv'
  <2>1. ASSUME NEW q \in Nat, Presented(s, q) PROVE IInv' BY <2>1, PresentedInv
  <2>2. ASSUME NEW q \in Nat, NEW action \in {"approve", "decline", "answer"},
               Resolve(s, q, action)
        PROVE  IInv'
    BY <2>2, ResolveInv
  <2>3. ASSUME NEW action \in {"resume", "cancel"}, NEW stopped \in BOOLEAN,
               Recover(s, action, stopped)
        PROVE  IInv'
    BY <2>3, RecoverInv
  <2>4. ASSUME NEW p \in Plans, Plan(s, p[1], p[2]) PROVE IInv'
    <3>1. p[1] \in SUBSET Seqs /\ p[2] \in SUBSET Resources
      BY DEF ConstantsAssumption
    <3> QED BY <2>4, <3>1, PlanInv
  <2> QED BY <1>3, <1>5, <2>1, <2>2, <2>3, <2>4 DEF Controller
<1>6. ASSUME NEW s \in Seqs, Delivery(s) PROVE IInv'
  <2>1. ASSUME DeliverStart(s) PROVE IInv' BY <2>1, DeliverStartInv
  <2>2. ASSUME NEW text \in Texts \cup {DeclineText}, ServerStore(s, text)
        PROVE  IInv'
    BY <2>2, ServerStoreInv
  <2>3. ASSUME NEW saved \in BOOLEAN, DeliverDone(s, saved) PROVE IInv'
    BY <2>3, DeliverDoneInv
  <2>4. ASSUME NEW saved \in BOOLEAN, DeliverError(s, saved) PROVE IInv'
    BY <2>4, DeliverErrorInv
  <2> QED BY <1>6, <2>1, <2>2, <2>3, <2>4 DEF Delivery
<1>7. CASE Revalidate BY <1>7, RevalidateInv
<1>8. ASSUME NEW max \in Limits, Policy(max) PROVE IInv' BY <1>8, PolicyInv
<1>9. CASE Crash BY <1>9, CrashInv
<1>10. ASSUME NEW peers \in SUBSET Senders, Open(peers) PROVE IInv'
  BY <1>10, OpenInv
<1> QED BY <1>1, <1>2, <1>4, <1>5, <1>6, <1>7, <1>8, <1>9, <1>10 DEF Next

(* The inductive invariant holds in every reachable state, whatever the     *)
(* events, the workers, the controller, the network and restarts do.        *)
THEOREM Inductive == Spec => []IInv
<1>1. Init => IInv BY ConstantsAssumption, InitInv
<1>2. IInv /\ [Next]_vars => IInv' BY ConstantsAssumption, NextInv
<1> QED BY <1>1, <1>2, PTL DEF Spec

(* Every variable keeps its type: requests are well-formed records and      *)
(* nothing on the wire is empty (inboxRequest, inbox_requests.go).          *)
THEOREM TypeCorrect == Spec => []TypeOK
<1>1. IInv => TypeOK BY DEF IInv
<1> QED BY <1>1, Inductive, PTL

(* Whatever save writes, the next start accepts (migrate).                  *)
THEOREM StateReopens == Spec => []SavedStateValid
<1>1. IInv => SavedStateValid BY DEF IInv
<1> QED BY <1>1, Inductive, PTL

(* Status, claim and saved reply of a request never disagree.               *)
THEOREM ClaimsConsistent == Spec => []ClaimDiscipline
<1>1. IInv => ClaimDiscipline BY DEF IInv
<1> QED BY <1>1, Inductive, PTL

(* A worker that executes owns the claim of its request, across crashes,    *)
(* restarts, late calls and recoveries.                                     *)
THEOREM OneExecution == Spec => []ExecutionOwned
<1>1. IInv => ExecutionOwned BY DEF IInv
<1> QED BY <1>1, Inductive, PTL

LEMMA LiveIsClaimed ==
  ASSUME IInv, NEW x \in live
  PROVE  x[1] \in Claimed
<1>1. x[1] \in Seqs BY DEF IInv, TypeOK
<1>2. req[x[1]].claim # 0 BY <1>1, UnclaimedIdle
<1> QED BY <1>1, <1>2 DEF Claimed

(* Executions under way never share a resource or review the same notice.   *)
THEOREM Exclusive == Spec => []ExclusiveExecution
<1>1. IInv => ExclusiveExecution
  BY LiveIsClaimed DEF IInv, ClaimedExclusive, ExclusiveExecution
<1> QED BY <1>1, Inductive, PTL

(* Work executes only after everything it was planned after is completed.   *)
THEOREM Ordered == Spec => []DependenciesFinished
<1>1. IInv => DependenciesFinished
  BY LiveIsClaimed DEF IInv, ClaimedAfterDependencies, DependenciesFinished
<1> QED BY <1>1, Inductive, PTL

(* Nothing the user was asked to approve executes before the approval.      *)
THEOREM Gated == Spec => []PermissionGate
<1>1. IInv => PermissionGate
  <2> SUFFICES ASSUME IInv, NEW x \in ungranted
               PROVE  /\ req[x[1]].status \in
                           {"awaiting_approval", "reply_pending", "declined"}
                      /\ LiveOf(x[1]) = {}
    BY DEF PermissionGate
  <2>1. x[1] \in Seqs BY DEF IInv, TypeOK
  <2>2. /\ req[x[1]].claim = 0
        /\ req[x[1]].status \in {"awaiting_approval", "reply_pending", "declined"}
    BY DEF IInv, UngrantedUnclaimed
  <2>3. LiveOf(x[1]) = {} BY <2>1, <2>2, UnclaimedIdle DEF LiveOf
  <2> QED BY <2>2, <2>3
<1> QED BY <1>1, Inductive, PTL

(* Every post of a request's reply carries one text, and that text is what  *)
(* the server stored.                                                       *)
THEOREM OneReply == Spec => []SingleReply
<1>1. IInv => SingleReply
  <2> SUFFICES ASSUME IInv, NEW x \in sent, req[x[1]].reply # NoText
               PROVE  req[x[1]].reply = x[2]
    BY DEF IInv, StoredWasSent, SingleReply
  <2>1. x[1] \in Seqs BY DEF IInv, TypeOK
  <2> QED BY <2>1 DEF IInv, SentIsSaved, ClaimDiscipline
<1> QED BY <1>1, Inductive, PTL

(* A request whose reply was posted finishes only after the server has it.  *)
THEOREM PostedFirst == Spec => []PostedBeforeDone
<1>1. IInv => PostedBeforeDone
  <2> SUFFICES ASSUME IInv, NEW x \in sent, Terminal(x[1])
               PROVE  srv[x[1]] = x[2]
    BY DEF PostedBeforeDone
  <2>1. x[1] \in Seqs /\ x[2] # NoText BY ConstantsAssumption DEF IInv, TypeOK, ConstantsAssumption
  <2> QED BY <2>1 DEF IInv, SentIsSaved, ClaimDiscipline, Terminal
<1> QED BY <1>1, Inductive, PTL

-----------------------------------------------------------------------------
(***************************************************************************)
(* Action properties.  Every step but receipt and a fresh claim is steady: *)
(* it starts no attempt, receives nothing and leaves finished work alone.  *)
(***************************************************************************)
SteadyRequest(q, r) ==
  /\ q.attempt = r.attempt
  /\ q.status = "absent" <=> r.status = "absent"
  /\ r.status \in {"completed", "declined"} => q.status = r.status /\ q.claim = 0

Steady == \A t \in Seqs : SteadyRequest(req'[t], req[t])

LEMMA FinishedUnclaimed ==
  ASSUME IInv, NEW t \in Seqs
  PROVE  SteadyRequest(req[t], req[t])
BY DEF SteadyRequest, IInv, ClaimDiscipline

LEMMA SameSteady ==
  ASSUME IInv, UNCHANGED req
  PROVE  Steady
BY FinishedUnclaimed DEF Steady

LEMMA SaveSteady ==
  ASSUME IInv, NEW s \in Seqs, NEW r \in Request, SaveRequest(s, r),
         SteadyRequest(r, req[s])
  PROVE  Steady
<1>1. req'[s] = r /\ \A t \in Seqs : t # s => req'[t] = req[t]
  BY SaveFacts DEF IInv
<1> QED BY <1>1, FinishedUnclaimed DEF Steady

LEMMA WorkerSteady ==
  ASSUME ConstantsAssumption, IInv, NEW s \in Seqs, NEW a \in Nat
  PROVE  /\ Release(s, a) => Steady
         /\ Ack(s, a) => Steady
         /\ \A text \in Texts : Reply(s, a, text) => Steady
         /\ \A status \in Outcomes : Outcome(s, a, status) => Steady
<1>1. req[s] \in Request BY RequestType
<1>2. req[s].claim # 0 =>
        /\ req[s].status \in {"running", "needs_recovery", "reply_pending"}
  BY DEF IInv, ClaimDiscipline
<1>3. ASSUME Release(s, a) PROVE Steady
  <2> DEFINE r == GivenBack(req[s], "ready")
  <2>1. SaveRequest(s, r) /\ req[s].claim # 0
    BY <1>3 DEF Release, HoldsClaim
  <2>2. r \in Request /\ r.attempt = req[s].attempt /\ r.status = "ready"
    BY <1>1, GivenBackFacts DEF Status
  <2> HIDE DEF r
  <2>3. SteadyRequest(r, req[s]) BY <1>2, <2>1, <2>2 DEF SteadyRequest
  <2> QED BY <2>1, <2>2, <2>3, SaveSteady
<1>4. ASSUME Ack(s, a) PROVE Steady
  <2> DEFINE r == Acked(req[s])
  <2>1. SaveRequest(s, r) /\ Present(s) BY <1>4 DEF Ack
  <2>2. /\ r \in Request
        /\ req[s].status \in {"completed", "declined"} => r = req[s]
        /\ req[s].status \notin {"completed", "declined"} =>
             r.attempt = req[s].attempt /\ r.status \in {"completed", "declined"}
    BY <1>1, AckedFacts
  <2> HIDE DEF r
  <2>3. SteadyRequest(r, req[s])
    BY <2>1, <2>2, FinishedUnclaimed DEF SteadyRequest, Present
  <2> QED BY <2>1, <2>2, <2>3, SaveSteady
<1>5. ASSUME NEW text \in Texts, Reply(s, a, text) PROVE Steady
  <2> DEFINE r == Answered(req[s], text)
  <2>1. SaveRequest(s, r) /\ req[s].claim # 0
    BY <1>5 DEF Reply, CheckRequestClaim
  <2>2. r \in Request /\ r.attempt = req[s].attempt /\ r.status = "reply_pending"
    BY <1>1, AnsweredFacts
  <2> HIDE DEF r
  <2>3. SteadyRequest(r, req[s]) BY <1>2, <2>1, <2>2 DEF SteadyRequest
  <2> QED BY <2>1, <2>2, <2>3, SaveSteady
<1>6. ASSUME NEW status \in Outcomes, Outcome(s, a, status) PROVE Steady
  <2> DEFINE r == Reported(req[s], a, status)
  <2>1. SaveRequest(s, r) /\ req[s].claim # 0
    BY <1>6 DEF Outcome, HoldsClaim
  <2>2. r \in Request /\ r.attempt = req[s].attempt /\ r.status # "absent"
    <3>1. CASE status = "needs_recovery"
      BY <1>1, <3>1 DEF Reported, Request, Status
    <3>2. CASE status = "failed"
      BY <1>1, <3>2, GivenBackFacts DEF Reported, Status
    <3>3. CASE status \in SuspendedStatus
      <4> DEFINE q == Asked(req[s], a)
      <4>1. q \in Request /\ q.attempt = req[s].attempt BY <1>1, AskedFacts
      <4>2. r = GivenBack(q, status) BY <3>3 DEF Reported, SuspendedStatus
      <4>3. status \in Status /\ status # "absent"
        BY <3>3 DEF Status, SuspendedStatus
      <4> HIDE DEF q, r
      <4> QED BY <4>1, <4>2, <4>3, GivenBackFacts
    <3> QED BY <3>1, <3>2, <3>3 DEF ConstantsAssumption
  <2> HIDE DEF r
  <2>3. SteadyRequest(r, req[s]) BY <1>2, <2>1, <2>2 DEF SteadyRequest
  <2> QED BY <2>1, <2>2, <2>3, SaveSteady
<1> QED BY <1>3, <1>4, <1>5, <1>6

LEMMA ControllerSteady ==
  ASSUME ConstantsAssumption, IInv, NEW s \in Seqs, Controller(s)
  PROVE  Steady
<1>1. req[s] \in Request BY RequestType
<1>2. ASSUME NEW q, Presented(s, q) PROVE Steady
  <2> DEFINE r == Shown(req[s])
  <2>1. SaveRequest(s, r) BY <1>2 DEF Presented
  <2>2. /\ r \in Request /\ r.attempt = req[s].attempt
        /\ r.status = req[s].status /\ r.claim = req[s].claim
    BY <1>1, ShownFacts
  <2> HIDE DEF r
  <2>3. SteadyRequest(r, req[s]) BY <2>2, FinishedUnclaimed DEF SteadyRequest
  <2> QED BY <2>1, <2>2, <2>3, SaveSteady
<1>3. ASSUME NEW q, NEW action \in {"approve", "decline", "answer"},
             Resolve(s, q, action)
      PROVE  Steady
  <2> DEFINE r == Resolved(req[s], action)
  <2>1. SaveRequest(s, r) /\ req[s].status \in SuspendedStatus
    BY <1>3 DEF Resolve
  <2>2. /\ r \in Request /\ r.attempt = req[s].attempt
        /\ r.status \in {"reply_pending", "ready"}
    BY <1>1, ResolvedFacts
  <2> HIDE DEF r
  <2>3. SteadyRequest(r, req[s]) BY <2>1, <2>2 DEF SteadyRequest, SuspendedStatus
  <2> QED BY <2>1, <2>2, <2>3, SaveSteady
<1>4. ASSUME NEW action \in {"resume", "cancel"}, NEW stopped \in BOOLEAN,
             Recover(s, action, stopped)
      PROVE  Steady
  <2> DEFINE r == Recovered(req[s], action)
  <2>1. SaveRequest(s, r) /\ Present(s) /\ ~ Terminal(s) BY <1>4 DEF Recover
  <2>2. /\ r \in Request /\ r.attempt = req[s].attempt
        /\ r.status \in {"cancelled", "ready"}
    BY <1>1, RecoveredFacts
  <2> HIDE DEF r
  <2>3. SteadyRequest(r, req[s]) BY <2>1, <2>2 DEF SteadyRequest, Terminal, Present
  <2> QED BY <2>1, <2>2, <2>3, SaveSteady
<1>5. ASSUME NEW p \in Plans, Plan(s, p[1], p[2]) PROVE Steady
  <2> DEFINE r == Planned(req[s], p[1], p[2])
  <2>1. SaveRequest(s, r) /\ req[s].status = "ready" BY <1>5 DEF Plan
  <2>2. p[1] \in SUBSET Seqs /\ p[2] \in SUBSET Resources
    BY DEF ConstantsAssumption
  <2>3. /\ r \in Request /\ r.attempt = req[s].attempt
        /\ r.status = req[s].status
    BY <1>1, <2>2, PlannedFacts
  <2> HIDE DEF r
  <2>4. SteadyRequest(r, req[s]) BY <2>1, <2>3 DEF SteadyRequest
  <2> QED BY <2>1, <2>3, <2>4, SaveSteady
<1> QED BY <1>2, <1>3, <1>4, <1>5 DEF Controller

LEMMA DeliverySteady ==
  ASSUME ConstantsAssumption, IInv, NEW s \in Seqs, Delivery(s)
  PROVE  Steady
<1>1. req[s] \in Request /\ SteadyRequest(req[s], req[s])
  BY RequestType, FinishedUnclaimed
<1>2. CASE UNCHANGED req BY <1>2, SameSteady
<1>3. ASSUME NEW saved \in BOOLEAN, DeliverDone(s, saved) PROVE Steady
  <2> DEFINE r == IF saved THEN Acked(req[s]) ELSE req[s]
  <2>1. SaveRequest(s, r) /\ posting = s BY <1>3 DEF DeliverDone
  <2>2. req[s].status \in {"reply_pending", "completed", "declined"}
    BY <2>1, PostingFacts
  <2>3. /\ r \in Request /\ r.attempt = req[s].attempt
        /\ r = req[s] \/ r.status \in {"completed", "declined"}
        /\ req[s].status \in {"completed", "declined"} => r = req[s]
    BY <1>1, AckedFacts
  <2> HIDE DEF r
  <2>4. SteadyRequest(r, req[s]) BY <1>1, <2>2, <2>3 DEF SteadyRequest
  <2> QED BY <2>1, <2>3, <2>4, SaveSteady
<1>4. ASSUME NEW saved \in BOOLEAN, DeliverError(s, saved) PROVE Steady
  <2> DEFINE r == IF saved /\ req[s].reply # NoText
                  THEN Undelivered(req[s]) ELSE req[s]
  <2>1. SaveRequest(s, r) BY <1>4 DEF DeliverError
  <2>2. /\ Undelivered(req[s]) \in Request
        /\ Undelivered(req[s]).attempt = req[s].attempt
        /\ Undelivered(req[s]).claim = req[s].claim
        /\ Undelivered(req[s]).status = req[s].status
    BY <1>1, MarkFacts, MarkStatus
  <2>3. /\ r \in Request /\ r.attempt = req[s].attempt
        /\ r.claim = req[s].claim /\ r.status = req[s].status
    BY <1>1, <2>2
  <2> HIDE DEF r
  <2>4. SteadyRequest(r, req[s]) BY <1>1, <2>3 DEF SteadyRequest
  <2> QED BY <2>1, <2>3, <2>4, SaveSteady
<1> QED BY <1>2, <1>3, <1>4 DEF Delivery, DeliverStart, ServerStore

LEMMA SweepSteady ==
  ASSUME IInv, Revalidate \/ \E peers \in SUBSET Senders : Open(peers)
  PROVE  Steady
<1> SUFFICES ASSUME NEW t \in Seqs PROVE SteadyRequest(req'[t], req[t])
  BY DEF Steady
<1>1. req[t] \in Request /\ SteadyRequest(req[t], req[t])
  BY RequestType, FinishedUnclaimed
<1>2. CASE Revalidate
  <2>1. \/ req'[t] = req[t]
        \/ req[t].status = "ready" /\ req'[t] = Cancelled(req[t])
    BY <1>2 DEF Revalidate
  <2>2. /\ Cancelled(req[t]).attempt = req[t].attempt
        /\ Cancelled(req[t]).status = "cancelled"
    BY <1>1, MarkFacts, MarkStatus
  <2> QED BY <1>1, <2>1, <2>2 DEF SteadyRequest
<1>3. ASSUME NEW peers \in SUBSET Senders, Open(peers)
      PROVE  SteadyRequest(req'[t], req[t])
  <2>1. req'[t] = Reopened(req[t]) BY <1>3 DEF Open
  <2>2. /\ Reopened(req[t]).attempt = req[t].attempt
        /\ Reopened(req[t]).claim = req[t].claim
        /\ Reopened(req[t]).status = IF req[t].status = "running"
                                     THEN "needs_recovery" ELSE req[t].status
    BY <1>1, MarkFacts, MarkStatus
  <2> QED BY <1>1, <2>1, <2>2 DEF SteadyRequest
<1> QED BY <1>2, <1>3

Receives == \E s \in Seqs, valid \in BOOLEAN : Ingest(s, valid)

Starts == \E s \in Seqs, w \in Workers : Claim(s, w) /\ req[s].claim = 0

LEMMA NextSteady ==
  ASSUME ConstantsAssumption, IInv, [Next]_vars
  PROVE  Steady \/ Receives \/ Starts
<1>1. CASE UNCHANGED req BY <1>1, SameSteady
<1>2. ASSUME NEW s \in Seqs, Worker(s) PROVE Steady \/ Starts
  <2>1. req[s].attempt \in Nat BY RequestType DEF Request
  <2>2. Tokens(s) \subseteq Nat BY <2>1 DEF Tokens
  <2>3. ASSUME NEW w \in Workers, Claim(s, w) PROVE Steady \/ Starts
    <3>1. CASE req[s].claim = 0 BY <2>3, <3>1 DEF Starts
    <3>2. CASE req[s].claim # 0
      <4>1. UNCHANGED req BY <2>3, <3>2 DEF Claim
      <4> QED BY <4>1, SameSteady
    <3> QED BY <3>1, <3>2
  <2>4. ASSUME NEW a \in Nat, WorkerStops(s, a) PROVE Steady
    BY <2>4, SameSteady DEF WorkerStops
  <2>5. ASSUME Ack(s, 0) PROVE Steady BY <2>5, WorkerSteady
  <2>6. ASSUME NEW a \in Nat,
               \/ Release(s, a)
               \/ Ack(s, a)
               \/ \E text \in Texts : Reply(s, a, text)
               \/ \E status \in Outcomes : Outcome(s, a, status)
        PROVE  Steady
    BY <2>6, WorkerSteady
  <2> QED BY <1>2, <2>2, <2>3, <2>4, <2>5, <2>6 DEF Worker
<1>3. ASSUME NEW s \in Seqs, Controller(s) \/ Delivery(s) PROVE Steady
  BY <1>3, ControllerSteady, DeliverySteady
<1>4. CASE Revalidate \/ \E peers \in SUBSET Senders : Open(peers)
  BY <1>4, SweepSteady
<1>5. CASE Crash \/ \E max \in Limits : Policy(max)
  BY <1>1, <1>5 DEF Crash, Policy
<1>6. CASE UNCHANGED vars BY <1>1, <1>6 DEF vars
<1> QED BY <1>2, <1>3, <1>4, <1>5, <1>6 DEF Next, Receives

LEMMA StartFacts ==
  ASSUME ConstantsAssumption, IInv, Starts
  PROVE  \E s \in Seqs :
           /\ req[s].status = "ready" /\ LiveOf(s) = {}
           /\ req'[s].status = "running"
           /\ \A t \in Seqs : t # s => req'[t] = req[t]
<1>1. PICK s \in Seqs, w \in Workers : Claim(s, w) /\ req[s].claim = 0
  BY DEF Starts
<1> DEFINE a == req[s].attempt + 1
<1>2. req[s] \in Request /\ a \in Nat BY RequestType DEF Request
<1>3. req[s].status = "ready" /\ SaveRequest(s, Started(req[s], w, a))
  BY <1>1 DEF Claim, Eligible
<1>4. LiveOf(s) = {} BY <1>1, UnclaimedIdle DEF LiveOf
<1> HIDE DEF a
<1>5. Started(req[s], w, a) \in Request /\ Started(req[s], w, a).status = "running"
  BY <1>2, StartedFacts
<1>6. /\ req'[s] = Started(req[s], w, a)
      /\ \A t \in Seqs : t # s => req'[t] = req[t]
  BY <1>3, <1>5, SaveFacts DEF IInv
<1> QED BY <1>3, <1>4, <1>5, <1>6

LEMMA ReceiptFacts ==
  ASSUME ConstantsAssumption, IInv, Receives
  PROVE  \E s \in Seqs :
           /\ s = after + 1 /\ after' = s
           /\ \A t \in Seqs :
                \/ SteadyRequest(req'[t], req[t])
                \/ /\ t = s /\ Accepts(s)
                   /\ req[t].status = "absent" /\ req'[t].attempt = req[t].attempt
<1>1. PICK s \in Seqs, valid \in BOOLEAN : Ingest(s, valid) BY DEF Receives
<1>2. s = after + 1 /\ after' = s BY <1>1 DEF Ingest
<1>3. after \in Nat BY DEF IInv, TypeOK, ConstantsAssumption
<1>4. ~ Present(s) BY <1>2, <1>3 DEF IInv, SavedStateValid, Seqs
<1>5. ASSUME NEW t \in Seqs
      PROVE  \/ SteadyRequest(req'[t], req[t])
             \/ /\ t = s /\ Accepts(s)
                /\ req[t].status = "absent" /\ req'[t].attempt = req[t].attempt
  <2> DEFINE status == IF Event[s].kind = "attention" THEN "completed" ELSE "ready"
  <2>1. req[t] \in Request /\ SteadyRequest(req[t], req[t])
    BY RequestType, FinishedUnclaimed
  <2>2. \/ req'[t] = req[t]
        \/ t = s /\ Accepts(s) /\ req'[t] = NewRequest(s, status)
        \/ req'[t] = Annotated(req[t], Event[s].key)
    BY <1>1 DEF Ingest
  <2>3. CASE req'[t] = req[t] BY <2>1, <2>3
  <2>4. CASE t = s /\ Accepts(s) /\ req'[t] = NewRequest(s, status)
    <3>1. status \in Status BY DEF Status
    <3> HIDE DEF status
    <3>2. NewRequest(s, status).attempt = 0 BY <3>1, NewRequestFacts
    <3>3. req[t].status = "absent" /\ req[t].attempt = 0
      BY <1>4, <2>4 DEF IInv, ClaimDiscipline, Present
    <3> QED BY <2>4, <3>2, <3>3
  <2>5. CASE req'[t] = Annotated(req[t], Event[s].key)
    <3> DEFINE q == Annotated(req[t], Event[s].key)
    <3>1. Event[s].key \in Nat BY DEF ConstantsAssumption, EventRecord
    <3>2. /\ q.attempt = req[t].attempt /\ q.claim = req[t].claim
          /\ q.status = req[t].status
      BY <2>1, <3>1, MarkFacts, MarkStatus
    <3>3. req'[t] = q BY <2>5
    <3> HIDE DEF q
    <3> QED BY <2>1, <3>2, <3>3 DEF SteadyRequest
  <2> QED BY <2>2, <2>3, <2>4, <2>5
<1> QED BY <1>2, <1>5

(* No later call reopens, re-executes or re-answers finished work.          *)
THEOREM FinishedStays == Spec => FinishedIsFinal
<1> DEFINE Final ==
      \A s \in Seqs : req[s].status \in {"completed", "declined"} =>
        /\ req'[s].status = req[s].status
        /\ req'[s].attempt = req[s].attempt
        /\ req'[s].claim = 0
<1>1. IInv /\ [Next]_vars => Final
  <2> SUFFICES ASSUME IInv, [Next]_vars PROVE Final OBVIOUS
  <2> USE ConstantsAssumption
  <2>1. CASE Steady BY <2>1 DEF Steady, SteadyRequest
  <2>2. CASE Receives BY <2>2, ReceiptFacts DEF SteadyRequest
  <2>3. CASE Starts
    <3>1. PICK s \in Seqs : /\ req[s].status = "ready"
                            /\ \A t \in Seqs : t # s => req'[t] = req[t]
      BY <2>3, StartFacts
    <3> QED BY <3>1, FinishedUnclaimed DEF SteadyRequest
  <2> QED BY <2>1, <2>2, <2>3, NextSteady
<1>2. IInv /\ [Next]_vars => [Final]_vars BY <1>1
<1> HIDE DEF Final
<1>3. Spec => [][Final]_vars BY <1>2, Inductive, PTL DEF Spec
<1> QED BY <1>3 DEF Final, FinishedIsFinal

(* A new attempt starts only from ready work that nobody is executing.      *)
THEOREM RetryIsDeliberate == Spec => NoSilentRetry
<1> DEFINE Deliberate ==
      \A s \in Seqs : req'[s].attempt # req[s].attempt =>
        req[s].status = "ready" /\ LiveOf(s) = {}
<1>1. IInv /\ [Next]_vars => Deliberate
  <2> SUFFICES ASSUME IInv, [Next]_vars PROVE Deliberate OBVIOUS
  <2> USE ConstantsAssumption
  <2>1. CASE Steady BY <2>1 DEF Steady, SteadyRequest
  <2>2. CASE Receives BY <2>2, ReceiptFacts DEF SteadyRequest
  <2>3. CASE Starts BY <2>3, StartFacts
  <2> QED BY <2>1, <2>2, <2>3, NextSteady
<1>2. IInv /\ [Next]_vars => [Deliberate]_vars BY <1>1
<1> HIDE DEF Deliberate
<1>3. Spec => [][Deliberate]_vars BY <1>2, Inductive, PTL DEF Spec
<1> QED BY <1>3 DEF Deliberate, NoSilentRetry

(* A message whose notice came first is never also a reply job.             *)
THEOREM NoSecondReview == Spec => []ReviewedOnce
<1>1. Init => ReviewedOnce
  <2> SUFFICES ASSUME Init PROVE \A s \in Seqs : ~ Present(s)
    BY DEF ReviewedOnce
  <2> QED BY ConstantsAssumption, NewRequestFacts DEF Init, Present, Status
<1>2. IInv /\ IInv' /\ ReviewedOnce /\ [Next]_vars => ReviewedOnce'
  <2> SUFFICES ASSUME IInv, IInv', ReviewedOnce, [Next]_vars,
                      NEW c \in Seqs, NEW s \in Seqs, c < s,
                      Event[c].kind = "collaboration", Event[c].about = s,
                      Event[s].kind \in {"message", "hello"},
                      Present(c)', Present(s)'
               PROVE  FALSE
    BY DEF ReviewedOnce
  <2> USE ConstantsAssumption
  <2>1. ~ (Present(c) /\ Present(s)) BY DEF ReviewedOnce
  <2>2. CASE Steady BY <2>1, <2>2 DEF Steady, SteadyRequest, Present
  <2>3. CASE Starts BY <2>1, <2>3, StartFacts DEF Present
  <2>4. CASE Receives
    <3>1. PICK n \in Seqs :
            /\ n = after + 1 /\ after' = n
            /\ \A t \in Seqs :
                 \/ SteadyRequest(req'[t], req[t])
                 \/ t = n /\ Accepts(n)
      BY <2>4, ReceiptFacts
    <3>2. s <= n BY <3>1 DEF IInv, SavedStateValid
    <3>3. c # n BY <3>2 DEF Seqs
    <3>4. Present(c) BY <3>1, <3>3 DEF SteadyRequest, Present
    <3>5. ~ Accepts(s) BY <3>4 DEF Accepts
    <3>6. Present(s) BY <3>1, <3>5 DEF SteadyRequest, Present
    <3> QED BY <2>1, <3>4, <3>6
  <2> QED BY <2>2, <2>3, <2>4, NextSteady
<1> QED BY <1>1, <1>2, Inductive, PTL DEF Spec

-----------------------------------------------------------------------------
(***************************************************************************)
(* Plans stay free of cycles.  Only plan adds a dependency, and plan looks *)
(* only at what the planned request reaches.                               *)
(***************************************************************************)
(* What the search visits holds its start and is closed under dependencies. *)
LEMMA ReachedClosed ==
  ASSUME NEW deps \in [Seqs -> SUBSET Seqs], NEW s \in Seqs
  PROVE  /\ Reached(deps, s) \subseteq Seqs
         /\ s \in Reached(deps, s)
         /\ \A x \in Reached(deps, s) : deps[x] \subseteq Reached(deps, s)
<1> DEFINE Closed(C) == s \in C /\ \A y \in C : deps[y] \subseteq C
<1>1. Reached(deps, s) = {x \in Seqs : \A C \in SUBSET Seqs : Closed(C) => x \in C}
  BY DEF Reached
<1>2. ASSUME NEW x \in Reached(deps, s), NEW y \in deps[x]
      PROVE  y \in Reached(deps, s)
  <2>1. x \in Seqs /\ y \in Seqs BY <1>1, <1>2
  <2>2. ASSUME NEW C \in SUBSET Seqs, Closed(C) PROVE y \in C
    <3>1. x \in C BY <1>1, <2>2
    <3> QED BY <1>2, <2>2, <3>1
  <2> HIDE DEF Closed
  <2> QED BY <1>1, <2>1, <2>2
<1> QED BY <1>1, <1>2

(* No operation but plan writes into the dependencies of a request. *)
LEMMA WrittenDeps ==
  ASSUME NEW r \in Request, NEW w, NEW a, NEW t, NEW text
  PROVE  /\ Started(r, w, a).deps = r.deps /\ GivenBack(r, t).deps = r.deps
         /\ Acked(r).deps = r.deps /\ Answered(r, text).deps = r.deps
         /\ Reported(r, a, t).deps = r.deps /\ Shown(r).deps = r.deps
         /\ Resolved(r, t).deps = r.deps /\ Recovered(r, t).deps = r.deps
         /\ Undelivered(r).deps = r.deps /\ Cancelled(r).deps = r.deps
         /\ Annotated(r, a).deps = r.deps /\ Reopened(r).deps = r.deps
<1>1. /\ Started(r, w, a).deps = r.deps /\ GivenBack(r, t).deps = r.deps
      /\ Acked(r).deps = r.deps /\ Answered(r, text).deps = r.deps
  BY DEF Request, Started, GivenBack, Acked, Answered
<1>2. Reported(r, a, t).deps = r.deps
  BY DEF Request, Reported, Asked, GivenBack
<1>3. Shown(r).deps = r.deps /\ Resolved(r, t).deps = r.deps
  BY DEF Request, Shown, Resolved
<1>4. Recovered(r, t).deps = r.deps
  BY DEF Request, Recovered, GivenBack
<1>5. /\ Undelivered(r).deps = r.deps /\ Cancelled(r).deps = r.deps
      /\ Annotated(r, a).deps = r.deps /\ Reopened(r).deps = r.deps
  BY DEF Request, Undelivered, Cancelled, Annotated, Reopened
<1> QED BY <1>1, <1>2, <1>3, <1>4, <1>5

PlansKept == \A t \in Seqs : req'[t].deps \subseteq req[t].deps

Replans == \E s \in Seqs, p \in Plans : Plan(s, p[1], p[2])

LEMMA SaveKeepsPlans ==
  ASSUME IInv, NEW s \in Seqs, NEW r, SaveRequest(s, r), r.deps = req[s].deps
  PROVE  PlansKept
BY DEF PlansKept, SaveRequest, IInv, TypeOK

LEMMA NextPlans ==
  ASSUME ConstantsAssumption, IInv, [Next]_vars
  PROVE  PlansKept \/ Replans
<1>1. ASSUME UNCHANGED req PROVE PlansKept BY <1>1 DEF PlansKept
<1>2. ASSUME NEW s \in Seqs, Worker(s) PROVE PlansKept
  <2>1. req[s] \in Request BY RequestType
  <2>2. ASSUME NEW r, SaveRequest(s, r), r.deps = req[s].deps PROVE PlansKept
    BY <2>2, SaveKeepsPlans
  <2>3. ASSUME NEW w \in Workers, Claim(s, w) PROVE PlansKept
    BY <1>1, <2>1, <2>2, <2>3, WrittenDeps DEF Claim
  <2>4. ASSUME NEW a, Release(s, a) PROVE PlansKept
    BY <2>1, <2>2, <2>4, WrittenDeps DEF Release
  <2>5. ASSUME NEW a, Ack(s, a) PROVE PlansKept
    BY <2>1, <2>2, <2>5, WrittenDeps DEF Ack
  <2>6. ASSUME NEW a, NEW text, Reply(s, a, text) PROVE PlansKept
    BY <2>1, <2>2, <2>6, WrittenDeps DEF Reply
  <2>7. ASSUME NEW a, NEW status, Outcome(s, a, status) PROVE PlansKept
    BY <2>1, <2>2, <2>7, WrittenDeps DEF Outcome
  <2>8. ASSUME NEW a, WorkerStops(s, a) PROVE PlansKept
    BY <1>1, <2>8 DEF WorkerStops
  <2> QED BY <1>2, <2>3, <2>4, <2>5, <2>6, <2>7, <2>8 DEF Worker
<1>3. ASSUME NEW s \in Seqs, Controller(s) PROVE PlansKept \/ Replans
  <2>1. req[s] \in Request BY RequestType
  <2>2. ASSUME NEW r, SaveRequest(s, r), r.deps = req[s].deps PROVE PlansKept
    BY <2>2, SaveKeepsPlans
  <2>3. ASSUME NEW q, Presented(s, q) PROVE PlansKept
    BY <2>1, <2>2, <2>3, WrittenDeps DEF Presented
  <2>4. ASSUME NEW q, NEW action, Resolve(s, q, action) PROVE PlansKept
    BY <2>1, <2>2, <2>4, WrittenDeps DEF Resolve
  <2>5. ASSUME NEW action, NEW stopped, Recover(s, action, stopped)
        PROVE  PlansKept
    BY <2>1, <2>2, <2>5, WrittenDeps DEF Recover
  <2> QED BY <1>3, <2>3, <2>4, <2>5 DEF Controller, Replans
<1>4. ASSUME NEW s \in Seqs, Delivery(s) PROVE PlansKept
  <2>1. req[s] \in Request BY RequestType
  <2>2. ASSUME NEW r, SaveRequest(s, r), r.deps = req[s].deps PROVE PlansKept
    BY <2>2, SaveKeepsPlans
  <2>3. ASSUME NEW saved, DeliverDone(s, saved) PROVE PlansKept
    BY <2>1, <2>2, <2>3, WrittenDeps DEF DeliverDone
  <2>4. ASSUME NEW saved, DeliverError(s, saved) PROVE PlansKept
    BY <2>1, <2>2, <2>4, WrittenDeps DEF DeliverError
  <2> QED BY <1>1, <1>4, <2>3, <2>4 DEF Delivery, DeliverStart, ServerStore
<1>5. ASSUME NEW s \in Seqs, NEW valid \in BOOLEAN, Ingest(s, valid)
      PROVE  PlansKept
  <2> SUFFICES ASSUME NEW t \in Seqs PROVE req'[t].deps \subseteq req[t].deps
    BY DEF PlansKept
  <2>1. req[t] \in Request BY RequestType
  <2>2. \/ req'[t] = req[t]
        \/ \E status : req'[t] = NewRequest(s, status)
        \/ req'[t] = Annotated(req[t], Event[s].key)
    BY <1>5 DEF Ingest
  <2>3. \A status : NewRequest(s, status).deps = {} BY DEF NewRequest
  <2> QED BY <2>1, <2>2, <2>3, WrittenDeps
<1>6. CASE Revalidate \/ \E peers \in SUBSET Senders : Open(peers)
  <2> SUFFICES ASSUME NEW t \in Seqs PROVE req'[t].deps \subseteq req[t].deps
    BY DEF PlansKept
  <2>1. req[t] \in Request BY RequestType
  <2>2. \/ req'[t] = req[t]
        \/ req'[t] = Cancelled(req[t])
        \/ req'[t] = Reopened(req[t])
    BY <1>6 DEF Revalidate, Open
  <2> QED BY <2>1, <2>2, WrittenDeps
<1>7. CASE Crash \/ \E max \in Limits : Policy(max)
  BY <1>1, <1>7 DEF Crash, Policy
<1>8. CASE UNCHANGED vars BY <1>1, <1>8 DEF vars
<1> QED BY <1>2, <1>3, <1>4, <1>5, <1>6, <1>7, <1>8 DEF Next

(* A new plan closes no cycle: what waits in a circle would hold the planned *)
(* request and one of its dependencies d, and what d reaches of the circle   *)
(* would be a circle of the old plans, for d does not reach the request.     *)
LEMMA PlanAcyclic ==
  ASSUME ConstantsAssumption, IInv, PlansAcyclic, NEW s \in Seqs,
         NEW D \in SUBSET Seqs, NEW R \in SUBSET Resources, Plan(s, D, R)
  PROVE  PlansAcyclic'
<1> DEFINE new == [t \in Seqs |-> IF t = s THEN D ELSE req[t].deps]
<1>1. req[s] \in Request /\ \A t \in Seqs : req[t].deps \in SUBSET Seqs
  BY RequestType DEF Request
<1>2. new \in [Seqs -> SUBSET Seqs] BY <1>1
<1>3. \A t \in Seqs : req'[t].deps = new[t]
  <2>1. SaveRequest(s, Planned(req[s], D, R)) BY DEF Plan
  <2>2. Planned(req[s], D, R) \in Request /\ Planned(req[s], D, R).deps = D
    BY <1>1, PlannedFacts DEF Planned, Request
  <2> QED BY <2>1, <2>2, SaveFacts DEF IInv
<1>4. PlanOK(new, s) BY DEF Plan
<1>5. new[s] = D /\ \A t \in Seqs : t # s => new[t] = req[t].deps OBVIOUS
<1> HIDE DEF new
<1>6. \A d \in D : s \notin Reached(new, d)
  BY <1>2, <1>4, <1>5, ReachedClosed DEF PlanOK
<1> SUFFICES ASSUME NEW S \in SUBSET Seqs, S # {},
                    \A x \in S : new[x] \cap S # {}
             PROVE  FALSE
  BY <1>3 DEF PlansAcyclic
<1>7. CASE s \notin S
  <2>1. PICK x \in S : req[x].deps \cap S = {} BY DEF PlansAcyclic
  <2> QED BY <1>5, <1>7, <2>1
<1>8. CASE s \in S
  <2>1. PICK d \in D : d \in S BY <1>5, <1>8
  <2> DEFINE T == S \cap Reached(new, d)
  <2>2. d \in T /\ s \notin T BY <1>2, <1>6, <2>1, ReachedClosed
  <2>3. PICK x \in T : req[x].deps \cap T = {}
    <3>1. T \in SUBSET Seqs /\ T # {} BY <2>2
    <3> HIDE DEF T
    <3> QED BY <3>1 DEF PlansAcyclic
  <2>4. x # s /\ x \in Seqs BY <2>2, <2>3
  <2>5. PICK y \in new[x] : y \in S BY <2>3
  <2>6. y \in Reached(new, d) BY <1>2, <2>1, <2>3, <2>5, ReachedClosed
  <2> QED BY <1>5, <2>3, <2>4, <2>5, <2>6
<1> QED BY <1>7, <1>8

(* No set of requests ever waits on itself: planning one request at a time, *)
(* with a check of what that request reaches, keeps the whole graph acyclic. *)
THEOREM NoCircularWait == Spec => []PlansAcyclic
<1>1. Init => PlansAcyclic
  <2> SUFFICES ASSUME Init PROVE \A t \in Seqs : req[t].deps = {}
    BY DEF PlansAcyclic
  <2> QED BY DEF Init, NewRequest
<1>2. IInv /\ PlansAcyclic /\ [Next]_vars => PlansAcyclic'
  <2> SUFFICES ASSUME IInv, PlansAcyclic, [Next]_vars PROVE PlansAcyclic'
    OBVIOUS
  <2> USE ConstantsAssumption
  <2>1. CASE PlansKept
    <3> SUFFICES ASSUME NEW S \in SUBSET Seqs, S # {}
                 PROVE  \E s \in S : req'[s].deps \cap S = {}
      BY DEF PlansAcyclic
    <3>1. PICK s \in S : req[s].deps \cap S = {} BY DEF PlansAcyclic
    <3> QED BY <2>1, <3>1 DEF PlansKept
  <2>2. CASE Replans
    <3>1. PICK s \in Seqs, p \in Plans : Plan(s, p[1], p[2])
      BY <2>2 DEF Replans
    <3>2. p[1] \in SUBSET Seqs /\ p[2] \in SUBSET Resources
      BY DEF ConstantsAssumption
    <3> QED BY <3>1, <3>2, PlanAcyclic
  <2> QED BY <2>1, <2>2, NextPlans
<1> QED BY <1>1, <1>2, Inductive, PTL DEF Spec
=============================================================================
