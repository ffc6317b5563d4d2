------------------------------- MODULE Inbox -------------------------------
(***************************************************************************)
(* The commitment controller of one connection: the durable inbox that     *)
(* cmd/tincan/inbox.go, inbox_requests.go and inbox_claim.go keep for an   *)
(* agent.  Events received from the server become requests; a worker must  *)
(* hold a request's claim to act on it, reports an outcome, and the reply  *)
(* is saved before it is posted.  A user or operator (the controller)      *)
(* resolves questions and reconciles uncertain executions.                 *)
(*                                                                         *)
(* Every operation runs under the inbox mutex, works on a copy and is      *)
(* visible only once the copy is on disk (save), so one action is one      *)
(* critical section and the same variables stand for memory and disk.  A   *)
(* failed save leaves both unchanged: a stuttering step.                   *)
(***************************************************************************)
EXTENDS Naturals, FiniteSets

CONSTANTS
  N,            \* number of events the server emits; sequences are 1..N
  Event,        \* what the server says about each of them
  Senders,      \* agents whose messages the operator may allow
  Self,         \* this agent
  Workers,      \* worker ids
  NoWorker,     \* no WorkerID
  Resources,    \* canonical resource keys
  Texts,        \* reply texts of workers
  DeclineText,  \* the reply decision() saves when the user declines
  NoText,       \* a nil reply
  Limits,       \* MaxWorkers values the controller sets (0: default)
  Plans,        \* <<dependencies, resources>> pairs the controller plans
  Outcomes,     \* outcomes workers report besides "completed"
  MaxAttempts   \* bound on claims of one request (unbounded in the code)

Seqs == 1..N

EventKinds ==
  {"message", "hello", "join_requested", "semantic", "attention",
   "collaboration"}

SuspendedStatus == {"awaiting_approval", "awaiting_information"}

Status ==
  {"absent", "ready", "running", "failed", "needs_recovery",
   "reply_pending", "completed", "declined", "cancelled"} \cup SuspendedStatus

(***************************************************************************)
(* An event: its kind ("hello" is the message lifecycleKind recognises,    *)
(* "attention" a semantic_attention of kind attention, "semantic" any      *)
(* other), its sender, the message it is about (Payload.ID is the          *)
(* message's own sequence), the SuggestionID or RequestID it carries,      *)
(* whether it is addressed to this agent (owner id or creator check) and   *)
(* whether it is another listener's automated message.                     *)
(***************************************************************************)
EventRecord ==
  [kind : EventKinds, from : Senders \cup {Self}, about : Nat, key : Nat,
   owned : BOOLEAN, automated : BOOLEAN]

ASSUME ConstantsAssumption ==
  /\ N \in Nat
  /\ Event \in [Seqs -> EventRecord]
  /\ Self \notin Senders
  /\ NoWorker \notin Workers
  /\ DeclineText \notin Texts
  /\ NoText \notin Texts \cup {DeclineText}
  /\ Limits \subseteq 0..32
  /\ Plans \subseteq (SUBSET Seqs) \X (SUBSET Resources)
  /\ Outcomes \subseteq SuspendedStatus \cup {"failed", "needs_recovery"}
  /\ MaxAttempts \in Nat

VARIABLES
  up,          \* a process holds the inbox lock
  after,       \* cursor: last event received (inboxState.After)
  req,         \* inboxState.Requests, by sequence; "absent" if there is none
  maxWorkers,  \* Policy.MaxWorkers, 0 if there is no policy
  allowed,     \* sender allowlist of the open inbox
  posting,     \* sequence whose reply is being posted (replyMu held), or 0
  sent,        \* every <<sequence, text>> ever put on the wire
  srv,         \* server: message stored under key listen_<agent>_<seq>
  live,        \* executions <<sequence, attempt>> really under way
  ungranted    \* history: questions for approval the user has not approved

vars == <<up, after, req, maxWorkers, allowed, posting, sent, srv, live,
          ungranted>>

Request ==
  [status : Status, claim : Nat, worker : Workers \cup {NoWorker},
   reply : Texts \cup {DeclineText, NoText}, deliveryError : BOOLEAN,
   question : Nat, delivery : {"none", "pending", "presented", "answered"},
   declined : BOOLEAN, attempt : Nat, deps : SUBSET Seqs,
   resources : SUBSET Resources, suggestion : Nat]

(***************************************************************************)
(* A claim token is the number of the attempt it was drawn for and a       *)
(* question id the attempt that asked: fresh values, 0 for nil.  declined  *)
(* is Decision = "decline".                                                *)
(***************************************************************************)
NewRequest(s, status) ==
  [status |-> status, claim |-> 0, worker |-> NoWorker, reply |-> NoText,
   deliveryError |-> FALSE, question |-> 0, delivery |-> "none",
   declined |-> FALSE, attempt |-> 0, deps |-> {}, resources |-> {},
   suggestion |-> IF Event[s].kind \in {"semantic", "attention"}
                  THEN Event[s].key ELSE 0]

TypeOK ==
  /\ up \in BOOLEAN
  /\ after \in 0..N
  /\ req \in [Seqs -> Request]
  /\ maxWorkers \in 0..32
  /\ allowed \subseteq Senders
  /\ posting \in 0..N
  /\ sent \subseteq Seqs \X (Texts \cup {DeclineText})
  /\ srv \in [Seqs -> Texts \cup {DeclineText, NoText}]
  /\ live \subseteq Seqs \X Nat
  /\ ungranted \subseteq Seqs \X Nat

Init ==
  /\ up = TRUE
  /\ after = 0
  /\ req = [s \in Seqs |-> NewRequest(s, "absent")]
  /\ maxWorkers = 0
  /\ allowed = Senders
  /\ posting = 0
  /\ sent = {}
  /\ srv = [s \in Seqs |-> NoText]
  /\ live = {}
  /\ ungranted = {}

-----------------------------------------------------------------------------
(***************************************************************************)
(* Predicates the operations share.                                        *)
(***************************************************************************)
Present(s) == req[s].status # "absent"
Terminal(s) == req[s].status \in {"completed", "declined", "cancelled"}
Lifecycle(s) == Event[s].kind = "hello"
Running == {s \in Seqs : req[s].status = "running"}
Claimed == {s \in Seqs : req[s].claim # 0}
LiveOf(s) == {x \in live : x[1] = s}

(* Mutant of Accepts: the correlation with a private notice is forgotten. *)
AcceptsUncorrelated(s) ==
  LET e == Event[s] IN
  IF e.kind \in {"message", "hello"}
  THEN /\ IF e.from = Self THEN e.kind = "hello" ELSE e.from \in allowed
       /\ e.automated => e.kind = "hello"
  ELSE e.owned

(* Whether an event may become, or stay, work for this agent. *)
Accepts(s) ==
  LET e == Event[s] IN
  IF e.kind \in {"message", "hello"}
  THEN /\ IF e.from = Self THEN e.kind = "hello" ELSE e.from \in allowed
       /\ \A c \in Seqs :
            ~ (Present(c) /\ Event[c].kind = "collaboration"
                          /\ Event[c].about = s)
       /\ e.automated => e.kind = "hello"
  ELSE e.owned

SharesResource(s, a) == req[s].resources \cap req[a].resources # {}

(* Mutant of Conflict: only resource keys are compared. *)
ConflictByResource(s, a) == SharesResource(s, a)

Conflict(s, a) ==
  \/ req[s].suggestion # 0 /\ req[s].suggestion = req[a].suggestion
  \/ /\ Event[s].kind = "collaboration" /\ Event[a].kind = "collaboration"
     /\ Event[s].key = Event[a].key
  \/ SharesResource(s, a)

Limit == IF maxWorkers > 0 THEN maxWorkers ELSE 4

(* Mutant of Eligible: looks for conflicts among running work only. *)
EligibleAmongRunning(s) ==
  /\ req[s].status = "ready"
  /\ \/ Lifecycle(s)
     \/ /\ Cardinality(Running) < Limit
        /\ \A d \in req[s].deps : req[d].status = "completed"
        /\ \A a \in Running : ~ Conflict(s, a)

(* Mutant of Eligible: any resolved dependency counts as finished. *)
EligibleAfterResolved(s) ==
  /\ req[s].status = "ready"
  /\ \/ Lifecycle(s)
     \/ /\ Cardinality(Running) < Limit
        /\ \A d \in req[s].deps : Terminal(d)
        /\ \A a \in Claimed : ~ Conflict(s, a)

(* A ready request that may start now; connection notices skip the queue. *)
Eligible(s) ==
  /\ req[s].status = "ready"
  /\ \/ Lifecycle(s)
     \/ /\ Cardinality(Running) < Limit
        /\ \A d \in req[s].deps : req[d].status = "completed"
        /\ \A a \in Claimed : ~ Conflict(s, a)

HoldsClaim(s, a) == a # 0 /\ req[s].claim = a

(* Mutant of CheckRequestClaim: a caller without a claim, the parent, may   *)
(* act on work that a worker has claimed.                                   *)
CheckOfferedClaim(s, a) ==
  /\ a # 0 => req[s].claim = a
  /\ req[s].status \notin SuspendedStatus \cup {"needs_recovery"}

(* Guard of ack and reply: the token of the active claim, and only it. *)
CheckRequestClaim(s, a) ==
  /\ req[s].claim = a
  /\ req[s].status \notin SuspendedStatus \cup {"needs_recovery"}

SaveRequest(s, r) == req' = [req EXCEPT ![s] = r]

-----------------------------------------------------------------------------
(***************************************************************************)
(* Receipt.                                                                *)
(***************************************************************************)

Annotated(r, key) == [r EXCEPT !.suggestion = key]

(* ingest: the cursor moves past every event, valid or not; an attention   *)
(* classification only annotates the message it is about.                  *)
Ingest(s, valid) ==
  LET accepted == valid /\ Accepts(s)
      attention == Event[s].kind = "attention" IN
  /\ up
  /\ s = after + 1
  /\ after' = s
  /\ req' = [r \in Seqs |->
       IF r = s /\ accepted
       THEN NewRequest(s, IF attention THEN "completed" ELSE "ready")
       ELSE IF /\ accepted /\ attention /\ r = Event[s].about
               /\ Present(r) /\ Event[r].kind \in {"message", "hello"}
            THEN Annotated(req[r], Event[s].key)
            ELSE req[r]]
  /\ UNCHANGED <<up, maxWorkers, allowed, posting, sent, srv, live, ungranted>>

Cancelled(r) == [r EXCEPT !.status = "cancelled"]

(* next: ready work that is no longer accepted is cancelled. *)
Revalidate ==
  /\ up
  /\ req' = [s \in Seqs |->
       IF req[s].status = "ready" /\ ~ Accepts(s)
       THEN Cancelled(req[s])
       ELSE req[s]]
  /\ UNCHANGED <<up, after, maxWorkers, allowed, posting, sent, srv, live,
                 ungranted>>

-----------------------------------------------------------------------------
(***************************************************************************)
(* Workers.  A token may be presented by any call that ever received it,   *)
(* however late; reporting an outcome means the worker has stopped, except *)
(* for needs_recovery, which says that nobody knows.                       *)
(***************************************************************************)
Tokens(s) == 1..req[s].attempt

Started(r, w, a) ==
  [r EXCEPT !.claim = a, !.worker = w, !.status = "running", !.attempt = a]

(* claim: a fresh claim of eligible work, or the same worker asking again. *)
Claim(s, w) ==
  /\ up /\ Present(s)
  /\ req[s].reply = NoText
  /\ Accepts(s)
  /\ \/ /\ req[s].claim # 0
        /\ req[s].worker = w /\ req[s].status = "running"
        /\ live' = live \cup {<<s, req[s].claim>>}
        /\ UNCHANGED req
     \/ /\ req[s].claim = 0
        /\ Eligible(s)
        /\ req[s].attempt < MaxAttempts
        /\ SaveRequest(s, Started(req[s], w, req[s].attempt + 1))
        /\ live' = live \cup {<<s, req[s].attempt + 1>>}
  /\ UNCHANGED <<up, after, maxWorkers, allowed, posting, sent, srv, ungranted>>

GivenBack(r, status) ==
  [r EXCEPT !.claim = 0, !.worker = NoWorker, !.status = status]

(* Mutant of Release: a saved reply is not looked at. *)
ReleaseAnyway(s, a) ==
  /\ up
  /\ HoldsClaim(s, a)
  /\ SaveRequest(s, GivenBack(req[s], "ready"))
  /\ live' = live \ {<<s, a>>}
  /\ UNCHANGED <<up, after, maxWorkers, allowed, posting, sent, srv, ungranted>>

Release(s, a) ==
  /\ up
  /\ HoldsClaim(s, a)
  /\ req[s].reply = NoText
  /\ SaveRequest(s, GivenBack(req[s], "ready"))
  /\ live' = live \ {<<s, a>>}
  /\ UNCHANGED <<up, after, maxWorkers, allowed, posting, sent, srv, ungranted>>

(* ackLocked *)
Acked(r) ==
  IF r.status \in {"completed", "declined"} THEN r
  ELSE [r EXCEPT !.status = IF r.declined THEN "declined" ELSE "completed",
                 !.claim = 0, !.worker = NoWorker, !.reply = NoText,
                 !.deliveryError = FALSE]

(* Notices the parent presents and dismisses without a claim. *)
ClaimlessAck(s) ==
  \/ Lifecycle(s)
  \/ Event[s].kind = "join_requested" /\ Event[s].owned

(* Mutant of Ack: acknowledges while a reply waits for delivery. *)
AckUndelivered(s, a) ==
  /\ up /\ Present(s)
  /\ a = 0 => ClaimlessAck(s)
  /\ CheckRequestClaim(s, a)
  /\ SaveRequest(s, Acked(req[s]))
  /\ live' = live \ {<<s, a>>}
  /\ UNCHANGED <<up, after, maxWorkers, allowed, posting, sent, srv, ungranted>>

(* ack, and outcome "completed" without a reply; a = 0 is an empty claim. *)
Ack(s, a) ==
  /\ up /\ Present(s)
  /\ a = 0 => ClaimlessAck(s)
  /\ CheckRequestClaim(s, a)
  /\ req[s].reply = NoText
  /\ SaveRequest(s, Acked(req[s]))
  /\ live' = live \ {<<s, a>>}
  /\ UNCHANGED <<up, after, maxWorkers, allowed, posting, sent, srv, ungranted>>

Answered(r, text) == [r EXCEPT !.reply = text, !.status = "reply_pending"]

(* Mutant of Reply: a retry replaces the reply already saved. *)
ReplyReplacing(s, a, text) ==
  /\ up /\ a # 0
  /\ req[s].status # "completed"
  /\ CheckRequestClaim(s, a)
  /\ Event[s].kind = "message"
  /\ SaveRequest(s, Answered(req[s], text))
  /\ live' = live \ {<<s, a>>}
  /\ UNCHANGED <<up, after, maxWorkers, allowed, posting, sent, srv, ungranted>>

(* reply, and outcome "completed" with a reply: saved once, then delivered. *)
Reply(s, a, text) ==
  /\ up /\ a # 0
  /\ req[s].status # "completed"
  /\ CheckRequestClaim(s, a)
  /\ Event[s].kind = "message"
  /\ req[s].reply = NoText
  /\ SaveRequest(s, Answered(req[s], text))
  /\ live' = live \ {<<s, a>>}
  /\ UNCHANGED <<up, after, maxWorkers, allowed, posting, sent, srv, ungranted>>

Asked(r, q) == [r EXCEPT !.question = q, !.delivery = "pending"]

(* Mutant of Reported: a suspension keeps the claim. *)
ReportedHolding(r, a, status) ==
  CASE status = "needs_recovery" -> [r EXCEPT !.status = status]
    [] status = "failed" -> GivenBack(r, status)
    [] OTHER -> [Asked(r, a) EXCEPT !.status = status]

(* A suspension asks a new question and gives the claim back, a failure     *)
(* gives it back, and only needs_recovery keeps it.                         *)
Reported(r, a, status) ==
  CASE status = "needs_recovery" -> [r EXCEPT !.status = status]
    [] status = "failed" -> GivenBack(r, status)
    [] OTHER -> GivenBack(Asked(r, a), status)

(* outcome, other than "completed". *)
Outcome(s, a, status) ==
  /\ up
  /\ HoldsClaim(s, a)
  /\ req[s].reply = NoText
  /\ SaveRequest(s, Reported(req[s], a, status))
  /\ live' = IF status = "needs_recovery" THEN live ELSE live \ {<<s, a>>}
  /\ ungranted' = IF status = "awaiting_approval"
                  THEN ungranted \cup {<<s, a>>} ELSE ungranted
  /\ UNCHANGED <<up, after, maxWorkers, allowed, posting, sent, srv>>

(* A worker ends without a word (external). *)
WorkerStops(s, a) ==
  /\ <<s, a>> \in live
  /\ live' = live \ {<<s, a>>}
  /\ UNCHANGED <<up, after, req, maxWorkers, allowed, posting, sent, srv,
                 ungranted>>

-----------------------------------------------------------------------------
(***************************************************************************)
(* The controller: the originating user or operator.                       *)
(***************************************************************************)

Shown(r) == [r EXCEPT !.delivery = "presented"]

(* decision "presented": the question was shown. *)
Presented(s, q) ==
  /\ up /\ Present(s)
  /\ q # 0 /\ req[s].question = q
  /\ req[s].delivery # "answered"
  /\ SaveRequest(s, Shown(req[s]))
  /\ UNCHANGED <<up, after, maxWorkers, allowed, posting, sent, srv, live,
                 ungranted>>

Resolved(r, action) ==
  IF action = "decline"
  THEN [r EXCEPT !.delivery = "answered", !.declined = TRUE,
                 !.reply = DeclineText, !.status = "reply_pending"]
  ELSE [r EXCEPT !.delivery = "answered", !.declined = FALSE,
                 !.status = "ready"]

(* decision "approve", "decline", "answer": once, on the question asked. *)
Resolve(s, q, action) ==
  /\ up /\ Present(s)
  /\ q # 0 /\ req[s].question = q
  /\ req[s].delivery # "answered"
  /\ req[s].status \in SuspendedStatus
  /\ action = "answer" => req[s].status = "awaiting_information"
  /\ SaveRequest(s, Resolved(req[s], action))
  /\ ungranted' = IF action = "approve" THEN ungranted \ {<<s, q>>}
                  ELSE ungranted
  /\ UNCHANGED <<up, after, maxWorkers, allowed, posting, sent, srv, live>>

Recovered(r, action) ==
  [GivenBack(r, IF action = "cancel" THEN "cancelled" ELSE "ready")
     EXCEPT !.declined = FALSE]

(* Mutant of Recover: the claim is dropped without asking whether the       *)
(* execution has stopped.                                                   *)
RecoverUnconfirmed(s, action, stopped) ==
  /\ up /\ Present(s)
  /\ stopped => LiveOf(s) = {}
  /\ req[s].reply = NoText
  /\ ~ Terminal(s)
  /\ req[s].status # "awaiting_approval"
  /\ SaveRequest(s, Recovered(req[s], action))
  /\ UNCHANGED <<up, after, maxWorkers, allowed, posting, sent, srv, live,
                 ungranted>>

(* Mutant of Recover: resume also lifts an open question for approval. *)
RecoverUnapproved(s, action, stopped) ==
  /\ up /\ Present(s)
  /\ stopped => LiveOf(s) = {}
  /\ req[s].reply = NoText
  /\ req[s].claim # 0 => stopped
  /\ ~ Terminal(s)
  /\ SaveRequest(s, Recovered(req[s], action))
  /\ UNCHANGED <<up, after, maxWorkers, allowed, posting, sent, srv, live,
                 ungranted>>

(* Mutant of Recover: resolved work may be resumed. *)
RecoverResolved(s, action, stopped) ==
  /\ up /\ Present(s)
  /\ stopped => LiveOf(s) = {}
  /\ req[s].reply = NoText
  /\ req[s].claim # 0 => stopped
  /\ req[s].status # "awaiting_approval"
  /\ SaveRequest(s, Recovered(req[s], action))
  /\ UNCHANGED <<up, after, maxWorkers, allowed, posting, sent, srv, live,
                 ungranted>>

(* decision "resume", "cancel": a held claim is dropped only if the         *)
(* controller says the execution has stopped, and then it has.              *)
Recover(s, action, stopped) ==
  /\ up /\ Present(s)
  /\ stopped => LiveOf(s) = {}
  /\ req[s].reply = NoText
  /\ req[s].claim # 0 => stopped
  /\ ~ Terminal(s)
  /\ req[s].status # "awaiting_approval"
  /\ SaveRequest(s, Recovered(req[s], action))
  /\ UNCHANGED <<up, after, maxWorkers, allowed, posting, sent, srv, live,
                 ungranted>>

Policy(max) ==
  /\ up
  /\ maxWorkers' = max
  /\ UNCHANGED <<up, after, req, allowed, posting, sent, srv, live, ungranted>>

(* What plan's depth-first search visits from s, the least set that holds s *)
(* and the dependencies of its members, and what the search refuses: an     *)
(* unknown request, or one that reaches itself.                             *)
Reached(deps, s) ==
  LET Closed(C) == s \in C /\ \A y \in C : deps[y] \subseteq C
  IN  {x \in Seqs : \A C \in SUBSET Seqs : Closed(C) => x \in C}

(* Mutant of PlanOK: only the planned request itself is looked at. *)
PlanOKShallow(deps, s) == Present(s) /\ \A d \in deps[s] : Present(d) /\ d # s

PlanOK(deps, s) ==
  \A x \in Reached(deps, s) :
    /\ Present(x)
    /\ \A d \in deps[x] : x \notin Reached(deps, d)

Planned(r, D, R) == [r EXCEPT !.deps = D, !.resources = R]

Plan(s, D, R) ==
  /\ up
  /\ req[s].status = "ready"
  /\ PlanOK([r \in Seqs |-> IF r = s THEN D ELSE req[r].deps], s)
  /\ SaveRequest(s, Planned(req[s], D, R))
  /\ UNCHANGED <<up, after, maxWorkers, allowed, posting, sent, srv, live,
                 ungranted>>

-----------------------------------------------------------------------------
(***************************************************************************)
(* Delivery of saved replies: from reply itself, from next and from the    *)
(* outbox loop, one at a time under replyMu but outside the inbox mutex.   *)
(***************************************************************************)
(* Mutant of DeliverStart: posts whatever the request holds, nil included. *)
DeliverStartUnsaved(s) ==
  /\ up /\ posting = 0
  /\ Present(s)
  /\ posting' = s
  /\ sent' = sent \cup {<<s, req[s].reply>>}
  /\ UNCHANGED <<up, after, req, maxWorkers, allowed, srv, live, ungranted>>

(* Mutant of DeliverStart: a reply whose delivery failed is not retried. *)
DeliverStartOnce(s) ==
  /\ up /\ posting = 0
  /\ req[s].reply # NoText /\ ~ req[s].deliveryError
  /\ posting' = s
  /\ sent' = sent \cup {<<s, req[s].reply>>}
  /\ UNCHANGED <<up, after, req, maxWorkers, allowed, srv, live, ungranted>>

DeliverStart(s) ==
  /\ up /\ posting = 0
  /\ req[s].reply # NoText
  /\ posting' = s
  /\ sent' = sent \cup {<<s, req[s].reply>>}
  /\ UNCHANGED <<up, after, req, maxWorkers, allowed, srv, live, ungranted>>

(* The server stores one message per idempotency key, whenever a post       *)
(* arrives and however often (external).                                    *)
ServerStore(s, text) ==
  /\ <<s, text>> \in sent
  /\ srv[s] = NoText
  /\ srv' = [srv EXCEPT ![s] = text]
  /\ UNCHANGED <<up, after, req, maxWorkers, allowed, posting, sent, live,
                 ungranted>>

(* The post succeeded: acknowledge, unless that save fails. *)
DeliverDone(s, saved) ==
  /\ up /\ posting = s
  /\ srv[s] # NoText
  /\ posting' = 0
  /\ SaveRequest(s, IF saved THEN Acked(req[s]) ELSE req[s])
  /\ UNCHANGED <<up, after, maxWorkers, allowed, sent, srv, live, ungranted>>

Undelivered(r) == [r EXCEPT !.deliveryError = TRUE]

(* Mutant of DeliverError: a failed post gives the request back as ready. *)
DeliverErrorRetried(s, saved) ==
  /\ up /\ posting = s
  /\ posting' = 0
  /\ SaveRequest(s, IF saved /\ req[s].reply # NoText
                    THEN [GivenBack(req[s], "ready") EXCEPT !.reply = NoText]
                    ELSE req[s])
  /\ UNCHANGED <<up, after, maxWorkers, allowed, sent, srv, live, ungranted>>

(* The post failed or its answer was lost; the marker's save may fail too. *)
DeliverError(s, saved) ==
  /\ up /\ posting = s
  /\ posting' = 0
  /\ SaveRequest(s, IF saved /\ req[s].reply # NoText
                    THEN Undelivered(req[s]) ELSE req[s])
  /\ UNCHANGED <<up, after, maxWorkers, allowed, sent, srv, live, ungranted>>

-----------------------------------------------------------------------------
(***************************************************************************)
(* The process.  close and a crash both free the lock; workers live on in  *)
(* their own processes and a post may still be on its way.                 *)
(***************************************************************************)
Crash ==
  /\ up
  /\ up' = FALSE
  /\ posting' = 0
  /\ UNCHANGED <<after, req, maxWorkers, allowed, sent, srv, live, ungranted>>

(* Mutant of Reopened: interrupted work goes back to the queue. *)
ReopenedReady(r) == IF r.status = "running" THEN GivenBack(r, "ready") ELSE r

Reopened(r) ==
  IF r.status = "running" THEN [r EXCEPT !.status = "needs_recovery"] ELSE r

(* openInboxIdentity, with the operator's current allowlist. *)
Open(peers) ==
  /\ ~ up
  /\ up' = TRUE
  /\ allowed' = peers
  /\ req' = [s \in Seqs |-> Reopened(req[s])]
  /\ UNCHANGED <<after, maxWorkers, posting, sent, srv, live, ungranted>>

-----------------------------------------------------------------------------
Controller(s) ==
  \/ \E q \in Tokens(s) : Presented(s, q)
  \/ \E q \in Tokens(s), action \in {"approve", "decline", "answer"} :
       Resolve(s, q, action)
  \/ \E action \in {"resume", "cancel"}, stopped \in BOOLEAN :
       Recover(s, action, stopped)
  \/ \E p \in Plans : Plan(s, p[1], p[2])

Worker(s) ==
  \/ \E w \in Workers : Claim(s, w)
  \/ Ack(s, 0)
  \/ \E a \in Tokens(s) :
       \/ Release(s, a)
       \/ Ack(s, a)
       \/ \E text \in Texts : Reply(s, a, text)
       \/ \E status \in Outcomes : Outcome(s, a, status)
       \/ WorkerStops(s, a)

Delivery(s) ==
  \/ DeliverStart(s)
  \/ \E text \in Texts \cup {DeclineText} : ServerStore(s, text)
  \/ \E saved \in BOOLEAN : DeliverDone(s, saved) \/ DeliverError(s, saved)

Next ==
  \/ \E s \in Seqs :
       \/ \E valid \in BOOLEAN : Ingest(s, valid)
       \/ Worker(s)
       \/ Controller(s)
       \/ Delivery(s)
  \/ Revalidate
  \/ \E max \in Limits : Policy(max)
  \/ Crash
  \/ \E peers \in SUBSET Senders : Open(peers)

Spec == Init /\ [][Next]_vars

(* The outbox loop retries every saved reply for as long as a process runs  *)
(* (runOutbox), a post that is retried forever reaches the server and gets  *)
(* its answer back, and a process is started again after every crash.       *)
FairSpec ==
  /\ Spec
  /\ WF_vars(\E peers \in SUBSET Senders : Open(peers))
  /\ \A s \in Seqs :
       /\ SF_vars(DeliverStart(s))
       /\ WF_vars(\E text \in Texts \cup {DeclineText} : ServerStore(s, text))
       /\ SF_vars(DeliverDone(s, TRUE))

-----------------------------------------------------------------------------
(***************************************************************************)
(* Properties.                                                             *)
(***************************************************************************)

(* What save writes, migrate accepts: a restart never finds a state it      *)
(* refuses to open (migrate, inbox_requests.go).  Requests lie behind the   *)
(* cursor, running work is claimed by someone, suspended work has its       *)
(* question and no claim.                                                   *)
SavedStateValid ==
  \A s \in Seqs : Present(s) =>
    /\ s <= after
    /\ req[s].status = "running" => req[s].claim # 0
    /\ req[s].status \in SuspendedStatus =>
         req[s].question # 0 /\ req[s].claim = 0
    /\ req[s].claim # 0 => req[s].worker # NoWorker

(* Status, claim and saved reply never disagree, whichever of the worker,   *)
(* the controller, the outbox and a restart moved last: a reply is saved    *)
(* exactly while reply_pending, a claim is held only by started, unfinished *)
(* work, it is always the newest attempt's, and only received work is tried. *)
ClaimDiscipline ==
  \A s \in Seqs :
    /\ req[s].reply # NoText <=> req[s].status = "reply_pending"
    /\ req[s].claim # 0 =>
         /\ req[s].claim = req[s].attempt
         /\ req[s].status \in {"running", "needs_recovery", "reply_pending"}
    /\ req[s].status = "needs_recovery" => req[s].claim # 0
    /\ req[s].attempt # 0 => Present(s)

(* "A slow or disconnected worker may still be making changes"              *)
(* (inbox_claim.go): whatever crashes, retries and late calls do, a worker  *)
(* that really executes owns the claim, so a request never has two          *)
(* executions at once.                                                      *)
ExecutionOwned ==
  \A x \in live :
    /\ req[x[1]].claim = x[2]
    /\ req[x[1]].status \in {"running", "needs_recovery"}

(* Two notices about the same suggestion or the same outbound request. *)
SameNotice(s, a) ==
  /\ Event[s].kind = Event[a].kind
  /\ Event[s].kind \in {"semantic", "collaboration"}
  /\ Event[s].key = Event[a].key /\ Event[s].key # 0

(* Two executions under way at once share no resource key and review no     *)
(* common suggestion or collaboration request (eligible), also while one of *)
(* them waits for recovery after a restart.  Connection notices skip the    *)
(* queue.                                                                   *)
ExclusiveExecution ==
  \A x, y \in live :
    x[1] # y[1] /\ ~ Lifecycle(x[1]) /\ ~ Lifecycle(y[1]) =>
      ~ SharesResource(x[1], y[1]) /\ ~ SameNotice(x[1], y[1])

(* Work executes only when everything it was planned after is completed,    *)
(* and stays so: no later step un-completes a dependency.                   *)
DependenciesFinished ==
  \A x \in live : ~ Lifecycle(x[1]) =>
    \A d \in req[x[1]].deps : req[d].status = "completed"

(* plan checks only what the planned request reaches; that is enough: in    *)
(* every set of requests one waits for none of the others, so no set of     *)
(* requests waits on itself, however the plans were changed one by one.     *)
PlansAcyclic ==
  \A S \in SUBSET Seqs : S # {} => \E s \in S : req[s].deps \cap S = {}

(* A question for approval gates the work: until the user approves it, the  *)
(* request is suspended or was declined, and never executes again (decision *)
(* in inbox_requests.go; resume and answer are refused for it).             *)
PermissionGate ==
  \A x \in ungranted :
    /\ req[x[1]].status \in {"awaiting_approval", "reply_pending", "declined"}
    /\ LiveOf(x[1]) = {}

(* One answer per request: every post for it, across retries, restarts and  *)
(* delayed arrivals, carries the text that was saved first, and what the    *)
(* server stored is that text.                                              *)
SingleReply ==
  /\ \A x, y \in sent : x[1] = y[1] => x[2] = y[2]
  /\ \A s \in Seqs : srv[s] # NoText => <<s, srv[s]>> \in sent
  /\ \A x \in sent : req[x[1]].reply # NoText => req[x[1]].reply = x[2]

(* A request is finished only once: its text is on the server before a      *)
(* posted request counts as completed or declined.                          *)
PostedBeforeDone ==
  \A x \in sent : Terminal(x[1]) => srv[x[1]] = x[2]

(* "Review that request once instead of also starting a peer reply job"     *)
(* (accepts, inbox.go): a message correlated by a notice that arrived       *)
(* before it never becomes work.                                            *)
ReviewedOnce ==
  \A c, s \in Seqs :
    /\ c < s /\ Present(c)
    /\ Event[c].kind = "collaboration" /\ Event[c].about = s
    /\ Event[s].kind \in {"message", "hello"}
    => ~ Present(s)

(* Completed and declined work is never reopened, re-executed or answered   *)
(* again by any later call.                                                 *)
FinishedIsFinal ==
  [][\A s \in Seqs : req[s].status \in {"completed", "declined"} =>
       /\ req'[s].status = req[s].status
       /\ req'[s].attempt = req[s].attempt
       /\ req'[s].claim = 0]_vars

(* A restart never lets interrupted work run again by itself: a request     *)
(* whose claim is uncertain starts a new attempt only after its claim was   *)
(* given back by its worker or dropped by the controller.                   *)
NoSilentRetry ==
  [][\A s \in Seqs : req'[s].attempt # req[s].attempt =>
       req[s].status = "ready" /\ LiveOf(s) = {}]_vars

(* A saved reply, a refusal included, is eventually on the server and its   *)
(* request finished, through failed posts, lost answers, failed saves and   *)
(* restarts (deliverReplyContext, runOutbox).                               *)
SavedReplyDelivered ==
  \A s \in Seqs :
    req[s].reply # NoText ~> Terminal(s) /\ srv[s] # NoText

(* "do not reply to a private notice" (reply, inbox.go): only a peer's      *)
(* message is ever answered on the wire.                                    *)
PrivateNoticesNeverAnswered ==
  \A x \in sent : Event[x[1]].kind \in {"message", "hello"}

-----------------------------------------------------------------------------
(***************************************************************************)
(* The strengthening that makes the invariants above inductive: they speak *)
(* of executions, and a claim outlives its execution, so each is restated  *)
(* for every claimed request; and what is on the wire, or being posted,    *)
(* pins down the request it belongs to.                                    *)
(***************************************************************************)
ClaimedExclusive ==
  \A s, a \in Claimed :
    s # a /\ ~ Lifecycle(s) /\ ~ Lifecycle(a) =>
      ~ SharesResource(s, a) /\ ~ SameNotice(s, a)

ClaimedAfterDependencies ==
  \A s \in Claimed : ~ Lifecycle(s) =>
    \A d \in req[s].deps : req[d].status = "completed"

NoticeKeepsKey ==
  \A s \in Seqs : Event[s].kind = "semantic" => req[s].suggestion = Event[s].key

UngrantedUnclaimed ==
  \A x \in ungranted :
    /\ req[x[1]].question = x[2] /\ req[x[1]].claim = 0
    /\ req[x[1]].status \in {"awaiting_approval", "reply_pending", "declined"}
    /\ req[x[1]].status # "awaiting_approval" => req[x[1]].declined

SentIsSaved ==
  \A x \in sent :
    \/ req[x[1]].reply = x[2]
    \/ req[x[1]].status \in {"completed", "declined"} /\ srv[x[1]] = x[2]

StoredWasSent ==
  /\ \A x, y \in sent : x[1] = y[1] => x[2] = y[2]
  /\ \A s \in Seqs : srv[s] # NoText => <<s, srv[s]>> \in sent
  /\ posting # 0 => \E x \in sent : x[1] = posting

IInv ==
  /\ TypeOK
  /\ SavedStateValid
  /\ ClaimDiscipline
  /\ ExecutionOwned
  /\ ClaimedExclusive
  /\ ClaimedAfterDependencies
  /\ NoticeKeepsKey
  /\ UngrantedUnclaimed
  /\ SentIsSaved
  /\ StoredWasSent
=============================================================================
