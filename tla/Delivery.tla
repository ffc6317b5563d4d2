------------------------------ MODULE Delivery ------------------------------
(***************************************************************************)
(* How the host hears of work: dispatchChanges (cmd/tincan/                 *)
(* inbox_dispatch.go), the delegated listener (inbox_wait.go,               *)
(* plugin_wait.go), and delivery to a Codex task by push or by its command  *)
(* line queue (plugin_delivery.go, codex_queue.go).                         *)
(*                                                                         *)
(* The durable inbox is seen as far as notices depend on it: Inbox.tla      *)
(* models what changes it.  Only the inbox and the queue's receipt survive  *)
(* a crash.                                                                 *)
(***************************************************************************)
EXTENDS Naturals, Sequences

CONSTANTS
  Events,      \* sequence numbers of messages
  Reviews,     \* of those, admission and connection notices
  None,
  Setups,      \* hosts: whether it is Codex, and whether it runs listeners
  MaxAttempts, \* bound on the executions of each request (unbounded in the code)
  MaxRevision, \* bound on the revision of the inbox, per host (unbounded in the code)
  MaxCrashes   \* bound on restarts of the process

ASSUME DeliveryAssumption ==
  /\ Events \subseteq Nat /\ Reviews \subseteq Events
  /\ None \notin Events
  /\ Setups \subseteq [codex : BOOLEAN, listens : BOOLEAN]
  /\ MaxAttempts \in [Events -> Nat] /\ MaxRevision \in [Setups -> Nat] /\ MaxCrashes \in Nat

VARIABLES
  req,      \* the requests of the durable inbox
  rev,      \* its revision
  eligible, \* the ready requests that may start now
  accepted, \* the received events the agent still works on
  pc,       \* where dispatchChanges is
  snap,     \* notices of the snapshot it works on
  seen,     \* notices it has offered, by event
  todo,     \* events of the snapshot still to be offered
  cur,      \* the event whose notice is being delivered
  changed,  \* the update channel it took is closed
  setup,    \* the host
  receipt,  \* the queue's saved receipt
  watched,  \* history of one invocation of the queue command, any of them
  waiter,   \* where the delegated listener is
  woken,    \* the update channel it took is closed
  reported, \* questions and reviews the listener was told of
  crashes

inbox == <<req, rev, eligible, accepted>>
dispatcher == <<pc, snap, seen, todo, cur, changed>>
host == <<setup, receipt, watched>>
listener == <<waiter, woken, reported>>
vars == <<inbox, dispatcher, host, listener, crashes>>

(* "undelivered" is reply_pending with a delivery error, "suspended" waits   *)
(* for approval or information, "resolved" is completed, declined or         *)
(* cancelled.  asked is the attempt whose question is pending, if any.       *)
Statuses == {"absent", "ready", "running", "needs_recovery", "suspended",
             "failed", "reply_pending", "undelivered", "resolved"}
Requests == [status : Statuses, attempt : Nat, asked : Nat]

Keys ==
  ({"ready"} \X Nat \X Nat) \cup
  ({"question", "needs_recovery", "failed", "reply_pending"} \X Nat)

Receipt == [seq : Events, key : Keys \cup {None}, state : {"attempted", "accepted"}]

(* What is known of the invocation that is followed: whether the command is  *)
(* known to have succeeded, whether otherwise another notice was submitted   *)
(* after it, and whether the same one was submitted again; there the history *)
(* ends.                                                                     *)
Watch == [notice : Events \X Keys, sure : BOOLEAN, other : BOOLEAN, again : BOOLEAN]

(* The absence of a receipt is not a receipt. *)
ASSUME ReceiptAssumption == None \notin Receipt /\ None \notin Watch

TypeOK ==
  /\ req \in [Events -> Requests]
  /\ rev \in Nat
  /\ eligible \subseteq Events /\ accepted \subseteq Events
  /\ pc \in {"down", "loop", "sending", "deliver", "launch", "waiting"}
  /\ snap \in [Events -> Keys \cup {None}] /\ seen \in [Events -> Keys \cup {None}]
  /\ todo \subseteq Events /\ cur \in Events \cup {None}
  /\ changed \in BOOLEAN /\ woken \in BOOLEAN
  /\ setup \in Setups
  /\ receipt \in Receipt \cup {None}
  /\ watched \in Watch \cup {None}
  /\ waiter \in {"none", "waiting"}
  /\ reported \subseteq Events \X (Keys \cup {None})
  /\ crashes \in 0..MaxCrashes

Nothing == [e \in Events |-> None]

Init ==
  /\ req = [e \in Events |-> [status |-> "absent", attempt |-> 0, asked |-> 0]]
  /\ rev = 0 /\ eligible = {} /\ accepted = {}
  /\ pc = "loop" /\ snap = Nothing /\ seen = Nothing
  /\ todo = {} /\ cur = None /\ changed = FALSE
  /\ setup \in Setups /\ receipt = None /\ watched = None
  /\ waiter = "none" /\ woken = FALSE /\ reported = {}
  /\ crashes = 0

-----------------------------------------------------------------------------
(***************************************************************************)
(* The durable inbox.  Every save closes the channel its readers wait on.  *)
(***************************************************************************)
(* Mutant of Signal: a save wakes the dispatcher only. *)
SignalOne ==
  /\ changed' = (pc \notin {"loop", "down"})
  /\ UNCHANGED woken

(* signalUpdate closes the channel for everyone who has taken it. *)
Signal ==
  /\ changed' = (pc \notin {"loop", "down"})
  /\ woken' = (waiter = "waiting")

Ready == {e \in Events : req[e].status = "ready"}

(* Every save is a copy of the state; which of the ready requests may start  *)
(* depends on dependencies, resources and limits that Inbox.tla models.      *)
Save(E, bump) ==
  /\ pc # "down"
  /\ eligible' = E /\ E \subseteq Ready'
  /\ rev' = rev + (IF bump THEN 1 ELSE 0) /\ rev' <= MaxRevision[setup]
  /\ Signal
  /\ UNCHANGED <<pc, snap, seen, todo, cur, host, waiter, reported, crashes>>

(* ingest, in the order of the events, which is that of the requests.  A    *)
(* collaboration notice can end the acceptance of what it is about, a        *)
(* classification is resolved at once.                                       *)
Receive(e, status, A, E) ==
  /\ \A d \in Events : d >= e => req[d].status = "absent"
  /\ status \in {"ready", "resolved"}
  /\ req' = [req EXCEPT ![e].status = status]
  /\ accepted' = A \cup {e}
  /\ Save(E, FALSE)

Claim(e, E) ==
  /\ e \in eligible \cap accepted
  /\ req[e].attempt < MaxAttempts[e]
  /\ req' = [req EXCEPT ![e].status = "running", ![e].attempt = req[e].attempt + 1]
  /\ Save(E, FALSE)
  /\ UNCHANGED accepted

(* next: ready work that is no longer accepted is cancelled. *)
Revalidate(E) ==
  /\ Ready \ accepted # {}
  /\ req' = [e \in Events |-> IF e \in Ready \ accepted
                             THEN [req[e] EXCEPT !.status = "resolved"] ELSE req[e]]
  /\ Save(E, FALSE)
  /\ UNCHANGED accepted

(* reply, and the marker of a delivery that failed. *)
Quiet == {<<"running", "reply_pending">>, <<"reply_pending", "undelivered">>}

(* release, outcome, ack, the acknowledgement of a delivery, and decision. *)
Revising ==
  ({"running", "needs_recovery"} \X
     {"ready", "needs_recovery", "suspended", "failed", "resolved"}) \cup
  ({"suspended"} \X {"ready", "reply_pending", "resolved"}) \cup
  ({"ready", "failed"} \X {"ready", "resolved"}) \cup
  ({"reply_pending", "undelivered"} \X {"resolved"})

(* An answer ends the question; resume and cancel leave it pending. *)
StillAsked(old, status) ==
  CASE status = "suspended" -> {old.attempt}
    [] old.status = "suspended" /\ status = "ready" -> {0, old.asked}
    [] old.status = "suspended" /\ status = "reply_pending" -> {0}
    [] OTHER -> {old.asked}

Change(e, status, E) ==
  LET move == <<req[e].status, status>> IN
  /\ move \in Quiet \cup Revising
  /\ \E asked \in StillAsked(req[e], status) :
       req' = [req EXCEPT ![e].status = status, ![e].asked = asked]
  /\ Save(E, move \in Revising)
  /\ UNCHANGED accepted

(* decision "presented": whatever has become of the request. *)
Present(e, E) ==
  /\ req[e].asked # 0
  /\ req' = [req EXCEPT ![e].asked = 0]
  /\ Save(E, TRUE)
  /\ UNCHANGED accepted

(* policy, plan and annotate. *)
Revise(E) ==
  /\ UNCHANGED <<req, accepted>>
  /\ Save(E, TRUE)

(* ingest of an event that is no work, and the clarifications of an outcome. *)
Skip(E) ==
  /\ E = eligible
  /\ UNCHANGED <<req, accepted>>
  /\ Save(E, FALSE)

(* The notice_key of a request, None if there is nothing to say. *)
Key(e) ==
  LET r == req[e] IN
  CASE e \in eligible -> <<"ready", r.attempt, rev>>
    [] r.status = "suspended" /\ r.asked # 0 -> <<"question", r.asked>>
    [] r.status \in {"needs_recovery", "failed"} -> <<r.status, r.attempt>>
    [] r.status = "undelivered" -> <<"reply_pending", r.attempt>>
    [] OTHER -> None

-----------------------------------------------------------------------------
(***************************************************************************)
(* dispatchChanges.                                                        *)
(***************************************************************************)
First(S, e) == e \in S /\ \A d \in S : e <= d

(* The channel and the copy of the state are taken under one lock. *)
Snapshot ==
  /\ pc = "loop"
  /\ snap' = [e \in Events |-> Key(e)]
  /\ changed' = FALSE
  /\ todo' = {e \in Events : Key(e) # None /\ Key(e) # seen[e]}
  /\ pc' = "sending"
  /\ UNCHANGED <<inbox, seen, cur, host, listener, crashes>>

(* The requests are looked at in their order. *)
Offer(e) ==
  /\ pc = "sending" /\ First(todo, e)
  /\ seen' = [seen EXCEPT ![e] = snap[e]]
  /\ todo' = todo \ {e}
  /\ cur' = e /\ pc' = "deliver"
  /\ UNCHANGED <<inbox, snap, changed, host, listener, crashes>>

(* Mutant of Rest: the channel is taken when the loop goes to sleep. *)
RestLate ==
  /\ pc = "sending" /\ todo = {}
  /\ seen' = snap /\ snap' = Nothing
  /\ changed' = FALSE
  /\ pc' = "waiting"
  /\ UNCHANGED <<inbox, todo, cur, host, listener, crashes>>

(* seen = live: notices that are over are forgotten. *)
Rest ==
  /\ pc = "sending" /\ todo = {}
  /\ seen' = snap /\ snap' = Nothing
  /\ pc' = "waiting"
  /\ UNCHANGED <<inbox, todo, cur, changed, host, listener, crashes>>

Wake ==
  /\ pc = "waiting" /\ changed
  /\ pc' = "loop" /\ changed' = FALSE
  /\ UNCHANGED <<inbox, snap, seen, todo, cur, host, listener, crashes>>

-----------------------------------------------------------------------------
(***************************************************************************)
(* deliver for the notice of the event cur; deliverCodex and queueCodex if  *)
(* the host is Codex.                                                       *)
(***************************************************************************)
Delivered ==
  /\ pc' = "sending" /\ cur' = None
  /\ UNCHANGED <<inbox, snap, seen, todo, changed, listener, crashes>>

HasReceipt ==
  receipt # None /\ receipt.seq = cur /\ receipt.key = snap[cur]

DeliverKnown ==
  /\ pc = "deliver" /\ HasReceipt
  /\ Delivered
  /\ UNCHANGED host

(* Another host is notified, if it can be.  Codex is pushed to, or a push is *)
(* not due and the queue was not in use, or the queue's lock, target or      *)
(* probe fails: deliveryState decides which, from the time and from probes   *)
(* of the host.  Nobody looks at an error.                                   *)
DeliverUnqueued ==
  /\ pc = "deliver" /\ ~ HasReceipt
  /\ Delivered
  /\ UNCHANGED host

Notice == <<cur, snap[cur]>>

Follow ==
  IF watched = None
  THEN {None, [notice |-> Notice, sure |-> FALSE, other |-> FALSE, again |-> FALSE]}
  ELSE IF watched.again THEN {watched}
  ELSE IF watched.notice = Notice THEN {[watched EXCEPT !.again = TRUE]}
  ELSE {[watched EXCEPT !.other = ~ watched.sure]}

Launching ==
  /\ pc = "deliver" /\ setup.codex /\ ~ HasReceipt
  /\ pc' = "launch"
  /\ watched' \in Follow
  /\ UNCHANGED <<inbox, snap, seen, todo, cur, changed, setup, listener, crashes>>

(* Mutant of QueueAttempt: only an accepted submission is recorded. *)
QueueAttemptUnsaved == Launching /\ UNCHANGED receipt

(* "Persist intent before launching", after a push that failed or instead of *)
(* one that is not due.                                                      *)
QueueAttempt ==
  /\ Launching
  /\ receipt' = [seq |-> cur, key |-> snap[cur], state |-> "attempted"]

(* The command fails, and nobody knows whether the host took the notice, or  *)
(* it succeeds and that is not recorded.                                     *)
QueueUncertain ==
  /\ pc = "launch"
  /\ Delivered
  /\ UNCHANGED host

(* The accepted receipt carries no key. *)
QueueAccepted ==
  /\ pc = "launch"
  /\ receipt' = [seq |-> cur, key |-> None, state |-> "accepted"]
  /\ watched' = IF watched = None \/ watched.other \/ watched.again THEN watched
                ELSE [watched EXCEPT !.sure = TRUE]
  /\ Delivered
  /\ UNCHANGED setup

-----------------------------------------------------------------------------
(***************************************************************************)
(* waitMention, one listener at a time: it looks for work and takes the       *)
(* update channel under one lock.                                            *)
(***************************************************************************)
Candidates ==
  {e \in eligible \cap accepted : e \in Reviews => <<e, None>> \notin reported}

Asked(e) == <<"question", req[e].asked>>

(* A question is reported whatever has become of its request since. *)
Questions ==
  {e \in Events : req[e].asked # 0 /\ <<e, Asked(e)>> \notin reported}

Hear(e) ==
  /\ \/ /\ First(Candidates, e)
        /\ reported' = IF e \in Reviews THEN reported \cup {<<e, None>>}
                       ELSE reported
     \/ /\ Candidates = {} /\ First(Questions, e)
        /\ reported' = reported \cup {<<e, Asked(e)>>}
  /\ waiter' = "none" /\ woken' = FALSE

Sleep ==
  /\ Candidates = {} /\ Questions = {}
  /\ waiter' = "waiting" /\ woken' = FALSE
  /\ UNCHANGED reported

Look ==
  /\ Sleep \/ \E e \in Events : Hear(e)
  /\ UNCHANGED <<inbox, dispatcher, host, crashes>>

Listen == pc # "down" /\ setup.listens /\ waiter = "none" /\ Look

WaitWakes == waiter = "waiting" /\ woken /\ Look

(* The time is over, or the host cancels the call. *)
WaitEnds ==
  /\ waiter = "waiting"
  /\ waiter' = "none" /\ woken' = FALSE
  /\ UNCHANGED <<inbox, dispatcher, host, reported, crashes>>

-----------------------------------------------------------------------------
Crash ==
  /\ pc # "down" /\ crashes < MaxCrashes
  /\ crashes' = crashes + 1
  /\ pc' = "down" /\ snap' = Nothing /\ seen' = Nothing
  /\ todo' = {} /\ cur' = None /\ changed' = FALSE
  /\ waiter' = "none" /\ woken' = FALSE /\ reported' = {}
  /\ UNCHANGED <<inbox, host>>

(* openInbox: work whose execution nobody follows any more needs recovery,   *)
(* and the operator may have changed the list of senders.                    *)
Restart(A, E) ==
  /\ pc = "down"
  /\ pc' = "loop"
  /\ req' = [e \in Events |->
       IF req[e].status = "running" THEN [req[e] EXCEPT !.status = "needs_recovery"]
       ELSE req[e]]
  /\ accepted' = A /\ A \subseteq {e \in Events : req[e].status # "absent"}
  /\ eligible' = E /\ E \subseteq Ready'
  /\ UNCHANGED <<rev, snap, seen, todo, cur, changed, host, listener, crashes>>

(* Every operation that saves the inbox. *)
InboxSaves ==
  \E E \in SUBSET Events :
    \/ \E e \in Events, status \in Statuses :
         \/ \E A \in SUBSET accepted : Receive(e, status, A, E)
         \/ Change(e, status, E)
    \/ \E e \in Events : Claim(e, E) \/ Present(e, E)
    \/ Revalidate(E) \/ Revise(E) \/ Skip(E)

Reopen == \E A, E \in SUBSET Events : Restart(A, E)

Deliver ==
  DeliverKnown \/ DeliverUnqueued \/ QueueAttempt \/ QueueUncertain \/ QueueAccepted

Dispatch == Snapshot \/ Rest \/ Wake \/ Deliver \/ \E e \in Events : Offer(e)

Next ==
  \/ InboxSaves
  \/ Dispatch \/ Listen \/ WaitWakes \/ WaitEnds
  \/ Crash \/ Reopen

Spec == Init /\ [][Next]_vars

(* The dispatcher and a waiting call run as long as the process does, and    *)
(* every request they make ends by its own timeout; a stopped process is     *)
(* started again.  Nothing obliges a listener to start or its time to end.   *)
FairSpec ==
  /\ Spec
  /\ WF_vars(Dispatch) /\ WF_vars(WaitWakes) /\ WF_vars(Reopen)

-----------------------------------------------------------------------------
(***************************************************************************)
(* Properties.                                                             *)
(***************************************************************************)
(* No wake-up is lost: when the durable inbox calls for a notice, it is      *)
(* offered to the host or is over soon, however saves, deliveries and        *)
(* crashes interleave with the dispatcher going to sleep (dispatchChanges).  *)
NoticeOffered ==
  \A e \in Events :
    Key(e) \notin {None, seen[e]} ~> Key(e) \in {None, seen[e]}

(* A listener that sleeps while there is work for it wakes up, without the   *)
(* end of its time (waitMention, signalUpdate: "Broadcast separately").      *)
ListenerWakes ==
  (waiter = "waiting" /\ Candidates # {}) ~>
    (waiter # "waiting" \/ Candidates = {})

(* The receipt remembers one notice (queueCodex): an attempt whose result is *)
(* unknown, because the command failed or the process died around it, is not *)
(* made again unless an attempt about another notice came in between and     *)
(* took the receipt's place.  It is not never made again: with two notices   *)
(* that are offered in turns the first is submitted twice.                   *)
UncertainNotRepeated ==
  watched # None /\ watched.again => watched.sure \/ watched.other

(* "the saved receipt must prevent submitting the same nudge a second time"  *)
(* (codex_remote_test.go): no two attempts are about the same notice.        *)
QueuedOnce == watched # None => ~ watched.again

-----------------------------------------------------------------------------
(***************************************************************************)
(* The inductive invariant of the proofs.                                  *)
(***************************************************************************)
(* Only a request with something to say is offered. *)
NoticesReal ==
  /\ \A e \in todo : snap[e] # None
  /\ pc \in {"deliver", "launch"} =>
       cur \in Events /\ snap[cur] # None

(* The receipt is of the last attempt as long as that is uncertain. *)
AttemptRecorded ==
  watched # None /\ ~ watched.sure /\ ~ watched.other /\ ~ watched.again =>
    /\ receipt # None
    /\ watched.notice = <<receipt.seq, receipt.key>>

IInv == TypeOK /\ NoticesReal /\ AttemptRecorded /\ UncertainNotRepeated
=============================================================================
