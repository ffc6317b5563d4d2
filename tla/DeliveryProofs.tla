--------------------------- MODULE DeliveryProofs ---------------------------
(***************************************************************************)
(* Machine-checked proofs about the delivery of notices, for every set of   *)
(* events, every host, every number of attempts, revisions and restarts.    *)
(***************************************************************************)
EXTENDS Delivery, TLAPS

-----------------------------------------------------------------------------
KeyOrNone == Keys \cup {None}

LEMMA TypeFacts ==
  ASSUME IInv
  PROVE  /\ req \in [Events -> Requests] /\ rev \in Nat
         /\ eligible \subseteq Events /\ accepted \subseteq Events
         /\ snap \in [Events -> KeyOrNone] /\ seen \in [Events -> KeyOrNone]
         /\ watched \in Watch \cup {None} /\ receipt \in Receipt \cup {None}
BY DEF IInv, TypeOK, KeyOrNone

LEMMA RequestFacts ==
  ASSUME NEW r \in Requests
  PROVE  r.status \in Statuses /\ r.attempt \in Nat /\ r.asked \in Nat
BY DEF Requests

(* The notice of a request is one of the keys.                              *)
LEMMA KeyType ==
  ASSUME IInv, NEW e \in Events
  PROVE  Key(e) \in KeyOrNone
<1> USE TypeFacts
<1>1. req[e].attempt \in Nat /\ req[e].asked \in Nat BY RequestFacts
<1>2. <<"ready", req[e].attempt, rev>> \in Keys BY <1>1 DEF Keys
<1>3. <<"question", req[e].asked>> \in Keys BY <1>1 DEF Keys
<1>4. \A s \in {"needs_recovery", "failed", "reply_pending"} :
        <<s, req[e].attempt>> \in Keys
  BY <1>1 DEF Keys
<1>5. \/ Key(e) = None
      \/ Key(e) = <<"ready", req[e].attempt, rev>>
      \/ Key(e) = <<"question", req[e].asked>>
      \/ \E s \in {"needs_recovery", "failed", "reply_pending"} :
           Key(e) = <<s, req[e].attempt>>
  BY DEF Key
<1> QED BY <1>2, <1>3, <1>4, <1>5 DEF KeyOrNone

LEMMA InitInv == Init => IInv
<1> SUFFICES ASSUME Init PROVE IInv OBVIOUS
<1> USE DeliveryAssumption
<1>1. req \in [Events -> Requests] BY DEF Init, Requests, Statuses
<1>2. Nothing \in [Events -> Keys \cup {None}] BY DEF Nothing
<1>3. TypeOK
  <2>1. /\ crashes \in 0..MaxCrashes
        /\ reported \subseteq Events \X (Keys \cup {None})
    BY DEF Init
  <2>2. snap = Nothing /\ seen = Nothing BY DEF Init
  <2> QED BY <1>1, <1>2, <2>1, <2>2 DEF Init, TypeOK
<1>4. NoticesReal BY DEF Init, NoticesReal
<1>5. AttemptRecorded /\ UncertainNotRepeated
  BY DEF Init, AttemptRecorded, UncertainNotRepeated
<1> QED BY <1>3, <1>4, <1>5 DEF IInv

(* Steps of the durable inbox and of the listener leave the dispatcher's     *)
(* notices and the receipt alone.                                            *)
LEMMA OutsideInv ==
  ASSUME IInv, UNCHANGED <<pc, snap, seen, todo, cur, host>>,
         req' \in [Events -> Requests], rev' \in Nat,
         eligible' \subseteq Events, accepted' \subseteq Events,
         changed' \in BOOLEAN, woken' \in BOOLEAN, waiter' \in {"none", "waiting"},
         reported' \subseteq Events \X KeyOrNone, crashes' \in 0..MaxCrashes
  PROVE  IInv'
<1>1. UNCHANGED <<setup, receipt, watched>> BY DEF host
<1>2. TypeOK' BY <1>1 DEF IInv, TypeOK, KeyOrNone
<1>3. NoticesReal' BY DEF IInv, NoticesReal
<1>4. AttemptRecorded' /\ UncertainNotRepeated'
  BY <1>1 DEF IInv, AttemptRecorded, UncertainNotRepeated
<1> QED BY <1>2, <1>3, <1>4 DEF IInv

LEMMA SaveInv ==
  ASSUME IInv, NEW E \in SUBSET Events, NEW bump, Save(E, bump),
         req' \in [Events -> Requests], accepted' \subseteq Events
  PROVE  IInv'
<1> USE DeliveryAssumption, TypeFacts
<1>1. /\ UNCHANGED <<pc, snap, seen, todo, cur, host, waiter, reported, crashes>>
      /\ eligible' \subseteq Events /\ rev' \in Nat
  BY DEF Save
<1>2. changed' \in BOOLEAN /\ woken' \in BOOLEAN BY DEF Save, Signal
<1> QED BY <1>1, <1>2, OutsideInv DEF IInv, TypeOK, KeyOrNone

LEMMA ChangeInv ==
  ASSUME IInv, NEW E \in SUBSET Events, NEW e \in Events, NEW status \in Statuses,
         Change(e, status, E)
  PROVE  IInv'
<1> USE DeliveryAssumption, TypeFacts
<1>1. PICK asked \in StillAsked(req[e], status) :
        req' = [req EXCEPT ![e].status = status, ![e].asked = asked]
  BY DEF Change
<1>2. req[e].attempt \in Nat /\ req[e].asked \in Nat BY RequestFacts
<1>3. asked \in Nat BY <1>1, <1>2 DEF StillAsked
<1>4. PICK new : new = [req[e] EXCEPT !.status = status, !.asked = asked] OBVIOUS
<1>5. new \in Requests
  <2>1. req[e] \in Requests OBVIOUS
  <2>2. new = [status |-> status, attempt |-> req[e].attempt, asked |-> asked]
    BY <1>4, <2>1 DEF Requests
  <2> QED BY <1>2, <1>3, <2>2 DEF Requests
<1>6. req' = [req EXCEPT ![e] = new] BY <1>1, <1>4
<1>7. req' \in [Events -> Requests] BY <1>5, <1>6
<1>8. Save(E, <<req[e].status, status>> \in Revising) /\ accepted' \subseteq Events
  BY DEF Change
<1> QED BY <1>7, <1>8, SaveInv

LEMMA InboxInv ==
  ASSUME IInv, InboxSaves
  PROVE  IInv'
<1> USE DeliveryAssumption, TypeFacts
<1>1. PICK E \in SUBSET Events :
        \/ \E e \in Events, status \in Statuses :
             \/ \E A \in SUBSET accepted : Receive(e, status, A, E)
             \/ Change(e, status, E)
        \/ \E e \in Events : Claim(e, E) \/ Present(e, E)
        \/ Revalidate(E) \/ Revise(E) \/ Skip(E)
  BY DEF InboxSaves
<1>2. ASSUME NEW e \in Events, NEW status \in Statuses, NEW A \in SUBSET accepted,
             Receive(e, status, A, E)
      PROVE  IInv'
  <2>1. req' \in [Events -> Requests] BY <1>2 DEF Receive, Requests
  <2>2. accepted' \subseteq Events BY <1>2 DEF Receive
  <2>3. Save(E, FALSE) BY <1>2 DEF Receive
  <2> QED BY <2>1, <2>2, <2>3, SaveInv
<1>3. ASSUME NEW e \in Events, NEW status \in Statuses, Change(e, status, E)
      PROVE  IInv'
  BY <1>3, ChangeInv
<1>4. ASSUME NEW e \in Events, Claim(e, E) PROVE IInv'
  <2>1. req[e].attempt + 1 \in Nat BY RequestFacts
  <2>2. req' \in [Events -> Requests]
    BY <1>4, <2>1 DEF Claim, Requests, Statuses
  <2>3. Save(E, FALSE) /\ accepted' \subseteq Events BY <1>4 DEF Claim
  <2> QED BY <2>2, <2>3, SaveInv
<1>5. ASSUME NEW e \in Events, Present(e, E) PROVE IInv'
  <2>1. req' \in [Events -> Requests] BY <1>5 DEF Present, Requests
  <2>2. Save(E, TRUE) /\ accepted' \subseteq Events BY <1>5 DEF Present
  <2> QED BY <2>1, <2>2, SaveInv
<1>6. CASE Revalidate(E)
  <2>1. \A e \in Events : [req[e] EXCEPT !.status = "resolved"] \in Requests
    BY DEF Requests, Statuses
  <2>2. req' \in [Events -> Requests] BY <1>6, <2>1 DEF Revalidate
  <2>3. Save(E, FALSE) /\ accepted' \subseteq Events BY <1>6 DEF Revalidate
  <2> QED BY <2>2, <2>3, SaveInv
<1>7. CASE Revise(E) \/ Skip(E) BY <1>7, SaveInv DEF Revise, Skip
<1> QED BY <1>1, <1>2, <1>3, <1>4, <1>5, <1>6, <1>7

LEMMA ListenerSteps ==
  ASSUME IInv, Listen \/ WaitWakes \/ WaitEnds
  PROVE  IInv'
<1> USE DeliveryAssumption, TypeFacts
<1>1. /\ UNCHANGED <<pc, snap, seen, todo, cur, host, req, rev, eligible, accepted,
                     changed, crashes>>
      /\ woken' \in BOOLEAN /\ waiter' \in {"none", "waiting"}
  BY DEF Listen, WaitWakes, WaitEnds, Look, Sleep, Hear, dispatcher, inbox
<1>2. reported' \subseteq Events \X KeyOrNone
  <2>1. CASE UNCHANGED reported BY <2>1 DEF IInv, TypeOK, KeyOrNone
  <2>2. ASSUME NEW e \in Events, Hear(e) PROVE reported' \subseteq Events \X KeyOrNone
    <3>1. <<e, None>> \in Events \X KeyOrNone BY DEF KeyOrNone
    <3>2. req[e].asked \in Nat BY RequestFacts
    <3>3. Asked(e) \in Keys BY <3>2 DEF Asked, Keys
    <3>4. reported \subseteq Events \X KeyOrNone BY DEF IInv, TypeOK, KeyOrNone
    <3> QED BY <2>2, <3>1, <3>3, <3>4 DEF Hear, KeyOrNone
  <2> QED BY <2>1, <2>2 DEF Listen, WaitWakes, WaitEnds, Look, Sleep
<1> QED BY <1>1, <1>2, OutsideInv DEF IInv, TypeOK

-----------------------------------------------------------------------------
(***************************************************************************)
(* The dispatcher.                                                         *)
(***************************************************************************)

LEMMA SnapshotInv ==
  ASSUME IInv, Snapshot
  PROVE  IInv'
<1> USE DeliveryAssumption, TypeFacts
<1>1. /\ snap' = [e \in Events |-> Key(e)] /\ changed' = FALSE
      /\ todo' = {e \in Events : Key(e) # None /\ Key(e) # seen[e]} /\ pc' = "sending"
      /\ UNCHANGED <<req, rev, eligible, accepted, seen, cur, setup, receipt, watched,
                     waiter, woken, reported, crashes>>
  BY DEF Snapshot, inbox, host, listener
<1>2. snap' \in [Events -> KeyOrNone] BY <1>1, KeyType
<1>3. todo' \subseteq Events /\ \A e \in todo' : snap'[e] # None BY <1>1
<1>4. TypeOK' BY <1>1, <1>2, <1>3 DEF IInv, TypeOK, KeyOrNone
<1>5. NoticesReal' BY <1>1, <1>3 DEF NoticesReal
<1>6. AttemptRecorded' /\ UncertainNotRepeated'
  BY <1>1 DEF IInv, AttemptRecorded, UncertainNotRepeated
<1> QED BY <1>4, <1>5, <1>6 DEF IInv

LEMMA LoopSteps ==
  ASSUME IInv, Rest \/ Wake \/ \E e \in Events : Offer(e)
  PROVE  IInv'
<1> USE DeliveryAssumption, TypeFacts
<1>1. /\ UNCHANGED <<req, rev, eligible, accepted, setup, receipt, watched, waiter,
                     woken, reported, crashes>>
      /\ pc' \in {"waiting", "loop", "deliver"} /\ changed' \in BOOLEAN
      /\ todo' \subseteq todo
      /\ \/ snap' = snap
         \/ snap' = Nothing /\ todo' = {} /\ pc' = "waiting"
  <2>1. CASE Rest BY <2>1 DEF Rest, inbox, host, listener, IInv, TypeOK
  <2>2. CASE Wake BY <2>2 DEF Wake, inbox, host, listener
  <2>3. ASSUME NEW e \in Events, Offer(e)
        PROVE  /\ UNCHANGED <<req, rev, eligible, accepted, setup, receipt, watched,
                              waiter, woken, reported, crashes, snap, changed>>
               /\ pc' = "deliver" /\ todo' \subseteq todo
    BY <2>3 DEF Offer, inbox, host, listener
  <2> QED BY <2>1, <2>2, <2>3 DEF IInv, TypeOK
<1>2. seen' \in [Events -> KeyOrNone] BY DEF Rest, Wake, Offer
<1>3. cur' \in Events \cup {None} BY DEF Rest, Wake, Offer, IInv, TypeOK
<1>4. snap' \in [Events -> KeyOrNone] BY <1>1 DEF Nothing, KeyOrNone
<1>5. TypeOK' BY <1>1, <1>2, <1>3, <1>4 DEF IInv, TypeOK, KeyOrNone
<1>6. pc' = "deliver" => cur' \in Events /\ cur' \in todo
  BY DEF Rest, Wake, Offer, First
<1>7. NoticesReal' BY <1>1, <1>6 DEF IInv, NoticesReal
<1>8. AttemptRecorded' /\ UncertainNotRepeated'
  BY <1>1 DEF IInv, AttemptRecorded, UncertainNotRepeated
<1> QED BY <1>5, <1>7, <1>8 DEF IInv

(* A delivery ends without touching the receipt. *)
LEMMA DeliverQuiet ==
  ASSUME IInv, DeliverKnown \/ DeliverUnqueued \/ QueueUncertain
  PROVE  IInv'
<1>1. /\ UNCHANGED <<req, rev, eligible, accepted, snap, seen, todo, changed, setup,
                     receipt, watched, waiter, woken, reported, crashes>>
      /\ pc' = "sending" /\ cur' = None
  BY DEF DeliverKnown, DeliverUnqueued, QueueUncertain, Delivered, host, inbox, listener
<1>2. TypeOK' BY <1>1 DEF IInv, TypeOK
<1>3. NoticesReal' BY <1>1 DEF IInv, NoticesReal
<1>4. AttemptRecorded' /\ UncertainNotRepeated'
  BY <1>1 DEF IInv, AttemptRecorded, UncertainNotRepeated
<1> QED BY <1>2, <1>3, <1>4 DEF IInv

(* The notice about to be submitted is not the one of the receipt, and the   *)
(* receipt is that of the last submission of unknown result.                 *)
LEMMA QueueAttemptInv ==
  ASSUME IInv, QueueAttempt
  PROVE  IInv'
<1> USE DeliveryAssumption, TypeFacts
<1>1. PICK new : new = [seq |-> cur, key |-> snap[cur], state |-> "attempted"]
  OBVIOUS
<1>2. PICK n : n = Notice OBVIOUS
<1>3. /\ pc = "deliver" /\ ~ HasReceipt /\ pc' = "launch" /\ receipt' = new
      /\ watched' \in Follow
      /\ UNCHANGED <<req, rev, eligible, accepted, snap, seen, todo, cur, changed, setup,
                     waiter, woken, reported, crashes>>
  BY <1>1 DEF QueueAttempt, Launching, inbox, listener
<1>4. cur \in Events /\ snap[cur] \in Keys BY <1>3 DEF IInv, NoticesReal, KeyOrNone
<1>5. new \in Receipt /\ n \in Events \X Keys /\ n = <<new.seq, new.key>>
  BY <1>1, <1>2, <1>4 DEF Receipt, Notice
<1>6. new # None BY <1>5, ReceiptAssumption
<1>7. CASE watched = None
  <2>1. PICK w : w = [notice |-> n, sure |-> FALSE, other |-> FALSE, again |-> FALSE]
    OBVIOUS
  <2>2. watched' = None \/ watched' = w BY <1>2, <1>3, <1>7, <2>1 DEF Follow
  <2>3. /\ w \in Watch /\ w.notice = n
        /\ ~ w.sure /\ ~ w.other /\ ~ w.again
    BY <1>5, <2>1 DEF Watch
  <2>4. TypeOK' BY <1>3, <1>5, <2>2, <2>3 DEF IInv, TypeOK
  <2>5. NoticesReal' BY <1>3 DEF IInv, NoticesReal
  <2>6. AttemptRecorded' BY <1>3, <1>5, <1>6, <2>2, <2>3 DEF AttemptRecorded
  <2>7. UncertainNotRepeated' BY <2>2, <2>3 DEF UncertainNotRepeated
  <2> QED BY <2>4, <2>5, <2>6, <2>7 DEF IInv
<1>8. CASE watched # None
  <2>1. PICK w : w = watched OBVIOUS
  <2>2. /\ w \in Watch /\ w # None
        /\ w.sure \in BOOLEAN /\ w.other \in BOOLEAN /\ w.again \in BOOLEAN
    BY <1>8, <2>1 DEF Watch
  <2>3. \/ w.again /\ watched' = w
        \/ ~ w.again /\ w.notice = n /\ watched' = [w EXCEPT !.again = TRUE]
        \/ ~ w.again /\ w.notice # n /\ watched' = [w EXCEPT !.other = ~ w.sure]
    BY <1>2, <1>3, <1>8, <2>1 DEF Follow
  <2>4. watched' \in Watch BY <2>2, <2>3 DEF Watch
  <2>5. watched' # None BY <2>4, ReceiptAssumption
  <2>6. ASSUME ~ w.again, w.notice = n PROVE w.sure \/ w.other
    <3> SUFFICES ASSUME ~ w.sure, ~ w.other PROVE FALSE OBVIOUS
    <3>1. receipt # None /\ w.notice = <<receipt.seq, receipt.key>>
      BY <1>8, <2>1, <2>6 DEF IInv, AttemptRecorded
    <3>2. receipt.seq = cur /\ receipt.key = snap[cur]
      BY <1>2, <2>6, <3>1 DEF Notice
    <3> QED BY <1>3, <3>1, <3>2 DEF HasReceipt
  <2>7. /\ watched'.again => watched'.sure \/ watched'.other
        /\ watched'.sure \/ watched'.other \/ watched'.again
    <3>1. w.again => w.sure \/ w.other BY <1>8, <2>1 DEF IInv, UncertainNotRepeated
    <3>2. CASE w.again BY <2>3, <3>1, <3>2
    <3>3. CASE ~ w.again /\ w.notice = n BY <2>2, <2>3, <2>6, <3>3 DEF Watch
    <3>4. CASE ~ w.again /\ w.notice # n BY <2>2, <2>3, <3>4 DEF Watch
    <3> QED BY <3>2, <3>3, <3>4
  <2>8. TypeOK' BY <1>3, <1>5, <2>4 DEF IInv, TypeOK
  <2>9. NoticesReal' BY <1>3 DEF IInv, NoticesReal
  <2>10. AttemptRecorded' BY <2>7 DEF AttemptRecorded
  <2>11. UncertainNotRepeated' BY <2>7 DEF UncertainNotRepeated
  <2> QED BY <2>8, <2>9, <2>10, <2>11 DEF IInv
<1> QED BY <1>7, <1>8

LEMMA QueueAcceptedInv ==
  ASSUME IInv, QueueAccepted
  PROVE  IInv'
<1> USE DeliveryAssumption, TypeFacts
<1>1. PICK new : new = [seq |-> cur, key |-> None, state |-> "accepted"]
  OBVIOUS
<1>2. /\ pc = "launch" /\ pc' = "sending" /\ cur' = None /\ receipt' = new
      /\ UNCHANGED <<req, rev, eligible, accepted, snap, seen, todo, changed, setup,
                     waiter, woken, reported, crashes>>
  BY <1>1 DEF QueueAccepted, Delivered, inbox, listener
<1>3. cur \in Events BY <1>2 DEF IInv, NoticesReal
<1>4. new \in Receipt BY <1>1, <1>3 DEF Receipt
<1>5. PICK w : w = watched OBVIOUS
<1>6. \/ watched' = w /\ (w = None \/ w.other \/ w.again)
      \/ /\ watched' = [w EXCEPT !.sure = TRUE]
         /\ w # None /\ ~ w.other /\ ~ w.again
  BY <1>5 DEF QueueAccepted
<1>7. /\ watched' \in Watch \cup {None}
      /\ watched' = None \/ watched'.sure \/ watched'.other \/ watched'.again
      /\ watched' = None \/ (watched'.again => watched'.sure \/ watched'.other)
  <2>1. CASE watched' = w
    BY <1>5, <1>6, <2>1 DEF Watch, IInv, UncertainNotRepeated
  <2>2. CASE watched' = [w EXCEPT !.sure = TRUE] /\ w # None
    <3>1. w \in Watch BY <1>5, <2>2
    <3> QED BY <2>2, <3>1 DEF Watch
  <2> QED BY <1>6, <2>1, <2>2
<1>8. TypeOK' BY <1>2, <1>4, <1>7 DEF IInv, TypeOK
<1>9. NoticesReal' BY <1>2 DEF IInv, NoticesReal
<1>10. AttemptRecorded' /\ UncertainNotRepeated'
  BY <1>7 DEF AttemptRecorded, UncertainNotRepeated
<1> QED BY <1>8, <1>9, <1>10 DEF IInv

LEMMA CrashInv ==
  ASSUME IInv, Crash \/ Reopen
  PROVE  IInv'
<1> USE DeliveryAssumption, TypeFacts
<1>1. Nothing \in [Events -> Keys \cup {None}] BY DEF Nothing
<1>2. CASE Crash
  <2>1. /\ UNCHANGED <<req, rev, eligible, accepted, setup, receipt, watched>>
        /\ pc' = "down" /\ snap' = Nothing /\ seen' = Nothing /\ todo' = {}
        /\ cur' = None /\ changed' = FALSE /\ waiter' = "none" /\ woken' = FALSE
        /\ reported' = {}
    BY <1>2 DEF Crash, inbox, host
  <2>2. crashes' \in 0..MaxCrashes BY <1>2 DEF Crash, IInv, TypeOK
  <2>3. TypeOK' BY <1>1, <2>1, <2>2 DEF IInv, TypeOK
  <2>4. NoticesReal' BY <2>1 DEF NoticesReal
  <2>5. AttemptRecorded' /\ UncertainNotRepeated'
    BY <2>1 DEF IInv, AttemptRecorded, UncertainNotRepeated
  <2> QED BY <2>3, <2>4, <2>5 DEF IInv
<1>3. ASSUME NEW A \in SUBSET Events, NEW E \in SUBSET Events, Restart(A, E)
      PROVE  IInv'
  <2>1. /\ pc' = "loop" /\ accepted' \subseteq Events /\ eligible' \subseteq Events
        /\ UNCHANGED <<rev, snap, seen, todo, cur, changed, setup, receipt, watched,
                       waiter, woken, reported, crashes>>
    BY <1>3 DEF Restart, host, listener
  <2>2. req' \in [Events -> Requests]
    <3>1. \A e \in Events : [req[e] EXCEPT !.status = "needs_recovery"] \in Requests
      BY DEF Requests, Statuses
    <3> QED BY <1>3, <3>1 DEF Restart
  <2>3. TypeOK' BY <2>1, <2>2 DEF IInv, TypeOK
  <2>4. NoticesReal' BY <2>1 DEF IInv, NoticesReal
  <2>5. AttemptRecorded' /\ UncertainNotRepeated'
    BY <2>1 DEF IInv, AttemptRecorded, UncertainNotRepeated
  <2> QED BY <2>3, <2>4, <2>5 DEF IInv
<1> QED BY <1>2, <1>3 DEF Reopen

LEMMA NextInv == IInv /\ [Next]_vars => IInv'
<1> SUFFICES ASSUME IInv, [Next]_vars PROVE IInv' OBVIOUS
<1>1. CASE InboxSaves BY <1>1, InboxInv
<1>2. CASE Dispatch
  BY <1>2, SnapshotInv, LoopSteps, DeliverQuiet, QueueAttemptInv, QueueAcceptedInv
  DEF Dispatch, Deliver
<1>3. CASE Listen \/ WaitWakes \/ WaitEnds BY <1>3, ListenerSteps
<1>4. CASE Crash \/ Reopen BY <1>4, CrashInv
<1>5. CASE UNCHANGED vars
  BY <1>5 DEF vars, inbox, dispatcher, host, listener, IInv, TypeOK, NoticesReal,
              AttemptRecorded, UncertainNotRepeated
<1> QED BY <1>1, <1>2, <1>3, <1>4, <1>5 DEF Next

-----------------------------------------------------------------------------
(***************************************************************************)
(* The theorems.                                                           *)
(***************************************************************************)

(* The inductive invariant: as long as the result of the last invocation of  *)
(* the queue command is unknown, the saved receipt is of it (queueCodex).    *)
THEOREM Invariance == Spec => []IInv
BY InitInv, NextInv, PTL DEF Spec

(* Notices are of known requests and carry real keys; the receipt and the    *)
(* listener stay well typed.                                                 *)
THEOREM TypeCorrect == Spec => []TypeOK
<1>1. IInv => TypeOK BY DEF IInv
<1> QED BY <1>1, Invariance, PTL

(* "Persist intent before launching" (queueCodex): whatever crashes and      *)
(* whichever notices come, an invocation of unknown result is repeated only  *)
(* after an invocation about another notice has taken the one receipt.       *)
THEOREM NotRepeated == Spec => []UncertainNotRepeated
<1>1. IInv => UncertainNotRepeated BY DEF IInv
<1> QED BY <1>1, Invariance, PTL
=============================================================================
