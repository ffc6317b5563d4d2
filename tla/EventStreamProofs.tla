------------------------- MODULE EventStreamProofs -------------------------
(***************************************************************************)
(* Machine-checked proofs about the event stream, for every set of          *)
(* payloads of every kind, every number of events and every number of       *)
(* failures and crashes.                                                    *)
(***************************************************************************)
EXTENDS EventStream, TLAPS

-----------------------------------------------------------------------------
(***************************************************************************)
(* Steps that leave the saved files alone.                                 *)
(***************************************************************************)

LEMMA TypeFacts ==
  ASSUME IInv
  PROVE  /\ log \in Seq(Payloads) /\ Len(log) \in Nat /\ Len(log) <= MaxEvents
         /\ \A n \in 1..Len(log) : log[n] \in Payloads
         /\ after \in Nat /\ after <= Len(log)
         /\ pos \in Nat /\ pos <= after
         /\ received \in [Encrypted -> 0..MaxEvents]
BY StreamAssumption DEF IInv, TypeOK, CursorInLog

LEMMA InitInv == Init => IInv
<1> SUFFICES ASSUME Init PROVE IInv OBVIOUS
<1> USE StreamAssumption
<1>1. TypeOK
  <2>1. 0 \in 0..MaxEvents /\ 0 \in 0..MaxFaults /\ 0 <= MaxEvents OBVIOUS
  <2>2. <<>> \in Seq(Payloads) /\ <<>> \in Seq(Events) /\ Len(<<>>) = 0 OBVIOUS
  <2>3. log \in Seq(Payloads) /\ Len(log) <= MaxEvents /\ inbox \in Seq(Events)
    BY <2>1, <2>2 DEF Init
  <2>4. received \in [Encrypted -> 0..MaxEvents] BY <2>1 DEF Init
  <2> QED BY <2>1, <2>3, <2>4 DEF Init, TypeOK, Phases
<1>2. CursorInLog BY DEF Init, CursorInLog, Deciding
<1>3. RecordsFirst BY DEF Init, RecordsFirst
<1>4. Established BY DEF Init, Established, Deciding
<1>5. ControlBeforeCursor BY DEF Init, ControlBeforeCursor
<1> QED BY <1>1, <1>2, <1>3, <1>4, <1>5 DEF IInv

(* Nothing is established about an event that is not under decision. *)
LEMMA QuietInv ==
  ASSUME IInv, UNCHANGED <<log, saved>>,
         pc' \in Phases, pc' \notin Deciding,
         batch' \in BOOLEAN, faults' \in 0..MaxFaults,
         pos' \in Nat, pos' <= after
  PROVE  IInv'
<1> USE StreamAssumption, TypeFacts
<1>1. TypeOK' BY DEF IInv, TypeOK, saved
<1>2. CursorInLog' BY DEF IInv, CursorInLog, saved
<1>3. RecordsFirst' BY DEF IInv, RecordsFirst, saved
<1>4. Established' BY DEF Established, Deciding
<1>5. ControlBeforeCursor' BY DEF IInv, ControlBeforeCursor, saved
<1> QED BY <1>1, <1>2, <1>3, <1>4, <1>5 DEF IInv

LEMMA QuietSteps ==
  ASSUME IInv,
         \/ Start \/ (\E p \in 0..after : Open(p))
         \/ OpenSilent \/ Stall \/ EndBatch \/ Drop \/ Crash \/ Seen
  PROVE  IInv'
<1> USE StreamAssumption, TypeFacts
<1> USE DEF IInv, TypeOK, Phases, Deciding
<1>1. CASE Start BY <1>1, QuietInv DEF Start
<1>2. ASSUME NEW p \in 0..after, Open(p) PROVE IInv' BY <1>2, QuietInv DEF Open
<1>3. CASE OpenSilent BY <1>3, QuietInv DEF OpenSilent
<1>4. CASE Stall BY <1>4, QuietInv DEF Stall
<1>5. CASE EndBatch BY <1>5, QuietInv DEF EndBatch
<1>6. CASE Drop BY <1>6, QuietInv DEF Drop, Fault
<1>7. CASE Crash BY <1>7, QuietInv DEF Crash, Fault
<1>8. CASE Seen BY <1>8, QuietInv DEF Seen, Seq1
<1> QED BY <1>1, <1>2, <1>3, <1>4, <1>5, <1>6, <1>7, <1>8

(* A new event changes none of those already in the log. *)
LEMMA PublishInv ==
  ASSUME IInv, NEW p \in Payloads, Publish(p)
  PROVE  IInv'
<1> USE StreamAssumption, TypeFacts
<1>1. /\ log' \in Seq(Payloads) /\ Len(log') = Len(log) + 1
      /\ Len(log') <= MaxEvents
      /\ \A n \in 1..Len(log) : log'[n] = log[n]
  BY DEF Publish
<1>2. UNCHANGED <<after, inbox, received, acked, paired, admitted, pc,
                  batch, pos, faults>>
  BY DEF Publish, saved
<1>3. TypeOK' BY <1>1, <1>2 DEF IInv, TypeOK
<1>4. CursorInLog' BY <1>1, <1>2 DEF IInv, CursorInLog
<1>5. RecordsFirst'
  <2> SUFFICES ASSUME NEW q \in Encrypted
               PROVE  /\ received[q] # 0 =>
                           /\ received[q] <= after + 1 /\ received[q] <= Len(log')
                           /\ log'[received[q]] = q /\ q \notin Unreadable
                           /\ \A m \in 1..received[q] - 1 : log'[m] # q
                      /\ q \notin Unreadable /\ received[q] = 0 =>
                           \A m \in 1..after : log'[m] # q
    BY <1>2 DEF RecordsFirst
  <2>1. received[q] \in Nat OBVIOUS
  <2>2. CASE received[q] = 0 BY <1>1, <2>2 DEF IInv, RecordsFirst
  <2>3. CASE received[q] # 0
    <3>1. /\ received[q] <= after + 1 /\ received[q] <= Len(log)
          /\ log[received[q]] = q /\ q \notin Unreadable
          /\ \A m \in 1..received[q] - 1 : log[m] # q
      BY <2>3 DEF IInv, RecordsFirst
    <3>2. received[q] \in 1..Len(log) BY <2>1, <2>3, <3>1
    <3>3. \A m \in 1..received[q] - 1 : m \in 1..Len(log) BY <3>2
    <3> QED BY <1>1, <2>3, <3>1, <3>2, <3>3
  <2> QED BY <2>2, <2>3
<1>6. Established'
  <2>1. CASE pc \in Deciding
    <3>1. pos + 1 \in 1..Len(log) BY <2>1 DEF IInv, CursorInLog
    <3>2. Event' = Event /\ Seq1' = Seq1 BY <1>1, <1>2, <3>1 DEF Event, Seq1
    <3> QED BY <1>2, <3>2 DEF IInv, Established, Fresh
  <2>2. CASE pc \notin Deciding BY <1>2, <2>2 DEF Established, Deciding
  <2> QED BY <2>1, <2>2
<1>7. ControlBeforeCursor' BY <1>1, <1>2 DEF IInv, ControlBeforeCursor
<1> QED BY <1>3, <1>4, <1>5, <1>6, <1>7 DEF IInv

-----------------------------------------------------------------------------
(***************************************************************************)
(* The event under decision.                                               *)
(***************************************************************************)

LEMMA EventFacts ==
  ASSUME IInv, New \/ pc \in Deciding
  PROVE  /\ pos = after /\ Seq1 = after + 1 /\ Event = log[after + 1]
         /\ after + 1 \in 1..Len(log) /\ Event \in Payloads
<1> USE TypeFacts
<1>1. pos = after /\ after < Len(log)
  BY DEF New, Seq1, IInv, CursorInLog
<1> QED BY <1>1 DEF Seq1, Event

(* A step that decides nothing new about the payload: the log, the cursor    *)
(* and the replay records stay, the record of controls only grows.           *)
LEMMA DecideInv ==
  ASSUME IInv, New \/ pc \in Deciding,
         UNCHANGED <<log, after, inbox, received, batch, pos>>,
         pc' \in Phases, faults' \in 0..MaxFaults,
         acked \subseteq acked', paired \subseteq paired',
         acked' \subseteq Hellos, paired' \subseteq Acks,
         admitted' \subseteq Joins,
         Established'
  PROVE  IInv'
<1> USE StreamAssumption, TypeFacts
<1>1. TypeOK' BY DEF IInv, TypeOK
<1>2. CursorInLog' BY EventFacts DEF IInv, CursorInLog
<1>3. RecordsFirst' BY DEF IInv, RecordsFirst
<1>4. ControlBeforeCursor' BY DEF IInv, ControlBeforeCursor
<1> QED BY <1>1, <1>2, <1>3, <1>4 DEF IInv

LEMMA ControlSteps ==
  ASSUME IInv, AdmitJoin \/ ReviewJoin \/ AckHello \/ SavePeer \/ TellPeer \/ NoControl
  PROVE  IInv'
<1> USE StreamAssumption, TypeFacts
<1>1. New \/ pc \in Deciding
  BY DEF AdmitJoin, ReviewJoin, AckHello, SavePeer, TellPeer, NoControl, Deciding
<1>2. /\ UNCHANGED <<log, after, inbox, received, batch, pos>>
      /\ pc' \in Phases /\ faults' \in 0..MaxFaults
  BY DEF AdmitJoin, ReviewJoin, AckHello, SavePeer, TellPeer, NoControl, saved,
         Phases, Fault, IInv, TypeOK
<1>3. Event' = Event /\ Seq1' = Seq1 BY <1>2 DEF Event, Seq1
<1>4. /\ acked \subseteq acked' /\ paired \subseteq paired'
      /\ acked' \subseteq Hellos /\ paired' \subseteq Acks
      /\ admitted' \subseteq Joins
  BY DEF AdmitJoin, ReviewJoin, AckHello, SavePeer, TellPeer, NoControl, saved,
         IInv, TypeOK, Established, Deciding
<1>5. Established'
  <2> USE DEF Established, Deciding
  <2>1. CASE AdmitJoin BY <1>3, <2>1 DEF AdmitJoin
  <2>2. CASE ReviewJoin BY <1>3, <2>2 DEF ReviewJoin
  <2>3. CASE AckHello BY <1>2, <1>3, <2>3 DEF AckHello, IInv
  <2>4. CASE SavePeer BY <1>2, <1>3, <2>4 DEF SavePeer, IInv
  <2>5. CASE TellPeer BY <1>2, <1>3, <2>5 DEF TellPeer, saved, IInv
  <2>6. CASE NoControl BY <1>2, <1>3, <2>6 DEF NoControl, IInv
  <2> QED BY <2>1, <2>2, <2>3, <2>4, <2>5, <2>6
<1> QED BY <1>1, <1>2, <1>4, <1>5, DecideInv

LEMMA VerifyInv ==
  ASSUME IInv, Verify
  PROVE  IInv'
<1> USE StreamAssumption, TypeFacts
<1>1. New /\ Event \notin Joins BY DEF Verify
<1>2. /\ pos = after /\ Seq1 = after + 1 /\ Event = log[after + 1]
      /\ after + 1 \in 1..Len(log) /\ Event \in Payloads
  BY <1>1, EventFacts
<1>3. /\ UNCHANGED <<log, after, inbox, acked, paired, admitted, batch, pos, faults>>
      /\ Event' = Event /\ Seq1' = Seq1
  BY DEF Verify, Event, Seq1
<1>4. CASE UNCHANGED received /\ pc' = "invalid"
  <2>1. Established' BY <1>3, <1>4 DEF Verify, Established, Deciding, Readable, Fresh
  <2> QED BY <1>1, <1>3, <1>4, <2>1, DecideInv DEF Phases, IInv, TypeOK
<1>5. CASE ~ (UNCHANGED received /\ pc' = "invalid")
  <2>1. /\ Event \notin Unreadable /\ Fresh(Event, Seq1) /\ pc' = "valid"
        /\ received' = IF Event \in Encrypted
                       THEN [received EXCEPT ![Event] = Seq1] ELSE received
    BY <1>5 DEF Verify, Readable
  <2>2. /\ received' \in [Encrypted -> 0..MaxEvents]
        /\ Event \in Encrypted => received'[Event] = after + 1
        /\ \A p \in Encrypted : p # Event => received'[p] = received[p]
    BY <1>2, <2>1
  <2>3. TypeOK' BY <1>3, <2>1, <2>2 DEF IInv, TypeOK, Phases
  <2>4. CursorInLog' BY <1>2, <1>3, <2>1 DEF CursorInLog
  <2>5. RecordsFirst'
    <3>1. ASSUME Event \in Encrypted
          PROVE  \A m \in 1..after : log[m] # Event
      <4>1. received[Event] \in {0, after + 1} BY <1>2, <2>1, <3>1 DEF Fresh
      <4> QED BY <2>1, <3>1, <4>1 DEF IInv, RecordsFirst
    <3> SUFFICES ASSUME NEW p \in Encrypted
                 PROVE  /\ received'[p] # 0 =>
                             /\ received'[p] <= after + 1 /\ received'[p] <= Len(log)
                             /\ log[received'[p]] = p /\ p \notin Unreadable
                             /\ \A m \in 1..received'[p] - 1 : log[m] # p
                        /\ p \notin Unreadable /\ received'[p] = 0 =>
                             \A m \in 1..after : log[m] # p
      BY <1>3 DEF RecordsFirst
    <3>2. CASE p = Event BY <1>2, <2>1, <2>2, <3>1, <3>2
    <3>3. CASE p # Event BY <2>2, <3>3 DEF IInv, RecordsFirst
    <3> QED BY <3>2, <3>3
  <2>6. Established' BY <1>2, <1>3, <2>1, <2>2 DEF Established
  <2>7. ControlBeforeCursor' BY <1>3 DEF IInv, ControlBeforeCursor
  <2> QED BY <2>3, <2>4, <2>5, <2>6, <2>7 DEF IInv
<1> QED BY <1>4, <1>5

-----------------------------------------------------------------------------
(***************************************************************************)
(* The cursor moves on.                                                    *)
(***************************************************************************)

(* An event that is not valid was processed under an earlier number, is      *)
(* unreadable or is a join request.                                         *)
LEMMA InvalidFacts ==
  ASSUME IInv, pc = "invalid", Event \notin Joins \cup Unreadable
  PROVE  /\ Event \in Encrypted
         /\ received[Event] \in 1..after /\ log[received[Event]] = Event
<1> USE StreamAssumption, TypeFacts
<1>1. Seq1 = after + 1 BY EventFacts DEF Deciding
<1>2. Event \in Encrypted /\ received[Event] \notin {0, after + 1}
  BY <1>1 DEF IInv, Established, Fresh
<1>3. received[Event] \in Nat BY <1>2
<1> QED BY <1>2, <1>3 DEF IInv, RecordsFirst

LEMMA IngestInv ==
  ASSUME IInv, Ingest \/ IngestInvalid
  PROVE  IInv'
<1> USE StreamAssumption, TypeFacts
<1>1. pc \in {"controlled", "invalid"} BY DEF Ingest, IngestInvalid
<1>2. /\ pos = after /\ Seq1 = after + 1 /\ Event = log[after + 1]
      /\ after + 1 \in 1..Len(log) /\ Event \in Payloads
  BY <1>1, EventFacts DEF Deciding
<1>3. /\ after' = after + 1 /\ pos' = after + 1 /\ pc' = "reading"
      /\ inbox' \in {inbox, Append(inbox, after + 1)}
      /\ UNCHANGED <<log, received, acked, paired, admitted, batch, faults>>
  BY <1>2 DEF Ingest, IngestInvalid, Ingested
<1>4. inbox' \in Seq(Events)
  <2>1. after + 1 \in Events BY <1>2 DEF Events
  <2> QED BY <1>3, <2>1 DEF IInv, TypeOK
<1>5. TypeOK' BY <1>2, <1>3, <1>4 DEF IInv, TypeOK, Phases
<1>6. CursorInLog' BY <1>2, <1>3 DEF CursorInLog, Deciding
<1>7. RecordsFirst'
  <2>1. ASSUME NEW p \in Encrypted, p \notin Unreadable, received[p] = 0
        PROVE  log[after + 1] # p
    <3> SUFFICES ASSUME Event = p PROVE FALSE BY <1>2
    <3>1. CASE pc = "controlled" BY <1>2, <2>1, <3>1 DEF IInv, Established, Deciding
    <3>2. CASE pc = "invalid" BY <2>1, <3>2, InvalidFacts
    <3> QED BY <1>1, <3>1, <3>2
  <2>2. \A m \in 1..after + 1 : m \in 1..after \/ m = after + 1 OBVIOUS
  <2>3. ASSUME NEW p \in Encrypted, received[p] # 0
        PROVE  /\ received[p] <= (after + 1) + 1 /\ received[p] <= Len(log)
               /\ log[received[p]] = p /\ p \notin Unreadable
               /\ \A m \in 1..received[p] - 1 : log[m] # p
    BY <2>3 DEF IInv, RecordsFirst
  <2> QED BY <1>3, <2>1, <2>2, <2>3 DEF IInv, RecordsFirst
<1>8. Established' BY <1>3 DEF Established, Deciding
<1>9. ControlBeforeCursor'
  <2>1. ASSUME log[after + 1] \notin Unreadable
        PROVE  /\ log[after + 1] \in Hellos => log[after + 1] \in acked
               /\ log[after + 1] \in Acks => log[after + 1] \in paired
    <3>1. CASE pc = "controlled" BY <1>2, <2>1, <3>1 DEF IInv, Established
    <3>2. CASE pc = "invalid"
      <4>1. CASE Event \in Joins BY <1>2, <4>1
      <4>2. CASE Event \notin Joins
        BY <1>2, <2>1, <3>2, <4>2, InvalidFacts DEF IInv, ControlBeforeCursor
      <4> QED BY <4>1, <4>2
    <3> QED BY <1>1, <3>1, <3>2
  <2>2. \A m \in 1..after + 1 : m \in 1..after \/ m = after + 1 OBVIOUS
  <2> QED BY <1>3, <2>1, <2>2 DEF IInv, ControlBeforeCursor
<1> QED BY <1>5, <1>6, <1>7, <1>8, <1>9 DEF IInv

LEMMA NextInv == IInv /\ [Next]_vars => IInv'
<1> SUFFICES ASSUME IInv, [Next]_vars PROVE IInv' OBVIOUS
<1>1. ASSUME NEW p \in Payloads, Publish(p) PROVE IInv' BY <1>1, PublishInv
<1>2. CASE \/ Start \/ (\E p \in 0..after : Open(p))
           \/ OpenSilent \/ Stall \/ EndBatch \/ Drop \/ Crash \/ Seen
  BY <1>2, QuietSteps
<1>3. CASE AdmitJoin \/ ReviewJoin \/ AckHello \/ SavePeer \/ TellPeer \/ NoControl
  BY <1>3, ControlSteps
<1>4. CASE Verify BY <1>4, VerifyInv
<1>5. CASE Ingest \/ IngestInvalid BY <1>5, IngestInv
<1>6. CASE UNCHANGED vars
  BY <1>6 DEF vars, IInv, TypeOK, CursorInLog, RecordsFirst, Established,
              ControlBeforeCursor, Event, Seq1, Fresh
<1> QED BY <1>1, <1>2, <1>3, <1>4, <1>5, <1>6 DEF Next, Reader

-----------------------------------------------------------------------------
(***************************************************************************)
(* The theorems.                                                           *)
(***************************************************************************)

(* The inductive invariant: the replay record of an encrypted message        *)
(* (decryptInboxEvent) names its first event and runs at most one event      *)
(* ahead of the saved cursor, wherever the process died.                     *)
THEOREM Invariance == Spec => []IInv
BY InitInv, NextInv, PTL DEF Spec

(* The state of the stream stays well typed.                                 *)
THEOREM TypeCorrect == Spec => []TypeOK
<1>1. IInv => TypeOK BY DEF IInv
<1> QED BY <1>1, Invariance, PTL

(* connectionEvent: the announcement of a peer is acknowledged and its       *)
(* answer saved before the cursor passes them, wherever the process died.    *)
THEOREM ControlFirst == Spec => []ControlBeforeCursor
<1>1. IInv => ControlBeforeCursor BY DEF IInv
<1> QED BY <1>1, Invariance, PTL

(* The cursor's steps are those of the abstract log.                         *)
LEMMA IngestProcesses ==
  ASSUME IInv, Ingest \/ IngestInvalid
  PROVE  Log!Process
<1> USE StreamAssumption, TypeFacts
<1>1. pc \in {"controlled", "invalid"} BY DEF Ingest, IngestInvalid
<1>2. /\ pos = after /\ Seq1 = after + 1 /\ Event = log[after + 1]
      /\ after + 1 \in 1..Len(log) /\ Event \in Payloads
  BY <1>1, EventFacts DEF Deciding
<1>3. after < Len(log) /\ after' = after + 1 /\ UNCHANGED log
  BY <1>2 DEF Ingest, IngestInvalid, Ingested
<1>4. CASE Ingest
  <2>1. /\ Event \notin Unreadable
        /\ Event \in Encrypted => received[Event] = after + 1
    BY <1>2, <1>4 DEF Ingest, IInv, Established, Deciding
  <2>2. Event \in Encrypted => Log!FirstTime(after + 1)
    <3> SUFFICES ASSUME Event \in Encrypted,
                        NEW m \in 1..(after + 1) - 1
                 PROVE  log[m] # log[after + 1]
      BY DEF Log!FirstTime
    <3>1. received[Event] = after + 1 /\ received[Event] # 0 BY <2>1
    <3>2. \A k \in 1..received[Event] - 1 : log[k] # Event
      BY <3>1 DEF IInv, RecordsFirst
    <3> QED BY <1>2, <3>1, <3>2
  <2>3. CASE Event \in Acks
    <3>1. ~ Log!Wakes(after + 1) BY <1>2, <2>3 DEF Log!Wakes
    <3>2. inbox' = inbox BY <1>4, <2>3 DEF Ingest, Ingested
    <3> QED BY <1>3, <3>1, <3>2 DEF Log!Process
  <2>4. CASE Event \notin Acks
    <3>1. Log!Wakes(after + 1) \/ log[after + 1] \in Joins
      BY <1>2, <2>1, <2>2, <2>4 DEF Log!Wakes
    <3>2. inbox' = Append(inbox, after + 1) BY <1>2, <1>4, <2>4 DEF Ingest, Ingested
    <3> QED BY <1>3, <3>1, <3>2 DEF Log!Process
  <2> QED BY <2>3, <2>4
<1>5. CASE IngestInvalid
  <2>1. ~ Log!Wakes(after + 1)
    <3>1. CASE Event \in Joins \cup Unreadable BY <1>2, <3>1 DEF Log!Wakes
    <3>2. CASE Event \notin Joins \cup Unreadable
      <4>1. /\ Event \in Encrypted
            /\ received[Event] \in 1..after /\ log[received[Event]] = Event
        BY <1>5, <3>2, InvalidFacts DEF IngestInvalid
      <4>2. ~ Log!FirstTime(after + 1) BY <1>2, <4>1 DEF Log!FirstTime
      <4> QED BY <1>2, <4>1, <4>2 DEF Log!Wakes
    <3> QED BY <3>1, <3>2
  <2>2. inbox' = inbox BY <1>5 DEF IngestInvalid, Ingested
  <2> QED BY <1>3, <2>1, <2>2 DEF Log!Process
<1> QED BY <1>4, <1>5

LEMMA StepRefines == IInv /\ [Next]_vars => [Log!Next]_Log!vars
<1> SUFFICES ASSUME IInv, [Next]_vars PROVE [Log!Next]_Log!vars OBVIOUS
<1>1. ASSUME NEW p \in Payloads, Publish(p) PROVE Log!Publish
  BY <1>1 DEF Publish, saved, Log!Publish
<1>2. CASE Ingest \/ IngestInvalid BY <1>2, IngestProcesses DEF Log!Next
<1>3. CASE UNCHANGED <<log, after, inbox>> BY <1>3 DEF Log!vars
<1> QED
  BY <1>1, <1>2, <1>3
  DEF Next, Reader, vars, saved, Log!Next, Start, Open, OpenSilent, Stall, EndBatch,
      Drop, Crash, Seen, Verify, AdmitJoin, ReviewJoin, AckHello, SavePeer, TellPeer,
      NoControl

(* The stream implements the abstract log: whatever connections break and    *)
(* whenever the process dies, the events are processed once each and in      *)
(* order, the first event of a readable message becomes work and a replay    *)
(* of it does not (acceptStreamEvent, decryptInboxEvent).                    *)
THEOREM Refinement == Spec => ImplementsEventLog
<1>1. Init => Log!Init BY DEF Init, Log!Init
<1> QED BY <1>1, StepRefines, Invariance, PTL DEF Spec, ImplementsEventLog
=============================================================================
