---------------------------- MODULE EventStream ----------------------------
(***************************************************************************)
(* How events reach the inbox: stream, consumeSSE, consumeBatch and        *)
(* acceptStreamEvent (cmd/tincan/inbox_stream.go), the verification of an   *)
(* event (decryptInboxEvent, encryption.go) and the pairing protocol        *)
(* (connectionEvent, plugin_background.go).                                 *)
(*                                                                         *)
(* The cursor and the work are one saved file, the replay record of a       *)
(* payload and the paired peer are files of their own: a step ends at each  *)
(* save and at each call, so the process can die in between.                *)
(***************************************************************************)
EXTENDS Naturals, Sequences

CONSTANTS
  Payloads,   \* identities of messages and join requests
  Messages,   \* ordinary messages of peers
  Hellos,     \* announcements of peers
  Acks,       \* answers of current members to the own announcement
  Joins,      \* join requests
  Encrypted,  \* messages that are encrypted
  Unreadable, \* of those, the ones older than the membership or rejected
  MaxEvents,  \* bound on events published (unbounded in the code)
  MaxFaults   \* bound on failures and crashes

ASSUME StreamAssumption ==
  /\ Payloads = Messages \cup Hellos \cup Acks \cup Joins
  /\ Messages \cap (Hellos \cup Acks \cup Joins) = {}
  /\ Hellos \cap (Acks \cup Joins) = {}
  /\ Acks \cap Joins = {}
  /\ Unreadable \subseteq Encrypted
  /\ Encrypted \subseteq Payloads \ Joins
  /\ MaxEvents \in Nat /\ MaxFaults \in Nat

VARIABLES
  log,       \* server: the events, in order
  after,     \* saved cursor
  inbox,     \* saved work: the events accepted
  received,  \* saved replay records: event that first carried a payload
  acked,     \* server: announcements acknowledged
  paired,    \* saved peers, as the answers they gave
  admitted,  \* join requests admitted without the owner
  pc,        \* where the stream is
  batch,     \* bounded reads instead of SSE
  pos,       \* last event read from this connection
  faults     \* failures and crashes so far

vars == <<log, after, inbox, received, acked, paired, admitted, pc, batch, pos, faults>>
saved == <<after, inbox, received, acked, paired, admitted>>

Phases == {"down", "closed", "silent", "reading", "valid", "paired",
           "controlled", "invalid"}
Events == 1..MaxEvents

TypeOK ==
  /\ log \in Seq(Payloads) /\ Len(log) <= MaxEvents
  /\ after \in 0..MaxEvents
  /\ inbox \in Seq(Events)
  /\ received \in [Encrypted -> 0..MaxEvents]
  /\ acked \subseteq Hellos /\ paired \subseteq Acks
  /\ admitted \subseteq Joins
  /\ pc \in Phases
  /\ batch \in BOOLEAN
  /\ pos \in 0..MaxEvents
  /\ faults \in 0..MaxFaults

Init ==
  /\ log = <<>> /\ after = 0 /\ inbox = <<>>
  /\ received = [p \in Encrypted |-> 0]
  /\ acked = {} /\ paired = {} /\ admitted = {}
  /\ pc = "down" /\ batch = FALSE /\ pos = 0 /\ faults = 0

-----------------------------------------------------------------------------
Publish(p) ==
  /\ Len(log) < MaxEvents
  /\ log' = Append(log, p)
  /\ UNCHANGED <<saved, pc, batch, pos, faults>>

Start ==
  /\ pc = "down"
  /\ pc' = "closed" /\ batch' = FALSE
  /\ UNCHANGED <<log, saved, pos, faults>>

(* The server sends from the cursor on; it may repeat events before it. *)
Open(p) ==
  /\ pc = "closed"
  /\ pos' = p
  /\ pc' = "reading"
  /\ UNCHANGED <<log, saved, batch, faults>>

(* An SSE connection that carries nothing, not even a heartbeat. *)
OpenSilent ==
  /\ pc = "closed" /\ ~ batch
  /\ pc' = "silent"
  /\ UNCHANGED <<log, saved, batch, pos, faults>>

(* Mutant of Stall: SSE is tried again. *)
StallKeepsSSE ==
  /\ pc = "silent"
  /\ pc' = "closed"
  /\ UNCHANGED <<log, saved, batch, pos, faults>>

(* errEventStreamStalled: no activity for 35 seconds. *)
Stall ==
  /\ pc = "silent"
  /\ pc' = "closed" /\ batch' = TRUE
  /\ UNCHANGED <<log, saved, pos, faults>>

Fault == faults < MaxFaults /\ faults' = faults + 1

(* A bounded read that has been used up is followed by the next one. *)
EndBatch ==
  /\ pc = "reading" /\ batch /\ pos = Len(log)
  /\ pc' = "closed"
  /\ UNCHANGED <<log, saved, batch, pos, faults>>

(* Any failure of a call, of a save or of the connection, and a batch that  *)
(* ends early: the next connection starts from the saved cursor.            *)
Drop ==
  /\ pc \notin {"down", "closed", "silent"}
  /\ pc' = "closed"
  /\ Fault
  /\ UNCHANGED <<log, saved, batch, pos>>

Crash ==
  /\ pc # "down"
  /\ pc' = "down"
  /\ Fault
  /\ UNCHANGED <<log, saved, batch, pos>>

-----------------------------------------------------------------------------
(***************************************************************************)
(* acceptStreamEvent.                                                      *)
(***************************************************************************)
Event == log[pos + 1]
Seq1 == pos + 1
New == pc = "reading" /\ pos < Len(log) /\ Seq1 > after

Seen ==
  /\ pc = "reading" /\ pos < Len(log) /\ Seq1 <= after
  /\ pos' = Seq1
  /\ UNCHANGED <<log, saved, pc, batch, faults>>

(* decryptMessage: a message from before the device's admission, or one put  *)
(* under quarantine, is not an error; any other failure drops the connection. *)
Readable(p) == p \notin Unreadable

(* Mutant of Fresh: the record of the payload stops its own event too. *)
FreshOnce(p, n) == p \in Encrypted => received[p] = 0

(* decryptInboxEvent: "A valid ciphertext replayed with a new transport     *)
(* sequence cannot wake a worker twice. The same sequence remains retryable *)
(* until acknowledged."                                                     *)
Fresh(p, n) == p \in Encrypted => received[p] \in {0, n}

Verify ==
  /\ New /\ Event \notin Joins
  /\ \/ /\ ~ Readable(Event) \/ ~ Fresh(Event, Seq1)
        /\ pc' = "invalid"
        /\ UNCHANGED received
     \/ /\ Readable(Event) /\ Fresh(Event, Seq1)
        /\ received' = IF Event \in Encrypted
                       THEN [received EXCEPT ![Event] = Seq1] ELSE received
        /\ pc' = "valid"
  /\ UNCHANGED <<log, after, inbox, acked, paired, admitted, batch, pos, faults>>

(* The creator's process admits the device itself; a request it already     *)
(* admitted stays admitted.                                                 *)
AdmitJoin ==
  /\ New /\ Event \in Joins
  /\ admitted' = admitted \cup {Event}
  /\ pc' = "invalid"
  /\ UNCHANGED <<log, after, inbox, received, acked, paired, batch, pos, faults>>

(* errManualAdmission: the owner decides, also about a device that was       *)
(* admitted and has left the roster since.                                   *)
ReviewJoin ==
  /\ New /\ Event \in Joins
  /\ pc' = "valid"
  /\ UNCHANGED <<log, saved, batch, pos, faults>>

(* connectionEvent: a hello is acknowledged under a key of its own; the     *)
(* answer of the server may be lost.                                        *)
AckHello ==
  /\ pc = "valid" /\ Event \in Hellos
  /\ acked' = acked \cup {Event}
  /\ \/ pc' = "controlled" /\ UNCHANGED faults
     \/ pc' = "closed" /\ Fault
  /\ UNCHANGED <<log, after, inbox, received, paired, admitted, batch, pos>>

SavePeer ==
  /\ pc = "valid" /\ Event \in Acks
  /\ paired' = paired \cup {Event}
  /\ pc' = "paired"
  /\ UNCHANGED <<log, after, inbox, received, acked, admitted, batch, pos, faults>>

(* Where there is somebody to notify, deliver tells the host of the peer.    *)
(* Only a notifier that fails, or a file deliverCodex cannot read, is an     *)
(* error: without a notifier, a thread, or with a push that is not due or    *)
(* fails, the event goes on and the host has heard nothing.                  *)
TellPeer ==
  /\ pc = "paired"
  /\ \/ pc' = "controlled" /\ UNCHANGED faults
     \/ pc' = "closed" /\ Fault
  /\ UNCHANGED <<log, saved, batch, pos>>

NoControl ==
  /\ pc = "valid" /\ Event \notin Hellos \cup Acks
  /\ pc' = "controlled"
  /\ UNCHANGED <<log, saved, batch, pos, faults>>

(* ingest: the cursor and the work are saved as one. *)
Ingested(valid) ==
  /\ after' = Seq1
  /\ inbox' = IF valid /\ Event \notin Acks THEN Append(inbox, Seq1) ELSE inbox
  /\ pos' = Seq1
  /\ pc' = "reading"
  /\ UNCHANGED <<log, received, acked, paired, admitted, batch, faults>>

(* Mutant of Ingest: the cursor is saved before the control handler runs. *)
IngestEarly == pc \in {"valid", "controlled"} /\ Ingested(TRUE)

Ingest == pc = "controlled" /\ Ingested(TRUE)

IngestInvalid == pc = "invalid" /\ Ingested(FALSE)

-----------------------------------------------------------------------------
Reader ==
  \/ Seen \/ Verify \/ AdmitJoin \/ ReviewJoin
  \/ AckHello \/ SavePeer \/ TellPeer \/ NoControl
  \/ Ingest \/ IngestInvalid

Next ==
  \/ \E p \in Payloads : Publish(p)
  \/ Start \/ \E p \in 0..after : Open(p)
  \/ OpenSilent \/ Stall \/ EndBatch \/ Drop \/ Crash
  \/ Reader

Spec == Init /\ [][Next]_vars

(***************************************************************************)
(* The loop of stream goes on while the process lives, and the process is  *)
(* started again.  Failures come to an end (MaxFaults); SSE connections may *)
(* be silent for ever.                                                      *)
(***************************************************************************)
Progress == Start \/ Open(after) \/ OpenSilent \/ Stall \/ Reader

Fairness == WF_vars(Progress)

FairSpec == Spec /\ Fairness

-----------------------------------------------------------------------------
(***************************************************************************)
(* Properties.                                                             *)
(***************************************************************************)
Log == INSTANCE EventLog WITH
         Work <- (Messages \cup Hellos) \ Unreadable,
         Join <- Joins

(* Whatever connections break and whenever the process dies, the inbox sees *)
(* the events of the server's log exactly once each and in order, a replay  *)
(* of an encrypted message wakes nobody, and none is lost between the       *)
(* replay record and the cursor (acceptStreamEvent, decryptInboxEvent).     *)
ImplementsEventLog == Log!Init /\ [][Log!Next]_Log!vars

(* Every event is processed in the end, even if SSE connections stay open   *)
(* and silent for ever (streamWithIdleTimeout).                             *)
EveryEventProcessed == \A n \in Events : (Len(log) >= n) ~> (after >= n)

(* Whatever fails between the handler of a control message and the cursor,  *)
(* connections and crashes included: a peer whose announcement is behind    *)
(* the cursor has its acknowledgement, and an answer behind the cursor is   *)
(* saved, so a message skipped by a later connection is never one whose     *)
(* handler still has to run (connectionEvent, acceptStreamEvent).  It says  *)
(* nothing of the host: see TellPeer.                                       *)
ControlBeforeCursor ==
  \A n \in 1..after : log[n] \notin Unreadable =>
    /\ log[n] \in Hellos => log[n] \in acked
    /\ log[n] \in Acks => log[n] \in paired

-----------------------------------------------------------------------------
(***************************************************************************)
(* The inductive invariant of the proofs.                                  *)
(***************************************************************************)
Deciding == {"valid", "paired", "controlled", "invalid"}

(* A connection never reads ahead of the cursor, and the event under        *)
(* decision is the one behind it.                                           *)
CursorInLog ==
  /\ pos <= after /\ after <= Len(log)
  /\ pc \in Deciding => pos = after /\ after < Len(log)

(* The replay record of a payload names its first event, which is processed *)
(* or the next one; every readable encrypted payload behind the cursor has   *)
(* one.                                                                      *)
RecordsFirst ==
  \A p \in Encrypted :
    /\ received[p] # 0 =>
         /\ received[p] <= after + 1 /\ received[p] <= Len(log)
         /\ log[received[p]] = p /\ p \notin Unreadable
         /\ \A m \in 1..received[p] - 1 : log[m] # p
    /\ p \notin Unreadable /\ received[p] = 0 => \A m \in 1..after : log[m] # p

(* What the steps taken for the event under decision have established.       *)
Established ==
  /\ pc \in Deciding \ {"invalid"} =>
       Event \notin Unreadable /\ (Event \in Encrypted => received[Event] = Seq1)
  /\ pc = "paired" => Event \in Acks \cap paired
  /\ pc = "controlled" =>
       /\ Event \in Hellos => Event \in acked
       /\ Event \in Acks => Event \in paired
  /\ pc = "invalid" => Event \in Joins \cup Unreadable \/ ~ Fresh(Event, Seq1)

IInv ==
  /\ TypeOK
  /\ CursorInLog
  /\ RecordsFirst
  /\ Established
  /\ ControlBeforeCursor
=============================================================================
