---------------------------- MODULE SecureGroup ----------------------------
(***************************************************************************)
(* The encrypted group of several devices: cmd/tincan/encryption.go and     *)
(* encryption_mls.go over the MLS helper in crypto/mls.  The creator signs *)
(* rosters; the server orders rosters and envelopes in one journal; every  *)
(* device follows the journal and sends under the newest roster.           *)
(*                                                                         *)
(* withCrypto gives an operation a copy (mem) of the saved state (disk),   *)
(* under a lock per device, and saves the copy when the operation ends,    *)
(* failed or not; privateJSON saves in between where the code says so.  A  *)
(* step is what happens between two HTTP calls or saves, so crashes and    *)
(* other devices come in between.  Keys, signatures and hashes are the     *)
(* numbers of the roster or envelope they belong to: perfect cryptography. *)
(*                                                                         *)
(* The group is a workspace's, in which one room has members of its own    *)
(* (Roster.RoomMembers); with RoomKeys = {} it is a room's own group.      *)
(***************************************************************************)
EXTENDS Naturals, Sequences, Functions

CONSTANTS
  Devices,     \* devices of the room, each with its own saved state
  Creator,     \* the device whose signing key is the root
  Keys,        \* idempotency keys of messages
  Files,       \* keys of uploads, drawn fresh and never retried
  RoomKeys,    \* the messages and uploads that go to the room's channel
  Owner,       \* the device that uses each key
  Importers,   \* the devices whose users import a history backup
  MaxCommits,  \* bound on rosters signed (unbounded in the code)
  MaxEnvelopes \* bound on envelopes sealed (unbounded in the code)

ASSUME GroupAssumption ==
  /\ Creator \in Devices
  /\ Keys \cap Files = {}
  /\ RoomKeys \subseteq Keys \cup Files
  /\ Importers \subseteq Devices
  /\ Owner \in [Keys \cup Files -> Devices]
  /\ MaxCommits \in Nat \ {0}
  /\ MaxEnvelopes \in Nat

VARIABLES
  commits,  \* every roster ever signed; its index is its hash
  envs,     \* every envelope ever sealed; its index is its hash
  journal,  \* server: rosters and envelopes in the order accepted
  refused,  \* server: rosters definitely rejected
  wire,     \* everything ever posted
  disk,     \* saved cryptoState of each device
  mem,      \* the copy the running operation works on
  pc,       \* where that operation is
  op        \* "new": its own work is still to come; "last": only to finish

vars == <<commits, envs, journal, refused, wire, disk, mem, pc, op>>
server == <<journal, refused>>

Rosters == 1..MaxCommits
Envelopes == 1..MaxEnvelopes

Roster == [epoch : Rosters, members : SUBSET Devices, prev : 0..MaxCommits,
           added : SUBSET Devices, room : SUBSET Devices]
Envelope == [key : Keys \cup Files, sender : Devices, roster : Rosters,
             group : Rosters, gen : 1..MaxEnvelopes]
Row == [kind : {"roster"}, id : Rosters] \cup [kind : {"envelope"}, id : Envelopes]

(***************************************************************************)
(* cryptoState.  group is the roster the MLS group stands at (0: no group  *)
(* yet), gen the sender ratchet, mlsEpoch, seen (Epoch and RosterHash),    *)
(* active (ActiveRoster) and pending (PendingRoster and the commit staged  *)
(* in the MLS state) are rosters, sync the journal cursor.                 *)
(***************************************************************************)
CryptoState ==
  [group : 0..MaxCommits, gen : 0..MaxEnvelopes, joined : BOOLEAN,
   seen : 0..MaxCommits, active : 0..MaxCommits, pending : 0..MaxCommits,
   sync : Nat, outbox : [Keys -> 0..MaxEnvelopes],
   consumed : SUBSET Envelopes, archive : SUBSET Envelopes,
   rejected : SUBSET Envelopes]

Phases == {"idle", "start", "post", "posted", "sync", "check", "ready",
           "sealed", "sent", "saved", "resent", "rebuild"}

TypeOK ==
  /\ commits \in Seq(Roster) /\ Len(commits) <= MaxCommits
  /\ envs \in Seq(Envelope) /\ Len(envs) <= MaxEnvelopes
  /\ journal \in Seq(Row)
  /\ refused \subseteq Rosters
  /\ wire \subseteq Row
  /\ disk \in [Devices -> CryptoState]
  /\ mem \in [Devices -> CryptoState]
  /\ pc \in [Devices -> Phases]
  /\ op \in [Devices -> {"new", "last"} \cup Keys \cup Files]

NewCrypto ==
  [group |-> 0, gen |-> 0, joined |-> FALSE, seen |-> 0, active |-> 0,
   pending |-> 0, sync |-> 0, outbox |-> [k \in Keys |-> 0],
   consumed |-> {}, archive |-> {}, rejected |-> {}]

Init ==
  /\ commits = <<>> /\ envs = <<>>
  /\ journal = <<>> /\ refused = {} /\ wire = {}
  /\ disk = [d \in Devices |-> NewCrypto]
  /\ mem = [d \in Devices |-> NewCrypto]
  /\ pc = [d \in Devices |-> "idle"]
  /\ op = [d \in Devices |-> "new"]

-----------------------------------------------------------------------------
EpochOf(r) == IF r = 0 THEN 0 ELSE commits[r].epoch
MembersOf(r) == IF r = 0 THEN {} ELSE commits[r].members
RoomOf(r) == IF r = 0 THEN {} ELSE commits[r].room

(* Whether d may read, or write, what is sent under key k and roster r. *)
InScope(r, d, k) == k \in RoomKeys => d \in RoomOf(r)

RosterRow(r) == [kind |-> "roster", id |-> r]
EnvelopeRow(e) == [kind |-> "envelope", id |-> e]
Published == {r \in 1..Len(commits) : RosterRow(r) \in Range(journal)}
Stored == {e \in 1..Len(envs) : EnvelopeRow(e) \in Range(journal)}
Current ==
  LET rosters == Published IN
  IF rosters = {} THEN 0
  ELSE CHOOSE r \in rosters : \A x \in rosters : EpochOf(x) <= EpochOf(r)

Goto(d, phase) == pc' = [pc EXCEPT ![d] = phase]
Work(d, m) == mem' = [mem EXCEPT ![d] = m]
Save(d, m) == Work(d, m) /\ disk' = [disk EXCEPT ![d] = m]

(* The end of withCrypto: the copy is saved, whether fn failed or not. *)
Finish(d, m) ==
  /\ Save(d, m)
  /\ Goto(d, "idle")
  /\ op' = [op EXCEPT ![d] = "new"]

(* Mutant of RosterAccepted: the rollback check is dropped. *)
RosterAcceptedAlways(m, r) == TRUE

(* cryptoRoster(0): the server may show any roster it ever published;      *)
(* one behind what was seen is a rollback, a newer one is remembered.      *)
RosterAccepted(m, r) == EpochOf(r) >= EpochOf(m.seen)
Observed(m, r) == [m EXCEPT !.seen = r, !.active = r]

-----------------------------------------------------------------------------
(***************************************************************************)
(* ensureCrypto and ensureMLS.                                             *)
(***************************************************************************)
Begin(d) ==
  /\ pc[d] = "idle"
  /\ Work(d, disk[d])
  /\ Goto(d, "start")
  /\ UNCHANGED <<commits, envs, journal, refused, wire, disk, op>>

(* The status call: remote is the epoch the server claims.  Only the        *)
(* creator starts a group, and the helper creates it once.                  *)
Uninitialized(m, remote) == m.pending = 0 /\ remote = 0

StatusFails(d, remote) ==
  /\ pc[d] = "start"
  /\ \/ remote < EpochOf(mem[d].seen)
     \/ Uninitialized(mem[d], remote) /\ (d # Creator \/ mem[d].group # 0)
  /\ Finish(d, mem[d])
  /\ UNCHANGED <<commits, envs, journal, refused, wire>>

StatusOK(d, remote) ==
  /\ pc[d] = "start"
  /\ remote >= EpochOf(mem[d].seen) /\ ~ Uninitialized(mem[d], remote)
  /\ Goto(d, IF mem[d].pending # 0 THEN "post" ELSE "sync")
  /\ UNCHANGED <<commits, envs, journal, refused, wire, disk, mem, op>>

(* The room policy (policy: does it name the room?) may be unavailable: the *)
(* operation then fails with the group created and no roster staged.        *)
CreateGroup(remote, policy) ==
  LET m == [mem[Creator] EXCEPT !.group = 1] IN
  /\ pc[Creator] = "start"
  /\ remote >= EpochOf(m.seen) /\ Uninitialized(m, remote)
  /\ mem[Creator].group = 0
  /\ \/ /\ policy # "unavailable"
        /\ commits' = Append(commits, [epoch |-> 1, members |-> {Creator},
                                       prev |-> 0, added |-> {Creator},
                                       room |-> IF policy = "room" THEN {Creator} ELSE {}])
        /\ Save(Creator, [m EXCEPT !.pending = 1])
        /\ Goto(Creator, "post")
        /\ UNCHANGED op
     \/ /\ policy = "unavailable"
        /\ Finish(Creator, m)
        /\ UNCHANGED commits
  /\ UNCHANGED <<envs, journal, refused, wire>>

PostRoster(d) ==
  /\ pc[d] = "post"
  /\ wire' = wire \cup {RosterRow(mem[d].pending)}
  /\ Goto(d, "posted")
  /\ UNCHANGED <<commits, envs, journal, refused, disk, mem, op>>

(* No answer: the staged commit is kept for the next operation. *)
PostUncertain(d) ==
  /\ pc[d] = "posted"
  /\ Finish(d, mem[d])
  /\ UNCHANGED <<commits, envs, journal, refused, wire>>

PostAccepted(d) ==
  /\ pc[d] = "posted"
  /\ mem[d].pending \in Published
  /\ Goto(d, "sync")
  /\ UNCHANGED <<commits, envs, journal, refused, wire, disk, mem, op>>

(* A definite rejection, which is never the answer to a published roster:   *)
(* only the proposal is discarded.  The first roster is never discarded.    *)
PostRefused(d) ==
  /\ pc[d] = "posted"
  /\ mem[d].pending \notin Published
  /\ EpochOf(mem[d].pending) > 1
  /\ refused' = refused \cup {mem[d].pending}
  /\ Finish(d, [mem[d] EXCEPT !.pending = 0])
  /\ UNCHANGED <<commits, envs, journal, wire>>

-----------------------------------------------------------------------------
(***************************************************************************)
(* syncMLS: one journal row at a time, saved together with what it changes. *)
(***************************************************************************)
(* The MLS operation a roster row asks for, and whether the helper can do   *)
(* it: finalize (info for the first roster), join from the welcome, or      *)
(* merge the commit of another device into the group it was made from.      *)
MLSAccepts(m, d, r) ==
  IF m.pending = r THEN m.group = (IF EpochOf(r) = 1 THEN r ELSE commits[r].prev)
  ELSE IF ~ m.joined THEN d \in commits[r].added
  ELSE d # Creator /\ m.group = commits[r].prev

RosterRowOK(m, d, r) ==
  /\ EpochOf(r) = EpochOf(m.active) + 1
  /\ EpochOf(r) > 1 => commits[r].prev = m.active
  /\ IF d \in MembersOf(r) THEN MLSAccepts(m, d, r) ELSE ~ m.joined

RosterRowDone(m, d, r) ==
  IF d \in MembersOf(r)
  THEN [m EXCEPT !.group = r, !.gen = 0, !.joined = TRUE, !.active = r,
                 !.pending = IF m.pending = r THEN 0 ELSE m.pending,
                 !.sync = m.sync + 1]
  ELSE [m EXCEPT !.active = r, !.sync = m.sync + 1]

(* Mutant of Archived: the key is marked, the archive entry is left out. *)
ArchivedNot(m, e) == [m EXCEPT !.consumed = @ \cup {e}]

(* archivePut and the mark of a consumed key. *)
Archived(m, e) == [m EXCEPT !.consumed = @ \cup {e}, !.archive = @ \cup {e}]

Quarantined(m, e) == [m EXCEPT !.rejected = @ \cup {e}]

(* Envelope.Verify against the roster the device stands at. *)
EnvelopeValid(m, e) ==
  /\ envs[e].roster = m.active
  /\ envs[e].sender \in MembersOf(m.active)
  /\ InScope(m.active, envs[e].sender, envs[e].key)

(* consumeMLSKey: an envelope of its own that a device does not know means  *)
(* that its state is stale or cloned; one the group cannot open is put      *)
(* under quarantine and does not stop the others.  The key of a message to  *)
(* a room the device is not in is used up and not kept.                     *)
EnvelopeRowOK(m, d, e) ==
  /\ EnvelopeValid(m, e)
  /\ d \in MembersOf(m.active) =>
       e \in m.consumed \/ envs[e].sender # d

EnvelopeRowDone(m, d, e) ==
  LET next == [m EXCEPT !.sync = m.sync + 1] IN
  IF d \notin MembersOf(m.active) \/ e \in m.consumed THEN next
  ELSE IF m.group # envs[e].group THEN Quarantined(next, e)
  ELSE IF InScope(m.active, d, envs[e].key) THEN Archived(next, e)
  ELSE [next EXCEPT !.consumed = @ \cup {e}]

SyncOK(m, d, row) ==
  IF row.kind = "roster" THEN RosterRowOK(m, d, row.id)
  ELSE EnvelopeRowOK(m, d, row.id)

Synced(m, d, row) ==
  IF row.kind = "roster" THEN RosterRowDone(m, d, row.id)
  ELSE EnvelopeRowDone(m, d, row.id)

SyncRow(d) ==
  /\ pc[d] = "sync"
  /\ mem[d].sync < Len(journal)
  /\ LET row == journal[mem[d].sync + 1] IN
     /\ SyncOK(mem[d], d, row)
     /\ Save(d, Synced(mem[d], d, row))
  /\ UNCHANGED <<commits, envs, journal, refused, wire, pc, op>>

SyncFails(d) ==
  /\ pc[d] = "sync"
  /\ mem[d].sync < Len(journal)
  /\ ~ SyncOK(mem[d], d, journal[mem[d].sync + 1])
  /\ Finish(d, mem[d])
  /\ UNCHANGED <<commits, envs, journal, refused, wire>>

SyncDone(d) ==
  /\ pc[d] = "sync"
  /\ mem[d].sync = Len(journal)
  /\ Goto(d, "check")
  /\ UNCHANGED <<commits, envs, journal, refused, wire, disk, mem, op>>

(* The end of ensureMLS: the group must stand at the roster just read and   *)
(* the device be in it; the roster is remembered even if it does not.       *)
Check(d, r) ==
  LET m == Observed(mem[d], r)
      fits == m.joined /\ m.group = r /\ d \in MembersOf(r) IN
  /\ pc[d] = "check"
  /\ r \in Published
  /\ \/ /\ RosterAccepted(mem[d], r) /\ fits /\ op[d] # "last"
        /\ Work(d, m)
        /\ Goto(d, "ready")
        /\ UNCHANGED <<disk, op>>
     \/ /\ RosterAccepted(mem[d], r) /\ (~ fits \/ op[d] = "last")
        /\ Finish(d, m)
     \/ /\ ~ RosterAccepted(mem[d], r)
        /\ Finish(d, mem[d])
  /\ UNCHANGED <<commits, envs, journal, refused, wire>>

-----------------------------------------------------------------------------
(***************************************************************************)
(* changeMLSRoster, called to admit a device, to revoke one, and to rotate *)
(* keys, the last also by ensureMLS itself, after which the operation goes  *)
(* on (then = "new").                                                       *)
(***************************************************************************)
(* Mutant of Change: the commit is posted before it is saved. *)
ChangeUnsaved(d, members, room, then) ==
  LET old == mem[d].active
      next == Len(commits) + 1 IN
  /\ pc[d] = "ready" /\ d = Creator /\ next \in Rosters
  /\ Creator \in members
  /\ commits' = Append(commits, [epoch |-> EpochOf(old) + 1, members |-> members,
                                 prev |-> old,
                                 added |-> members \ MembersOf(old),
                                 room |-> room])
  /\ Work(d, [mem[d] EXCEPT !.pending = next])
  /\ Goto(d, "post")
  /\ op' = [op EXCEPT ![d] = then]
  /\ UNCHANGED <<envs, journal, refused, wire, disk>>

Change(d, members, room, then) ==
  LET old == mem[d].active
      next == Len(commits) + 1 IN
  /\ pc[d] = "ready" /\ d = Creator /\ next \in Rosters
  /\ Creator \in members
  /\ commits' = Append(commits, [epoch |-> EpochOf(old) + 1, members |-> members,
                                 prev |-> old,
                                 added |-> members \ MembersOf(old),
                                 room |-> room])
  /\ Save(d, [mem[d] EXCEPT !.pending = next])
  /\ Goto(d, "post")
  /\ op' = [op EXCEPT ![d] = then]
  /\ UNCHANGED <<envs, journal, refused, wire>>

(* The invitation is for the room or for another one. *)
Admit(x, invited) ==
  LET old == mem[Creator].active IN
  /\ x \notin MembersOf(old)
  /\ invited => Creator \in RoomOf(old)
  /\ Change(Creator, MembersOf(old) \cup {x},
            RoomOf(old) \cup (IF invited THEN {x} ELSE {}), "last")

Revoke(x) ==
  LET old == mem[Creator].active IN
  /\ x # Creator /\ x \in MembersOf(old)
  /\ Change(Creator, MembersOf(old) \ {x}, RoomOf(old) \ {x}, "last")

Rotate(then) ==
  LET old == mem[Creator].active IN
  Change(Creator, MembersOf(old), RoomOf(old), then)

(* registerEncryptedRoom: the creator enters a room it has just created.    *)
(* With no rooms in the roster yet, the server's policy says who of the     *)
(* group is in the room.  The operation that found the room pending goes on.*)
RegisterRoom(room) ==
  LET old == mem[Creator].active IN
  /\ Creator \notin RoomOf(old) /\ room \subseteq MembersOf(old)
  /\ RoomOf(old) # {} => room = {Creator}
  /\ Change(Creator, MembersOf(old), room, "new")

(* encryptedRoomMember: a device of the group is put in the room or taken   *)
(* out of it; a roster is published even if that changes nothing.           *)
RoomMember(x, present) ==
  LET old == mem[Creator].active IN
  /\ Creator \in RoomOf(old) /\ x \in MembersOf(old)
  /\ present \/ x # Creator
  /\ Change(Creator, MembersOf(old),
            IF present THEN RoomOf(old) \cup {x} ELSE RoomOf(old) \ {x}, "last")

-----------------------------------------------------------------------------
(***************************************************************************)
(* cryptoSend and cryptoUpload.  The roster is read once more; what is     *)
(* sealed is saved, with the ratchet it used up, before it is posted.      *)
(***************************************************************************)
(* Mutant of SealedState: the ratchet the helper returned is not kept. *)
SealedStateSameRatchet(m, k, r) ==
  LET e == Len(envs) + 1
      s == Archived(Observed(m, r), e) IN
  IF k \in Keys THEN [s EXCEPT !.outbox[k] = e] ELSE s

SealedState(m, k, r) ==
  LET e == Len(envs) + 1
      s == [Archived(Observed(m, r), e) EXCEPT !.gen = m.gen + 1] IN
  IF k \in Keys THEN [s EXCEPT !.outbox[k] = e] ELSE s

EnvelopeOf(m, d, k, r) ==
  [key |-> k, sender |-> d, roster |-> r, group |-> m.group, gen |-> m.gen + 1]

Fresh(m, k) ==
  IF k \in Keys THEN m.outbox[k] = 0
  ELSE \A e \in 1..Len(envs) : envs[e].key # k

(* Mutant of Seal: what was sealed is saved only when the operation ends. *)
SealUnsaved(d, k, r) ==
  /\ pc[d] = "ready" \/ (pc[d] = "rebuild" /\ op[d] = k)
  /\ Owner[k] = d /\ Fresh(mem[d], k)
  /\ r \in Published /\ RosterAccepted(mem[d], r)
  /\ InScope(r, d, k)
  /\ Len(envs) < MaxEnvelopes
  /\ envs' = Append(envs, EnvelopeOf(mem[d], d, k, r))
  /\ Work(d, SealedState(mem[d], k, r))
  /\ Goto(d, "sealed")
  /\ op' = [op EXCEPT ![d] = k]
  /\ UNCHANGED <<commits, journal, refused, wire, disk>>

Seal(d, k, r) ==
  /\ pc[d] = "ready" \/ (pc[d] = "rebuild" /\ op[d] = k)
  /\ Owner[k] = d /\ Fresh(mem[d], k)
  /\ r \in Published /\ RosterAccepted(mem[d], r)
  /\ InScope(r, d, k)
  /\ Len(envs) < MaxEnvelopes
  /\ envs' = Append(envs, EnvelopeOf(mem[d], d, k, r))
  /\ Save(d, SealedState(mem[d], k, r))
  /\ Goto(d, "sealed")
  /\ op' = [op EXCEPT ![d] = k]
  /\ UNCHANGED <<commits, journal, refused, wire>>

Send(d, k, r) == k \in Keys /\ Seal(d, k, r)
Upload(d, k, r) == k \in Files /\ Seal(d, k, r)

(* There is nothing to send, a call or the helper failed, a rollback was    *)
(* detected or the device is not among the recipients.  A roster that was   *)
(* accepted is remembered all the same.                                     *)
SealFails(d, r) ==
  /\ pc[d] \in {"ready", "rebuild"}
  /\ \/ Finish(d, mem[d])
     \/ RosterAccepted(mem[d], r) /\ Finish(d, Observed(mem[d], r))
  /\ UNCHANGED <<commits, envs, journal, refused, wire>>

SealedBy(d) ==
  IF op[d] \in Keys THEN mem[d].outbox[op[d]]
  ELSE CHOOSE e \in mem[d].consumed : envs[e].key = op[d]

(* The post of what was just sealed, or of the envelope saved for the key. *)
PostEnvelope(d) ==
  /\ pc[d] \in {"sealed", "saved"}
  /\ wire' = wire \cup {EnvelopeRow(SealedBy(d))}
  /\ Goto(d, IF pc[d] = "sealed" THEN "sent" ELSE "resent")
  /\ UNCHANGED <<commits, envs, journal, refused, disk, mem, op>>

Retry(d, k) ==
  /\ pc[d] = "ready" /\ Owner[k] = d /\ k \in Keys /\ mem[d].outbox[k] # 0
  /\ Goto(d, "saved")
  /\ op' = [op EXCEPT ![d] = k]
  /\ UNCHANGED <<commits, envs, journal, refused, wire, disk, mem>>

(* The message was stored, or nobody knows: either way the envelope stays   *)
(* in the outbox.  An upload is not tried again.                            *)
SendEnds(d) ==
  /\ pc[d] \in {"sent", "resent"}
  /\ Finish(d, mem[d])
  /\ UNCHANGED <<commits, envs, journal, refused, wire>>

(* Mutant of SendConflict: any failed post rebuilds the envelope. *)
SendConflictAlways(d) ==
  /\ pc[d] = "resent"
  /\ Work(d, [mem[d] EXCEPT !.outbox[op[d]] = 0])
  /\ Goto(d, "rebuild")
  /\ UNCHANGED <<commits, envs, journal, refused, wire, disk, op>>

(* encryption_epoch_conflict in answer to a saved envelope: the server      *)
(* stored nothing under the key and never will store this one, so it is     *)
(* sealed again.  In answer to a new envelope it ends the operation.        *)
SendConflict(d) ==
  /\ pc[d] = "resent"
  /\ SealedBy(d) \notin Stored
  /\ envs[SealedBy(d)].roster # Current
  /\ Work(d, [mem[d] EXCEPT !.outbox[op[d]] = 0])
  /\ Goto(d, "rebuild")
  /\ UNCHANGED <<commits, envs, journal, refused, wire, disk, op>>

-----------------------------------------------------------------------------
(***************************************************************************)
(* Reading: openMLSPayload takes the key from the archive, decryptMessage   *)
(* shows what is under quarantine as rejected.  backupHistory writes the    *)
(* archive and nothing else; restoreHistory adds what is missing.           *)
(***************************************************************************)
Opens(m, e) == e \in m.archive /\ e \notin m.rejected

Backup(x) == disk[x].archive

Restore(d, x) ==
  /\ pc[d] = "idle"
  /\ Finish(d, [disk[d] EXCEPT !.archive = @ \cup Backup(x)])
  /\ UNCHANGED <<commits, envs, journal, refused, wire>>

-----------------------------------------------------------------------------
(***************************************************************************)
(* The server (external), and a process that dies.                         *)
(***************************************************************************)
AcceptRoster(r) ==
  /\ RosterRow(r) \in wire
  /\ r \notin Published \cup refused
  /\ commits[r].prev = Current /\ EpochOf(r) = EpochOf(Current) + 1
  /\ journal' = Append(journal, RosterRow(r))
  /\ UNCHANGED <<commits, envs, refused, wire, disk, mem, pc, op>>

AcceptEnvelope(e) ==
  /\ EnvelopeRow(e) \in wire
  /\ \A x \in Stored : <<envs[x].sender, envs[x].key>> # <<envs[e].sender, envs[e].key>>
  /\ envs[e].roster = Current
  /\ journal' = Append(journal, EnvelopeRow(e))
  /\ UNCHANGED <<commits, envs, refused, wire, disk, mem, pc, op>>

Crash(d) ==
  /\ pc[d] # "idle"
  /\ Work(d, disk[d])
  /\ Goto(d, "idle")
  /\ op' = [op EXCEPT ![d] = "new"]
  /\ UNCHANGED <<commits, envs, journal, refused, wire, disk>>

-----------------------------------------------------------------------------
Device(d) ==
  \/ Begin(d)
  \/ /\ pc[d] = "start"
     /\ \E remote \in 0..EpochOf(Current) : StatusFails(d, remote) \/ StatusOK(d, remote)
  \/ PostRoster(d) \/ PostUncertain(d) \/ PostAccepted(d) \/ PostRefused(d)
  \/ SyncRow(d) \/ SyncFails(d) \/ SyncDone(d)
  \/ \E r \in Published :
       \/ Check(d, r)
       \/ \E k \in Keys : Send(d, k, r)
       \/ \E k \in Files : Upload(d, k, r)
       \/ SealFails(d, r)
  \/ \E k \in Keys : Retry(d, k)
  \/ PostEnvelope(d) \/ SendEnds(d) \/ SendConflict(d)
  \/ Crash(d)

Next ==
  \/ \E d \in Devices : Device(d) \/ Revoke(d)
  \/ \E d \in Devices, b \in BOOLEAN : Admit(d, b) \/ RoomMember(d, b)
  \/ \E d \in Importers, x \in Devices : Restore(d, x)
  \/ /\ pc[Creator] = "start"
     /\ \E remote \in 0..EpochOf(Current), policy \in {"room", "no room", "unavailable"} :
          CreateGroup(remote, policy)
  \/ \E then \in {"new", "last"} : Rotate(then)
  \/ \E room \in SUBSET Devices : RegisterRoom(room)
  \/ \E r \in 1..Len(commits) : AcceptRoster(r)
  \/ \E e \in 1..Len(envs) : AcceptEnvelope(e)

Spec == Init /\ [][Next]_vars

-----------------------------------------------------------------------------
(***************************************************************************)
(* Properties.                                                             *)
(***************************************************************************)
(* A device never meets an envelope of its own that it does not know, which *)
(* consumeMLSKey takes for a stale or cloned state and never gets over:     *)
(* whatever it has put on the wire is in its saved state, crash or not.     *)
OwnEnvelopeKnown ==
  \A e \in 1..Len(envs) :
    EnvelopeRow(e) \in wire => e \in disk[envs[e].sender].consumed

(* No two envelopes on the wire were sealed with the same ratchet           *)
(* generation of the same sender in the same group state (sealMLS saves the *)
(* ratchet before the post).                                                *)
NoGenerationReuse ==
  \A e, f \in 1..Len(envs) :
    /\ e # f /\ EnvelopeRow(e) \in wire /\ EnvelopeRow(f) \in wire
    /\ envs[e].sender = envs[f].sender /\ envs[e].group = envs[f].group
    => envs[e].gen # envs[f].gen

(* "This explicit rejection guarantees no message was committed. Rebuild    *)
(* for the current recipients; uncertain network outcomes keep the outbox"  *)
(* (cryptoSend): of the envelopes posted for one key at most one can ever   *)
(* be stored, without any help from the server's deduplication.             *)
SendOnce ==
  \A e, f \in 1..Len(envs) :
    /\ e # f /\ EnvelopeRow(e) \in wire /\ EnvelopeRow(f) \in wire
    /\ envs[e].key = envs[f].key
    => \E x \in {e, f} : x \notin Stored /\ envs[x].roster # Current

(* A crash between posting a commit and merging it never leaves the creator *)
(* outside its own group: a published roster it has not merged is the       *)
(* staged one of its saved state.                                           *)
CommitRecoverable ==
  \A n \in 1..Len(journal) :
    journal[n].kind = "roster" /\ n > disk[Creator].sync =>
      disk[Creator].pending = journal[n].id

(* "A single replace commits consumed keys, encrypted archive, and replay   *)
(* cursor" (syncMLS): wherever the process dies, a device can open every    *)
(* envelope behind its saved cursor that was sent to it, and every one of   *)
(* its own that it posted, or has it under quarantine.                      *)
HistoryComplete ==
  \A d \in Devices, e \in 1..Len(envs) :
    LET sentTo == /\ \E n \in 1..disk[d].sync : journal[n] = EnvelopeRow(e)
                  /\ d \in MembersOf(envs[e].roster)
                  /\ InScope(envs[e].roster, d, envs[e].key)
        own == envs[e].sender = d /\ EnvelopeRow(e) \in wire IN
    sentTo \/ own => Opens(disk[d], e) \/ e \in disk[d].rejected

(* Membership a device has seen is never taken back by an older answer of   *)
(* the server (cryptoRoster, "encryption membership rollback detected").    *)
NoRollback ==
  [][\A d \in Devices : EpochOf(disk[d].seen) <= EpochOf(disk[d].seen)']_vars

(* "encryption synchronization incomplete; retry before sending"            *)
(* (ensureMLS): what the device remembers as the active roster is the last  *)
(* one of the journal it has processed, so that processing can go on.       *)
SyncCanContinue ==
  \A d \in Devices : pc[d] = "idle" =>
    LET done == {n \in 1..disk[d].sync : journal[n].kind = "roster"} IN
    disk[d].active = IF done = {} THEN 0
                     ELSE journal[CHOOSE n \in done : \A x \in done : x <= n].id

-----------------------------------------------------------------------------
(***************************************************************************)
(* The inductive invariant of the proofs.                                  *)
(***************************************************************************)
(* The rows a device has processed, as far as state m remembers. *)
Passed(m, row) == \E n \in 1..m.sync : journal[n] = row

(* An envelope that is not stored and never will be. *)
Dead(e) == e \notin Stored /\ envs[e].roster # Current

RostersSound ==
  /\ \A r \in 1..Len(commits) :
       commits[r].epoch <= r /\ Creator \in commits[r].members
  /\ \A r, s \in Published : EpochOf(r) = EpochOf(s) => r = s
  /\ Published # {} =>
       \E r \in Published : \A s \in Published : EpochOf(s) <= EpochOf(r)

(* The journal holds what was posted, a roster at most once and none that    *)
(* was refused.                                                              *)
JournalSound ==
  /\ \A n \in 1..Len(journal) : journal[n] \in wire
  /\ \A m, n \in 1..Len(journal) :
       journal[m] = journal[n] /\ journal[n].kind = "roster" => m = n
  /\ Published \cap refused = {}
  /\ \A r \in Rosters : RosterRow(r) \in wire => r <= Len(commits)
  /\ \A e \in Envelopes : EnvelopeRow(e) \in wire => e <= Len(envs)

(* An envelope was sealed by the owner of its key, which has saved it, from  *)
(* a group state it had merged; for a key in the outbox all others are dead. *)
EnvelopeSound(e) ==
  LET m == disk[envs[e].sender] IN
  /\ envs[e].sender = Owner[envs[e].key]
  /\ envs[e].roster \in Published
  /\ InScope(envs[e].roster, envs[e].sender, envs[e].key)
  /\ e \in m.consumed
  /\ Passed(m, RosterRow(envs[e].group))
  /\ envs[e].group = m.group => envs[e].gen <= m.gen
  /\ envs[e].key \in Keys => e = m.outbox[envs[e].key] \/ Dead(e)

EnvelopesSound == \A e \in 1..Len(envs) : EnvelopeSound(e)

SealedApart ==
  \A e, f \in 1..Len(envs) : e # f =>
    /\ envs[e].sender = envs[f].sender /\ envs[e].group = envs[f].group =>
         envs[e].gen # envs[f].gen
    /\ envs[e].key = envs[f].key => envs[e].key \in Keys

(* What holds of the saved state m of device d. *)
StateSound(d, m) ==
  /\ m.seen <= Len(commits) /\ m.active <= Len(commits) /\ m.pending <= Len(commits)
  /\ m.gen <= Len(envs) /\ m.sync <= Len(journal)
  /\ m.joined => Passed(m, RosterRow(m.group))
  /\ d = Creator /\ m.group = 0 => commits = <<>>
  /\ m.pending # 0 => d = Creator /\ ~ Passed(m, RosterRow(m.pending))
  /\ \A k \in Keys : m.outbox[k] # 0 =>
       m.outbox[k] \in m.consumed /\ envs[m.outbox[k]].key = k
  /\ \A e \in m.consumed :
       /\ e <= Len(envs)
       /\ e \in m.archive \/ ~ InScope(envs[e].roster, d, envs[e].key)
  /\ \A e \in 1..Len(envs) :
       /\ Passed(m, EnvelopeRow(e)) /\ d \in MembersOf(envs[e].roster)
       /\ InScope(envs[e].roster, d, envs[e].key)
       => e \in m.archive \cup m.rejected

(* The copy differs from the saved state only in the roster observed since,  *)
(* and in the envelope that is being replaced, which is dead.                *)
Ahead == {"ready", "saved", "resent", "rebuild"}

CopySound(d) ==
  LET m == mem[d] IN
  /\ pc[d] \notin Ahead => m = disk[d]
  /\ pc[d] \in Ahead =>
       /\ m = [disk[d] EXCEPT !.seen = m.seen, !.active = m.active, !.outbox = m.outbox]
       /\ m.seen \in 1..Len(commits) /\ m.active \in 1..Len(commits)
       /\ m.joined
       /\ EpochOf(disk[d].seen) <= EpochOf(m.seen)
  /\ pc[d] \in Ahead \ {"rebuild"} => m.outbox = disk[d].outbox
  /\ pc[d] = "rebuild" =>
       /\ op[d] \in Keys /\ m.outbox = [disk[d].outbox EXCEPT ![op[d]] = 0]
       /\ \A e \in 1..Len(envs) : envs[e].key = op[d] => Dead(e)

(* Where an operation is: what it posts is saved, and a commit that was      *)
(* staged is merged before the operation does its own work.                  *)
PhaseSound(d) ==
  /\ pc[d] \in {"post", "posted"} => mem[d].pending # 0
  /\ pc[d] = "sync" => mem[d].pending = 0 \/ mem[d].pending \in Published
  /\ pc[d] \in Ahead \cup {"check", "sealed", "sent"} => mem[d].pending = 0
  /\ pc[d] \in {"sealed", "sent", "saved", "resent"} =>
       /\ op[d] \in Keys \cup Files /\ Owner[op[d]] = d
       /\ op[d] \in Keys => mem[d].outbox[op[d]] # 0
       /\ op[d] \notin Keys => \E e \in mem[d].consumed : envs[e].key = op[d]
  /\ pc[d] \in {"saved", "resent", "rebuild"} => op[d] \in Keys /\ Owner[op[d]] = d

(* A roster that was posted is refused, staged or merged. *)
PostedKnown ==
  \A r \in Rosters : RosterRow(r) \in wire =>
    \/ r \in refused
    \/ r = disk[Creator].pending
    \/ Passed(disk[Creator], RosterRow(r))

IInv ==
  /\ TypeOK
  /\ RostersSound
  /\ JournalSound
  /\ EnvelopesSound
  /\ SealedApart
  /\ \A d \in Devices : StateSound(d, disk[d]) /\ CopySound(d) /\ PhaseSound(d)
  /\ PostedKnown
=============================================================================
