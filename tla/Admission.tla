----------------------------- MODULE Admission -----------------------------
(***************************************************************************)
(* Admission of devices to an encrypted room by its creator:               *)
(* cmd/tincan/encryption_admission.go, encryptionManageMode                 *)
(* (encryption.go) and changeMLSRoster (encryption_mls.go).                 *)
(*                                                                         *)
(* One saved state, one operation at a time (withCrypto's lock), a save     *)
(* after the reservation, after the admission is noted and after the        *)
(* commit is staged; the process can die between any two.  The relay shows  *)
(* whatever requests it likes, under whatever ids and rooms, but it cannot  *)
(* prove possession of an invitation's secret for a device.                 *)
(***************************************************************************)
EXTENDS Naturals, Sequences

CONSTANTS
  Devices,   \* fingerprints of joining devices
  Requests,  \* request ids
  Invites,   \* invitations, as the hashes of their tokens
  Rooms,     \* rooms an invitation can name
  Holders,   \* devices that hold the secret of each invitation
  None,
  MaxStaged  \* bound on commits staged (unbounded in the code)

ASSUME AdmissionAssumption ==
  /\ Holders \in [Invites -> SUBSET Devices]
  /\ None \notin Devices \cup Requests \cup Invites \cup Rooms
  /\ MaxStaged \in Nat

VARIABLES
  disk,     \* saved state of the creator
  mem,      \* the copy the running operation works on
  pc,       \* where that operation is
  cur,      \* the request it is about
  expired,  \* invitations whose time is over
  staged,   \* every commit ever signed, in order
  published,\* server: commits in the roster
  members,  \* server: devices of the current roster
  void,     \* invitations outstanding when automatic admission was disabled
  verified  \* devices whose fingerprint the owner confirmed

vars == <<disk, mem, pc, cur, expired, staged, published, members, void, verified>>
server == <<published, members>>

Invite == [room : Rooms \cup {None}, req : Requests \cup {None},
           dev : Devices \cup {None}]
Commit == [kind : {"add", "remove"}, dev : Devices, by : {"auto", "manual"},
           verified : BOOLEAN, invite : Invites \cup {None}]
Shown == [id : Requests, dev : Devices, room : Rooms,
          invite : Invites \cup {None}]

(* cryptoState: AutomaticInvites, AdmissionInvites, AdmittedDevices,        *)
(* CommittedAdmissions and PendingRoster.                                   *)
State ==
  [auto : BOOLEAN, known : SUBSET Invites, invites : [Invites -> Invite],
   admitted : [Devices -> Requests \cup {None}], committed : SUBSET Devices,
   pending : 0..MaxStaged]

TypeOK ==
  /\ disk \in State /\ mem \in State
  /\ pc \in {"idle", "post", "ready", "reserved", "admitted"}
  /\ cur \in (Shown \X {"auto", "manual"}) \cup {None}
  /\ expired \subseteq Invites /\ void \subseteq Invites
  /\ verified \subseteq Devices
  /\ staged \in Seq(Commit) /\ Len(staged) <= MaxStaged
  /\ published \subseteq 1..MaxStaged /\ members \subseteq Devices

NewState ==
  [auto |-> TRUE, known |-> {},
   invites |-> [i \in Invites |-> [room |-> None, req |-> None, dev |-> None]],
   admitted |-> [d \in Devices |-> None], committed |-> {}, pending |-> 0]

Init ==
  /\ disk = NewState /\ mem = NewState
  /\ pc = "idle" /\ cur = None
  /\ expired = {} /\ staged = <<>>
  /\ published = {} /\ members = {} /\ void = {} /\ verified = {}

-----------------------------------------------------------------------------
Finish(st) ==
  /\ disk' = st /\ mem' = st
  /\ pc' = "idle" /\ cur' = None

Saved(st, phase) ==
  /\ disk' = st /\ mem' = st
  /\ pc' = phase

(* VerifyAdmission: the proof binds the device to the invitation. *)
Proves(i, d) == i # None /\ d \in Holders[i]

Live(st, i) == i \in st.known /\ i \notin expired

-----------------------------------------------------------------------------
(***************************************************************************)
(* ensureCrypto: a staged commit is posted again before anything else.     *)
(***************************************************************************)
Begin ==
  /\ pc = "idle"
  /\ mem' = disk
  /\ pc' = IF disk.pending # 0 THEN "post" ELSE "ready"
  /\ UNCHANGED <<disk, cur, expired, staged, server, void, verified>>

Applied(c) == IF c.kind = "add" THEN members \cup {c.dev} ELSE members \ {c.dev}

(* Mutant of Publish: a completed removal forgets the admission. *)
PublishForgets(answered) ==
  LET n == mem.pending
      kept == IF staged[n].kind = "remove" THEN mem.committed \ {staged[n].dev}
              ELSE mem.committed IN
  /\ pc = "post"
  /\ published' = published \cup {n}
  /\ members' = IF n \in published THEN members ELSE Applied(staged[n])
  /\ Finish(IF answered THEN [mem EXCEPT !.pending = 0, !.committed = kept]
            ELSE mem)
  /\ UNCHANGED <<expired, staged, void, verified>>

(* The server takes the commit, once; its answer arrives or is lost. *)
Publish(answered) ==
  LET n == mem.pending IN
  /\ pc = "post"
  /\ published' = published \cup {n}
  /\ members' = IF n \in published THEN members ELSE Applied(staged[n])
  /\ IF answered
     THEN /\ mem' = [mem EXCEPT !.pending = 0]
          /\ disk' = [disk EXCEPT !.pending = 0]
          /\ pc' = IF cur = None THEN "ready" ELSE "idle"
          /\ cur' = None
     ELSE Finish(mem)
  /\ UNCHANGED <<expired, staged, void, verified>>

(* The post is lost: the staged commit is kept. *)
PostLost ==
  /\ pc = "post"
  /\ Finish(mem)
  /\ UNCHANGED <<expired, staged, server, void, verified>>

(* A definite rejection, which a published commit never gets. *)
PostRefused ==
  /\ pc = "post" /\ mem.pending \notin published
  /\ Finish([mem EXCEPT !.pending = 0])
  /\ UNCHANGED <<expired, staged, server, void, verified>>

-----------------------------------------------------------------------------
(***************************************************************************)
(* issueCryptoInvite and encryptionAdmissionPolicy.                        *)
(***************************************************************************)
Issue(i, room) ==
  /\ pc = "ready" /\ mem.auto
  /\ i \notin mem.known \cup void \cup expired
  /\ Finish([mem EXCEPT
       !.known = (@ \ expired) \cup {i},
       !.invites[i] = [room |-> room, req |-> None, dev |-> None]])
  /\ UNCHANGED <<expired, staged, server, void, verified>>

(* Mutant of Policy: disabling leaves the outstanding invitations. *)
PolicyKeepsInvites(automatic) ==
  /\ pc = "ready"
  /\ Finish([mem EXCEPT !.auto = automatic])
  /\ void' = IF automatic THEN void ELSE void \cup mem.known
  /\ UNCHANGED <<expired, staged, server, verified>>

Policy(automatic) ==
  /\ pc = "ready"
  /\ Finish([mem EXCEPT !.auto = automatic,
                        !.known = IF automatic THEN @ ELSE {}])
  /\ void' = IF automatic THEN void ELSE void \cup mem.known
  /\ UNCHANGED <<expired, staged, server, verified>>

Expire(i) ==
  /\ i \notin expired
  /\ expired' = expired \cup {i}
  /\ UNCHANGED <<disk, mem, pc, cur, staged, server, void, verified>>

-----------------------------------------------------------------------------
(***************************************************************************)
(* encryptionManageMode for a request.                                     *)
(***************************************************************************)
(* What an earlier run of the same request has settled already. *)
Settled(st, req) == st.admitted[req.dev] = req.id /\ req.dev \in st.committed

RoomOK(st, req) ==
  req.invite \in st.known /\ st.invites[req.invite].room # None =>
    st.invites[req.invite].room = req.room

(* Mutant of Reservable: the invitation's earlier reservation is ignored. *)
ReservableAgain(st, req) ==
  /\ st.auto /\ req.dev \notin st.committed
  /\ st.admitted[req.dev] \in {None, req.id}
  /\ Live(st, req.invite) /\ Proves(req.invite, req.dev)

(* reserveAdmission: "Uncertain attempts can retry only the same request    *)
(* and device, even if the relay lies about status."                        *)
Reservable(st, req) ==
  LET i == st.invites[req.invite] IN
  /\ st.auto /\ req.dev \notin st.committed
  /\ st.admitted[req.dev] \in {None, req.id}
  /\ Live(st, req.invite) /\ Proves(req.invite, req.dev)
  /\ i.req = None \/ (i.req = req.id /\ i.dev = req.dev)

ReservedFor(st, req) ==
  [st EXCEPT !.invites[req.invite].req = req.id,
             !.invites[req.invite].dev = req.dev]

AutoAdmit(req) ==
  LET bound == req.invite \in mem.known /\ mem.invites[req.invite].room # None
      may == bound /\ RoomOK(mem, req) /\ Reservable(mem, req) IN
  /\ pc = "ready"
  /\ \/ /\ ~ Settled(mem, req) /\ may
        /\ Saved(ReservedFor(mem, req), "reserved")
        /\ cur' = <<req, "auto">>
     \/ /\ Settled(mem, req) \/ ~ may
        /\ Finish(mem)
  /\ UNCHANGED <<expired, staged, server, void, verified>>

NoteAdmitted ==
  /\ pc = "reserved"
  /\ Saved([mem EXCEPT !.admitted[cur[1].dev] = cur[1].id], "admitted")
  /\ UNCHANGED <<cur, expired, staged, server, void, verified>>

(* The owner verified the device's fingerprint.  An invitation the device   *)
(* proves it holds is used up by it, whoever reserved it before.            *)
ManualAdmit(req) ==
  LET known == req.invite \in mem.known /\ Proves(req.invite, req.dev) IN
  /\ pc = "ready"
  /\ \/ /\ RoomOK(mem, req)
        /\ verified' = verified \cup {req.dev}
        /\ Saved([(IF known THEN ReservedFor(mem, req) ELSE mem)
                    EXCEPT !.admitted[req.dev] = req.id], "admitted")
        /\ cur' = <<req, "manual">>
     \/ ~ RoomOK(mem, req) /\ Finish(mem) /\ UNCHANGED verified
  /\ UNCHANGED <<expired, staged, server, void>>

(* changeMLSRoster: the commit, CommittedAdmissions and PendingRoster are   *)
(* saved before the post.  The MLS helper adds no device twice.             *)
Staged(c) ==
  /\ Len(staged) < MaxStaged
  /\ staged' = Append(staged, c)
  /\ Saved([mem EXCEPT !.pending = Len(staged) + 1,
                       !.committed = IF c.kind = "add" THEN @ \cup {c.dev} ELSE @],
           "post")

(* The invitation the admission of a request used up. *)
Used(req) ==
  IF req.invite \in mem.known /\ mem.invites[req.invite].dev = req.dev
  THEN req.invite ELSE None

(* Mutant of Stage: the commit is saved only when the operation ends. *)
StageUnsaved ==
  LET req == cur[1] IN
  /\ pc = "admitted" /\ req.dev \notin members
  /\ Len(staged) < MaxStaged
  /\ staged' = Append(staged, [kind |-> "add", dev |-> req.dev, by |-> cur[2],
             verified |-> req.dev \in verified,
                               invite |-> Used(req)])
  /\ mem' = [mem EXCEPT !.pending = Len(staged) + 1,
                        !.committed = @ \cup {req.dev}]
  /\ pc' = "post"
  /\ UNCHANGED <<disk, cur, expired, server, void, verified>>

Stage ==
  LET req == cur[1] IN
  /\ pc = "admitted" /\ req.dev \notin members
  /\ Staged([kind |-> "add", dev |-> req.dev, by |-> cur[2],
             verified |-> req.dev \in verified,
             invite |-> Used(req)])
  /\ UNCHANGED <<cur, expired, server, void, verified>>

StageFails ==
  /\ pc = "admitted"
  /\ Finish(mem)
  /\ UNCHANGED <<expired, staged, server, void, verified>>

Revoke(d) ==
  /\ pc = "ready" /\ d \in members
  /\ Staged([kind |-> "remove", dev |-> d, by |-> "manual",
             verified |-> FALSE, invite |-> None])
  /\ UNCHANGED <<cur, expired, server, void, verified>>

Crash ==
  /\ pc # "idle"
  /\ mem' = disk /\ pc' = "idle" /\ cur' = None
  /\ UNCHANGED <<disk, expired, staged, server, void, verified>>

-----------------------------------------------------------------------------
Next ==
  \/ Begin \/ \E answered \in BOOLEAN : Publish(answered)
  \/ PostLost \/ PostRefused
  \/ \E i \in Invites :
       \/ \E room \in Rooms \cup {None} : Issue(i, room)
       \/ Expire(i)
  \/ \E automatic \in BOOLEAN : Policy(automatic)
  \/ \E req \in Shown : AutoAdmit(req) \/ ManualAdmit(req)
  \/ NoteAdmitted \/ Stage \/ StageFails
  \/ \E d \in Devices : Revoke(d)
  \/ Crash

Spec == Init /\ [][Next]_vars

-----------------------------------------------------------------------------
(***************************************************************************)
(* Properties.                                                             *)
(***************************************************************************)
Adds == {n \in 1..Len(staged) : staged[n].kind = "add"}
AutoAdds == {n \in Adds : staged[n].by = "auto"}

(* "Automatic invitations authorize one device proving possession of a      *)
(* client-held secret" (encryption_admission_policy): once an invitation    *)
(* has been used, it never automatically admits another device that the     *)
(* owner has not verified, whatever the relay shows and wherever the        *)
(* process died (reserveAdmission).                                         *)
OneDevicePerInvite ==
  \A n \in AutoAdds, m \in Adds :
    m < n /\ ~ staged[n].verified /\ staged[m].invite = staged[n].invite =>
      staged[m].dev = staged[n].dev

(* A device that was admitted before, and perhaps revoked since, is never   *)
(* admitted again without the owner (CommittedAdmissions).                  *)
NoAutomaticReadmission ==
  \A n \in AutoAdds, m \in Adds : m < n => staged[m].dev # staged[n].dev

(* "Disabling invalidates outstanding automatic capabilities locally"       *)
(* (encryptionAdmissionPolicy): enabling again does not bring them back.    *)
DisabledInvitesStayVoid ==
  [][Len(staged') > Len(staged) /\ staged'[Len(staged')].by = "auto" =>
       staged'[Len(staged')].invite \notin void]_vars

(* Every device of the published roster is in the creator's saved record of *)
(* admissions, so no crash makes a member look like a newcomer.             *)
MembersCommitted == members \subseteq disk.committed

-----------------------------------------------------------------------------
(***************************************************************************)
(* The inductive invariant of the proofs.                                  *)
(***************************************************************************)
(* The request under way; an automatic one holds the reservation of its     *)
(* invitation and is of a device that was never admitted.                   *)
RequestReserved ==
  /\ pc \in {"reserved", "admitted"} => cur \in Shown \X {"auto", "manual"}
  /\ pc = "reserved" => cur[2] = "auto"
  /\ pc \in {"reserved", "admitted"} /\ cur[2] = "auto" =>
       /\ cur[1].invite \in disk.known
       /\ disk.invites[cur[1].invite].dev = cur[1].dev
       /\ cur[1].dev \notin disk.committed

CommitsRecorded ==
  /\ disk.pending <= Len(staged)
  /\ pc = "post" => disk.pending # 0
  /\ \A n \in Adds : staged[n].dev \in disk.committed

(* An invitation that was used is reserved for the device that used it, or   *)
(* for one the owner has verified, as long as it is known; once dropped it   *)
(* is disabled or expired.                                                   *)
InvitesSpent ==
  /\ disk.known \cap void = {}
  /\ \A i \in Invites : disk.invites[i].req = None <=> disk.invites[i].dev = None
  /\ \A n \in Adds : LET i == staged[n].invite IN
       i # None =>
         /\ i \in disk.known \cup void \cup expired
         /\ i \in disk.known => disk.invites[i].dev \in {staged[n].dev} \cup verified

(* Everything above, what is proved, and that each operation saves before    *)
(* the next step, so that a crash loses nothing.                             *)
IInv ==
  /\ TypeOK
  /\ mem = disk
  /\ RequestReserved
  /\ CommitsRecorded
  /\ InvitesSpent
  /\ MembersCommitted
  /\ NoAutomaticReadmission
  /\ OneDevicePerInvite
=============================================================================
