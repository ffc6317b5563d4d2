-------------------------- MODULE AdmissionProofs --------------------------
(***************************************************************************)
(* Machine-checked proofs about the admission of devices, for every set of *)
(* devices, requests, invitations and rooms, every distribution of the     *)
(* invitations' secrets and every number of commits.                       *)
(***************************************************************************)
EXTENDS Admission, TLAPS

-----------------------------------------------------------------------------
(***************************************************************************)
(* Steps that change neither the saved state nor the commits.              *)
(***************************************************************************)

LEMMA TypeFacts ==
  ASSUME IInv
  PROVE  /\ disk \in State /\ mem = disk
         /\ staged \in Seq(Commit) /\ Len(staged) \in Nat
         /\ \A n \in 1..Len(staged) : staged[n] \in Commit
         /\ disk.pending \in 0..Len(staged)
BY AdmissionAssumption DEF IInv, TypeOK, State, CommitsRecorded

(* Whatever ends or begins an operation, and the passing of time.           *)
LEMMA QuietInv ==
  ASSUME IInv,
         disk' = disk, mem' = disk,
         \/ pc' \in {"idle", "ready"} /\ cur' \in {cur, None}
         \/ pc' = pc /\ cur' = cur
         \/ pc' = "post" /\ disk.pending # 0 /\ cur' = cur,
         expired \subseteq expired', expired' \subseteq Invites,
         UNCHANGED <<staged, published, members, void, verified>>
  PROVE  IInv'
<1> USE AdmissionAssumption
<1>1. TypeOK' BY DEF IInv, TypeOK
<1>2. RequestReserved' BY DEF IInv, RequestReserved
<1>3. CommitsRecorded' BY DEF IInv, CommitsRecorded, Adds
<1>4. InvitesSpent' BY DEF IInv, InvitesSpent, Adds
<1>5. (MembersCommitted /\ NoAutomaticReadmission /\ OneDevicePerInvite)'
  BY DEF IInv, MembersCommitted, NoAutomaticReadmission, OneDevicePerInvite,
         AutoAdds, Adds
<1> QED BY <1>1, <1>2, <1>3, <1>4, <1>5 DEF IInv

LEMMA InitInv == Init => IInv
<1> SUFFICES ASSUME Init PROVE IInv OBVIOUS
<1> USE AdmissionAssumption
<1>1. NewState \in State BY DEF NewState, State, Invite
<1>2. TypeOK BY <1>1 DEF Init, TypeOK
<1>3. Adds = {} BY DEF Init, Adds
<1>4. RequestReserved BY DEF Init, RequestReserved
<1>5. CommitsRecorded BY <1>3 DEF Init, CommitsRecorded, NewState
<1>6. InvitesSpent BY <1>3 DEF Init, InvitesSpent, NewState
<1>7. MembersCommitted /\ NoAutomaticReadmission /\ OneDevicePerInvite
  BY <1>3 DEF Init, MembersCommitted, NoAutomaticReadmission,
              OneDevicePerInvite, AutoAdds
<1> QED BY <1>2, <1>4, <1>5, <1>6, <1>7 DEF Init, IInv

LEMMA QuietSteps ==
  ASSUME IInv,
         \/ Begin \/ PostLost \/ StageFails \/ Crash
         \/ \E i \in Invites : Expire(i)
         \/ UNCHANGED vars
  PROVE  IInv'
<1> USE TypeFacts
<1>1. CASE Begin BY <1>1, QuietInv DEF Begin, server, IInv, TypeOK
<1>2. CASE PostLost BY <1>2, QuietInv DEF PostLost, Finish, server, IInv, TypeOK
<1>3. CASE StageFails BY <1>3, QuietInv DEF StageFails, Finish, server, IInv, TypeOK
<1>4. CASE Crash BY <1>4, QuietInv DEF Crash, server, IInv, TypeOK
<1>5. ASSUME NEW i \in Invites, Expire(i) PROVE IInv'
  BY <1>5, QuietInv DEF Expire, server, IInv, TypeOK
<1>6. CASE UNCHANGED vars BY <1>6, QuietInv DEF vars, IInv, TypeOK
<1> QED BY <1>1, <1>2, <1>3, <1>4, <1>5, <1>6

-----------------------------------------------------------------------------
(***************************************************************************)
(* Posting: only pending changes, and the roster that it names.            *)
(***************************************************************************)

LEMMA PendingInv ==
  ASSUME IInv,
         disk' \in {disk, [disk EXCEPT !.pending = 0]}, mem' = disk',
         pc' \in {"idle", "ready"}, cur' = None,
         published' \subseteq published \cup {disk.pending},
         disk.pending # 0,
         \/ members' = members
         \/ members' = Applied(staged[disk.pending]),
         UNCHANGED <<staged, expired, void, verified>>
  PROVE  IInv'
<1> USE AdmissionAssumption, TypeFacts
<1>1. /\ disk' \in State /\ disk'.pending \in 0..Len(staged)
      /\ disk'.known = disk.known /\ disk'.invites = disk.invites
      /\ disk'.committed = disk.committed
  BY DEF State
<1>2. staged[disk.pending] \in Commit OBVIOUS
<1>3. members' \subseteq Devices
  BY <1>2 DEF Applied, IInv, TypeOK, Commit
<1>4. published' \subseteq 1..MaxStaged BY DEF IInv, TypeOK
<1>5. TypeOK' BY <1>1, <1>3, <1>4 DEF IInv, TypeOK
<1>6. RequestReserved' BY DEF RequestReserved
<1>7. CommitsRecorded' BY <1>1 DEF IInv, CommitsRecorded, Adds
<1>8. InvitesSpent' BY <1>1 DEF IInv, InvitesSpent, Adds
<1>9. MembersCommitted'
  BY <1>1, <1>2 DEF IInv, CommitsRecorded, Adds, Applied, MembersCommitted
<1>10. (NoAutomaticReadmission /\ OneDevicePerInvite)'
  BY DEF IInv, NoAutomaticReadmission, OneDevicePerInvite, AutoAdds, Adds
<1> QED BY <1>5, <1>6, <1>7, <1>8, <1>9, <1>10 DEF IInv

LEMMA PostSteps ==
  ASSUME IInv, PostRefused \/ \E answered \in BOOLEAN : Publish(answered)
  PROVE  IInv'
<1> USE TypeFacts
<1>1. pc = "post" BY DEF PostRefused, Publish
<1>2. disk.pending # 0 BY <1>1 DEF IInv, CommitsRecorded
<1>3. CASE PostRefused
  BY <1>2, <1>3, PendingInv DEF PostRefused, Finish, server
<1>4. ASSUME NEW answered \in BOOLEAN, Publish(answered) PROVE IInv'
  <2>1. /\ disk' \in {disk, [disk EXCEPT !.pending = 0]} /\ mem' = disk'
        /\ pc' \in {"idle", "ready"} /\ cur' = None
    BY <1>4 DEF Publish, Finish
  <2>2. /\ published' \subseteq published \cup {disk.pending}
        /\ members' \in {members, Applied(staged[disk.pending])}
        /\ UNCHANGED <<staged, expired, void, verified>>
    BY <1>4 DEF Publish
  <2> QED BY <1>2, <2>1, <2>2, PendingInv
<1> QED BY <1>3, <1>4

-----------------------------------------------------------------------------
(***************************************************************************)
(* Invitations: issued, disabled, reserved.                                *)
(***************************************************************************)

LEMMA IssueInv ==
  ASSUME IInv, NEW i \in Invites, NEW room \in Rooms \cup {None}, Issue(i, room)
  PROVE  IInv'
<1> USE AdmissionAssumption, TypeFacts
<1> DEFINE new == [room |-> room, req |-> None, dev |-> None]
<1>1. new \in Invite BY DEF Invite
<1>2. /\ i \notin disk.known \cup void \cup expired
      /\ disk' = [disk EXCEPT !.known = (@ \ expired) \cup {i}, !.invites[i] = new]
      /\ mem' = disk' /\ pc' = "idle" /\ cur' = None
      /\ UNCHANGED <<staged, published, members, expired, void, verified>>
  BY DEF Issue, Finish, server
<1>3. /\ disk' \in State
      /\ disk'.pending = disk.pending /\ disk'.committed = disk.committed
      /\ disk'.known = (disk.known \ expired) \cup {i}
      /\ disk'.invites = [disk.invites EXCEPT ![i] = new]
  BY <1>1, <1>2 DEF State
<1>4. TypeOK' BY <1>2, <1>3 DEF IInv, TypeOK
<1>5. RequestReserved' BY <1>2 DEF RequestReserved
<1>6. CommitsRecorded' BY <1>2, <1>3 DEF IInv, CommitsRecorded, Adds
<1>7. InvitesSpent'
  BY <1>2, <1>3 DEF IInv, InvitesSpent, Adds, State
<1>8. (MembersCommitted /\ NoAutomaticReadmission /\ OneDevicePerInvite)'
  BY <1>2, <1>3 DEF IInv, MembersCommitted, NoAutomaticReadmission,
                    OneDevicePerInvite, AutoAdds, Adds
<1> QED BY <1>2, <1>4, <1>5, <1>6, <1>7, <1>8 DEF IInv

LEMMA PolicyInv ==
  ASSUME IInv, NEW automatic \in BOOLEAN, Policy(automatic)
  PROVE  IInv'
<1> USE AdmissionAssumption, TypeFacts
<1>1. /\ disk' = [disk EXCEPT !.auto = automatic,
                              !.known = IF automatic THEN @ ELSE {}]
      /\ mem' = disk' /\ pc' = "idle" /\ cur' = None
      /\ void' = IF automatic THEN void ELSE void \cup disk.known
      /\ UNCHANGED <<staged, published, members, expired, verified>>
  BY DEF Policy, Finish, server
<1>2. /\ disk' \in State
      /\ disk'.pending = disk.pending /\ disk'.committed = disk.committed
      /\ disk'.known = (IF automatic THEN disk.known ELSE {})
      /\ disk'.invites = disk.invites
  BY <1>1 DEF State
<1>3. TypeOK' BY <1>1, <1>2 DEF IInv, TypeOK, State
<1>4. RequestReserved' BY <1>1 DEF RequestReserved
<1>5. CommitsRecorded' BY <1>1, <1>2 DEF IInv, CommitsRecorded, Adds
<1>6. InvitesSpent' BY <1>1, <1>2 DEF IInv, InvitesSpent, Adds
<1>7. (MembersCommitted /\ NoAutomaticReadmission /\ OneDevicePerInvite)'
  BY <1>1, <1>2 DEF IInv, MembersCommitted, NoAutomaticReadmission,
                    OneDevicePerInvite, AutoAdds, Adds
<1> QED BY <1>1, <1>3, <1>4, <1>5, <1>6, <1>7 DEF IInv

LEMMA ReservedFacts ==
  ASSUME IInv, NEW req \in Shown, req.invite \in disk.known
  PROVE  /\ ReservedFor(disk, req) \in State
         /\ ReservedFor(disk, req).known = disk.known
         /\ ReservedFor(disk, req).admitted = disk.admitted
         /\ ReservedFor(disk, req).committed = disk.committed
         /\ ReservedFor(disk, req).pending = disk.pending
         /\ ReservedFor(disk, req).invites[req.invite].req = req.id
         /\ ReservedFor(disk, req).invites[req.invite].dev = req.dev
         /\ \A i \in Invites : i # req.invite =>
              ReservedFor(disk, req).invites[i] = disk.invites[i]
<1> DEFINE i == req.invite
           new == [disk.invites[i] EXCEPT !.req = req.id, !.dev = req.dev]
<1>1. disk \in State BY TypeFacts
<1>2. i \in Invites /\ req.dev \in Devices /\ req.id \in Requests
  BY <1>1 DEF Shown, State
<1>3. disk.invites \in [Invites -> Invite] BY <1>1 DEF State
<1>4. new \in Invite /\ new.req = req.id /\ new.dev = req.dev BY <1>2, <1>3 DEF Invite
<1>5. ReservedFor(disk, req) = [disk EXCEPT !.invites = [disk.invites EXCEPT ![i] = new]]
  BY <1>1, <1>2, <1>3 DEF ReservedFor, State, Invite
<1> HIDE DEF new, i
<1>6. [disk.invites EXCEPT ![i] = new] \in [Invites -> Invite] BY <1>3, <1>4
<1> QED BY <1>1, <1>2, <1>3, <1>4, <1>5, <1>6 DEF State, i

(* An invitation that nobody had reserved has not been used.                *)
LEMMA UnreservedUnused ==
  ASSUME IInv, NEW i \in Invites, i \in disk.known, disk.invites[i].req = None,
         NEW n \in Adds
  PROVE  staged[n].invite # i
<1>1. staged[n].dev # None /\ None \notin verified
  BY AdmissionAssumption, TypeFacts DEF Adds, Commit, IInv, TypeOK
<1> QED BY <1>1, AdmissionAssumption DEF IInv, InvitesSpent

LEMMA AutoInv ==
  ASSUME IInv, NEW req \in Shown, AutoAdmit(req)
  PROVE  IInv'
<1> USE AdmissionAssumption, TypeFacts
<1> DEFINE st == ReservedFor(disk, req)
<1>1. CASE Finish(mem)
  BY <1>1, QuietInv DEF AutoAdmit, Finish, server, IInv, TypeOK
<1>2. CASE ~ Finish(mem)
  <2>1. /\ req.invite \in disk.known /\ Reservable(disk, req)
        /\ disk' = st /\ mem' = st /\ pc' = "reserved" /\ cur' = <<req, "auto">>
        /\ UNCHANGED <<staged, published, members, expired, void, verified>>
    BY <1>2 DEF AutoAdmit, Saved, server
  <2>2. req.invite \in Invites /\ req.dev \in Devices /\ req.id \in Requests
    BY <2>1 DEF Shown, State
  <2>3. /\ st \in State
        /\ st.known = disk.known
        /\ st.committed = disk.committed /\ st.pending = disk.pending
        /\ st.invites[req.invite].req = req.id
        /\ st.invites[req.invite].dev = req.dev
        /\ \A i \in Invites : i # req.invite => st.invites[i] = disk.invites[i]
    BY <2>1, ReservedFacts
  <2> HIDE DEF st
  <2>4. TypeOK' BY <2>1, <2>3 DEF IInv, TypeOK
  <2>5. RequestReserved' BY <2>1, <2>3 DEF RequestReserved, Reservable
  <2>6. CommitsRecorded' BY <2>1, <2>3 DEF IInv, CommitsRecorded, Adds
  <2>7. InvitesSpent'
    <3>1. \A n \in Adds : staged[n].invite = req.invite =>
            /\ disk.invites[req.invite].dev = req.dev
            /\ req.dev \in {staged[n].dev} \cup verified
      BY <2>1, <2>2, UnreservedUnused DEF Reservable, IInv, InvitesSpent
    <3>2. \A i \in Invites : st.invites[i].req = None <=> st.invites[i].dev = None
      BY <2>2, <2>3 DEF IInv, InvitesSpent
    <3>3. ASSUME NEW n \in Adds, staged[n].invite # None
          PROVE  /\ staged[n].invite \in disk.known \cup void \cup expired
                 /\ staged[n].invite \in disk.known =>
                      st.invites[staged[n].invite].dev \in {staged[n].dev} \cup verified
      <4>1. staged[n].invite \in Invites BY <3>3 DEF Adds, Commit
      <4>2. CASE staged[n].invite = req.invite BY <2>1, <2>3, <3>1, <4>2
      <4>3. CASE staged[n].invite # req.invite
        BY <2>3, <3>3, <4>1, <4>3 DEF IInv, InvitesSpent
      <4> QED BY <4>2, <4>3
    <3> QED BY <2>1, <2>3, <3>2, <3>3 DEF IInv, InvitesSpent, Adds
  <2>8. (MembersCommitted /\ NoAutomaticReadmission /\ OneDevicePerInvite)'
    BY <2>1, <2>3 DEF IInv, MembersCommitted, NoAutomaticReadmission,
                      OneDevicePerInvite, AutoAdds, Adds
  <2> QED BY <2>1, <2>4, <2>5, <2>6, <2>7, <2>8 DEF IInv
<1> QED BY <1>1, <1>2

-----------------------------------------------------------------------------
(***************************************************************************)
(* The admission is noted.                                                 *)
(***************************************************************************)

LEMMA NoteAdmittedInv ==
  ASSUME IInv, NoteAdmitted
  PROVE  IInv'
<1> USE AdmissionAssumption, TypeFacts
<1> DEFINE req == cur[1]
<1>1. /\ pc = "reserved" /\ pc' = "admitted" /\ mem' = disk'
      /\ disk' = [disk EXCEPT !.admitted[req.dev] = req.id]
      /\ UNCHANGED <<cur, expired, staged, published, members, void, verified>>
  BY DEF NoteAdmitted, Saved, server
<1>2. cur \in Shown \X {"auto", "manual"} /\ cur[2] = "auto" /\ req \in Shown
  BY <1>1 DEF IInv, RequestReserved
<1>3. req.dev \in Devices /\ req.id \in Requests BY <1>2 DEF Shown
<1>4. [disk.admitted EXCEPT ![req.dev] = req.id] \in [Devices -> Requests \cup {None}]
  BY <1>3 DEF State
<1>5. /\ disk' \in State
      /\ disk'.known = disk.known /\ disk'.invites = disk.invites
      /\ disk'.committed = disk.committed /\ disk'.pending = disk.pending
  BY <1>1, <1>4 DEF State
<1> HIDE DEF req
<1>6. TypeOK' BY <1>1, <1>5 DEF IInv, TypeOK
<1>7. RequestReserved' BY <1>1, <1>2, <1>5 DEF IInv, RequestReserved
<1>8. CommitsRecorded' BY <1>1, <1>5 DEF IInv, CommitsRecorded, Adds
<1>9. InvitesSpent' BY <1>1, <1>5 DEF IInv, InvitesSpent, Adds
<1>10. (MembersCommitted /\ NoAutomaticReadmission /\ OneDevicePerInvite)'
  BY <1>1, <1>5 DEF IInv, MembersCommitted, NoAutomaticReadmission,
                    OneDevicePerInvite, AutoAdds, Adds
<1> QED BY <1>1, <1>6, <1>7, <1>8, <1>9, <1>10 DEF IInv

LEMMA ManualInv ==
  ASSUME IInv, NEW req \in Shown, ManualAdmit(req)
  PROVE  IInv'
<1> USE AdmissionAssumption, TypeFacts
<1>1. CASE Finish(mem) /\ UNCHANGED verified
  BY <1>1, QuietInv DEF ManualAdmit, Finish, server, IInv, TypeOK
<1>2. CASE ~ (Finish(mem) /\ UNCHANGED verified)
  <2> DEFINE known == req.invite \in disk.known /\ Proves(req.invite, req.dev)
             st == IF known THEN ReservedFor(disk, req) ELSE disk
  <2>1. /\ verified' = verified \cup {req.dev}
        /\ disk' = [st EXCEPT !.admitted[req.dev] = req.id]
        /\ mem' = disk' /\ pc' = "admitted" /\ cur' = <<req, "manual">>
        /\ UNCHANGED <<expired, staged, published, members, void>>
    BY <1>2 DEF ManualAdmit, Saved, server
  <2>2. req.dev \in Devices /\ req.id \in Requests BY DEF Shown
  <2>3. /\ st \in State
        /\ st.known = disk.known /\ st.admitted = disk.admitted
        /\ st.committed = disk.committed /\ st.pending = disk.pending
        /\ \/ st.invites = disk.invites
           \/ /\ req.invite \in Invites
              /\ st.invites[req.invite].req = req.id
              /\ st.invites[req.invite].dev = req.dev
              /\ \A i \in Invites : i # req.invite => st.invites[i] = disk.invites[i]
    <3>1. CASE known
      <4>1. req.invite \in Invites BY <3>1 DEF State
      <4> QED BY <3>1, <4>1, ReservedFacts
    <3>2. CASE ~ known BY <3>2
    <3> QED BY <3>1, <3>2
  <2> HIDE DEF st, known
  <2>4. [st.admitted EXCEPT ![req.dev] = req.id] \in [Devices -> Requests \cup {None}]
    BY <2>2, <2>3 DEF State
  <2>5. /\ disk' \in State
        /\ disk'.known = disk.known /\ disk'.invites = st.invites
        /\ disk'.committed = disk.committed /\ disk'.pending = disk.pending
    BY <2>1, <2>3, <2>4 DEF State
  <2>6. TypeOK' BY <2>1, <2>2, <2>5 DEF IInv, TypeOK
  <2>7. RequestReserved' BY <2>1 DEF RequestReserved
  <2>8. CommitsRecorded' BY <2>1, <2>5 DEF IInv, CommitsRecorded, Adds
  <2>9. InvitesSpent'
    <3>1. \A i \in Invites : st.invites[i].req = None <=> st.invites[i].dev = None
      BY <2>2, <2>3 DEF IInv, InvitesSpent
    <3>2. ASSUME NEW n \in Adds, staged[n].invite # None
          PROVE  /\ staged[n].invite \in disk.known \cup void \cup expired
                 /\ staged[n].invite \in disk.known =>
                      st.invites[staged[n].invite].dev \in {staged[n].dev} \cup verified'
      <4>1. staged[n].invite \in Invites BY <3>2 DEF Adds, Commit
      <4> QED BY <2>1, <2>3, <3>2, <4>1 DEF IInv, InvitesSpent
    <3> QED BY <2>1, <2>5, <3>1, <3>2 DEF IInv, InvitesSpent, Adds
  <2>10. (MembersCommitted /\ NoAutomaticReadmission /\ OneDevicePerInvite)'
    BY <2>1, <2>5 DEF IInv, MembersCommitted, NoAutomaticReadmission,
                      OneDevicePerInvite, AutoAdds, Adds
  <2> QED BY <2>1, <2>6, <2>7, <2>8, <2>9, <2>10 DEF IInv
<1> QED BY <1>1, <1>2

-----------------------------------------------------------------------------
(***************************************************************************)
(* A commit is staged.                                                     *)
(***************************************************************************)

LEMMA StagedFacts ==
  ASSUME IInv, NEW c \in Commit, Staged(c)
  PROVE  /\ disk' \in State /\ mem' = disk' /\ pc' = "post"
         /\ disk'.known = disk.known /\ disk'.invites = disk.invites
         /\ disk'.committed = IF c.kind = "add" THEN disk.committed \cup {c.dev}
                              ELSE disk.committed
         /\ disk'.pending = Len(staged')
         /\ staged' \in Seq(Commit)
         /\ Len(staged') = Len(staged) + 1 /\ Len(staged') <= MaxStaged
         /\ staged'[Len(staged')] = c
         /\ \A n \in 1..Len(staged) : staged'[n] = staged[n]
<1> USE AdmissionAssumption, TypeFacts
<1>1. /\ Len(staged) < MaxStaged /\ staged' = Append(staged, c)
      /\ mem' = disk' /\ pc' = "post"
      /\ disk' = [disk EXCEPT !.pending = Len(staged) + 1,
                   !.committed = IF c.kind = "add" THEN @ \cup {c.dev} ELSE @]
  BY DEF Staged, Saved
<1>2. /\ staged' \in Seq(Commit) /\ Len(staged') = Len(staged) + 1
      /\ staged'[Len(staged')] = c
      /\ \A n \in 1..Len(staged) : staged'[n] = staged[n]
  BY <1>1
<1>3. Len(staged) + 1 \in 0..MaxStaged BY <1>1
<1>4. c.dev \in Devices BY DEF Commit
<1> DEFINE com == IF c.kind = "add" THEN disk.committed \cup {c.dev}
                  ELSE disk.committed
<1>5. com \in SUBSET Devices BY <1>4 DEF State
<1>6. disk' = [disk EXCEPT !.pending = Len(staged) + 1, !.committed = com]
  BY <1>1 DEF State
<1> HIDE DEF com
<1>7. /\ disk' \in State
      /\ disk'.known = disk.known /\ disk'.invites = disk.invites
      /\ disk'.committed = com /\ disk'.pending = Len(staged) + 1
  BY <1>3, <1>5, <1>6 DEF State
<1>8. Len(staged') <= MaxStaged BY <1>1, <1>2
<1> QED BY <1>1, <1>2, <1>7, <1>8 DEF com

(* What a staged commit must satisfy: an automatic admission is of a device *)
(* that was never admitted, and an admission that names an invitation has    *)
(* its reservation.                                                         *)
LEMMA StagedInv ==
  ASSUME IInv, NEW c \in Commit, Staged(c),
         c.by = "auto" => c.dev \notin disk.committed,
         c.kind = "add" /\ c.invite # None =>
           c.invite \in disk.known /\ disk.invites[c.invite].dev = c.dev,
         c.by = "auto" => c.invite # None,
         c.by = "auto" => (c.verified <=> c.dev \in verified),
         UNCHANGED <<cur, expired, published, members, void, verified>>
  PROVE  IInv'
<1> USE AdmissionAssumption, TypeFacts
<1> DEFINE new == Len(staged')
<1>0. /\ disk' \in State /\ mem' = disk' /\ pc' = "post"
      /\ disk'.known = disk.known /\ disk'.invites = disk.invites
      /\ disk'.committed = IF c.kind = "add" THEN disk.committed \cup {c.dev}
                           ELSE disk.committed
      /\ disk'.pending = Len(staged')
      /\ staged' \in Seq(Commit)
      /\ Len(staged') = Len(staged) + 1 /\ Len(staged') <= MaxStaged
      /\ staged'[Len(staged')] = c
      /\ \A n \in 1..Len(staged) : staged'[n] = staged[n]
  BY StagedFacts
<1>1. Adds' \subseteq Adds \cup {new} /\ Adds \subseteq 1..Len(staged)
  BY <1>0 DEF Adds
<1>2. \A n \in Adds : n \in Adds' /\ staged'[n] = staged[n] /\ n < new /\ n \in Nat
  BY <1>0 DEF Adds
<1>3. new \in Adds' => c.kind = "add" BY <1>0 DEF Adds
<1>4. new \in Nat /\ \A n \in Adds' : n <= new BY <1>0, <1>1, <1>2
<1>5. TypeOK' BY <1>0 DEF IInv, TypeOK
<1>6. RequestReserved' BY <1>0 DEF RequestReserved
<1>7. CommitsRecorded'
  BY <1>0, <1>1, <1>2, <1>3 DEF IInv, CommitsRecorded
<1>8. InvitesSpent' BY <1>0, <1>1, <1>2, <1>3 DEF IInv, InvitesSpent
<1>9. MembersCommitted' BY <1>0 DEF IInv, MembersCommitted
<1>10. NoAutomaticReadmission'
  <2> SUFFICES ASSUME NEW n \in Adds', NEW m \in Adds', m < n,
                      staged'[n].by = "auto"
               PROVE  staged'[m].dev # staged'[n].dev
    BY DEF NoAutomaticReadmission, AutoAdds
  <2>1. m \in Adds BY <1>0, <1>1, <1>4
  <2>2. CASE n \in Adds
    BY <1>0, <1>2, <2>1, <2>2 DEF IInv, NoAutomaticReadmission, AutoAdds
  <2>3. CASE n = new
    BY <1>0, <1>2, <2>1, <2>3 DEF IInv, CommitsRecorded
  <2> QED BY <1>1, <2>2, <2>3
<1>11. OneDevicePerInvite'
  <2> SUFFICES ASSUME NEW n \in Adds', NEW m \in Adds', m < n,
                      staged'[n].by = "auto", ~ staged'[n].verified,
                      staged'[m].invite = staged'[n].invite
               PROVE  staged'[m].dev = staged'[n].dev
    BY DEF OneDevicePerInvite, AutoAdds
  <2>1. m \in Adds BY <1>0, <1>1, <1>4
  <2>2. CASE n \in Adds
    BY <1>0, <1>2, <2>1, <2>2 DEF IInv, OneDevicePerInvite, AutoAdds
  <2>3. CASE n = new
    <3>1. /\ staged[m].invite = c.invite /\ c.invite # None
          /\ c.invite \in disk.known /\ disk.invites[c.invite].dev = c.dev
          /\ c.dev \notin verified
      BY <1>0, <1>2, <1>3, <2>1, <2>3
    <3> QED BY <1>0, <1>2, <2>1, <2>3, <3>1 DEF IInv, InvitesSpent
  <2> QED BY <1>1, <2>2, <2>3
<1> QED BY <1>0, <1>5, <1>6, <1>7, <1>8, <1>9, <1>10, <1>11 DEF IInv

LEMMA StageInv ==
  ASSUME IInv, Stage
  PROVE  IInv'
<1> USE AdmissionAssumption, TypeFacts
<1> DEFINE req == cur[1]
           c == [kind |-> "add", dev |-> req.dev, by |-> cur[2],
                 verified |-> req.dev \in verified, invite |-> Used(req)]
<1>1. /\ pc = "admitted" /\ Staged(c)
      /\ UNCHANGED <<cur, expired, published, members, void, verified>>
  BY DEF Stage, server
<1>2. req \in Shown /\ cur[2] \in {"auto", "manual"}
  BY <1>1 DEF IInv, RequestReserved
<1>3. req.dev \in Devices /\ req.invite \in Invites \cup {None} BY <1>2 DEF Shown
<1>4. /\ Used(req) \in Invites \cup {None}
      /\ Used(req) # None =>
           Used(req) \in disk.known /\ disk.invites[Used(req)].dev = req.dev
  BY <1>3 DEF Used
<1>5. cur[2] = "auto" => req.dev \notin disk.committed /\ Used(req) # None
  <2> SUFFICES ASSUME cur[2] = "auto"
               PROVE  req.dev \notin disk.committed /\ Used(req) # None
    OBVIOUS
  <2>1. /\ req.invite \in disk.known /\ disk.invites[req.invite].dev = req.dev
        /\ req.dev \notin disk.committed
    BY <1>1 DEF IInv, RequestReserved
  <2>2. req.invite \in Invites BY <2>1 DEF State
  <2> QED BY <2>1, <2>2 DEF Used
<1>6. c \in Commit BY <1>2, <1>3, <1>4 DEF Commit
<1>7. /\ c.by = cur[2] /\ c.dev = req.dev /\ c.invite = Used(req)
      /\ c.verified = (req.dev \in verified)
  OBVIOUS
<1> HIDE DEF c, req
<1> QED BY <1>1, <1>4, <1>5, <1>6, <1>7, StagedInv

LEMMA RevokeInv ==
  ASSUME IInv, NEW d \in Devices, Revoke(d)
  PROVE  IInv'
<1> DEFINE c == [kind |-> "remove", dev |-> d, by |-> "manual",
                 verified |-> FALSE, invite |-> None]
<1>1. c \in Commit /\ c.by = "manual" /\ c.kind = "remove" BY DEF Commit
<1>2. /\ Staged(c)
      /\ UNCHANGED <<cur, expired, published, members, void, verified>>
  BY DEF Revoke, server
<1> HIDE DEF c
<1> QED BY <1>1, <1>2, StagedInv

LEMMA NextInv == IInv /\ [Next]_vars => IInv'
<1> SUFFICES ASSUME IInv, [Next]_vars PROVE IInv' OBVIOUS
<1>1. CASE \/ Begin \/ PostLost \/ StageFails \/ Crash
           \/ \E i \in Invites : Expire(i)
           \/ UNCHANGED vars
  BY <1>1, QuietSteps
<1>2. CASE PostRefused \/ \E answered \in BOOLEAN : Publish(answered)
  BY <1>2, PostSteps
<1>3. ASSUME NEW i \in Invites, NEW room \in Rooms \cup {None}, Issue(i, room)
      PROVE  IInv'
  BY <1>3, IssueInv
<1>4. ASSUME NEW automatic \in BOOLEAN, Policy(automatic) PROVE IInv'
  BY <1>4, PolicyInv
<1>5. ASSUME NEW req \in Shown, AutoAdmit(req) PROVE IInv' BY <1>5, AutoInv
<1>6. ASSUME NEW req \in Shown, ManualAdmit(req) PROVE IInv' BY <1>6, ManualInv
<1>7. CASE NoteAdmitted BY <1>7, NoteAdmittedInv
<1>8. CASE Stage BY <1>8, StageInv
<1>9. ASSUME NEW d \in Devices, Revoke(d) PROVE IInv' BY <1>9, RevokeInv
<1> QED BY <1>1, <1>2, <1>3, <1>4, <1>5, <1>6, <1>7, <1>8, <1>9 DEF Next

-----------------------------------------------------------------------------
(***************************************************************************)
(* The theorems.                                                           *)
(***************************************************************************)

(* The inductive invariant: every reservation, admission and commit is saved *)
(* before the step that relies on it (encryptionManageMode,                  *)
(* changeMLSRoster), so a crash between any two steps loses none of them.    *)
THEOREM Invariance == Spec => []IInv
BY InitInv, NextInv, PTL DEF Spec

(* The creator's state stays well typed whatever requests the relay shows.   *)
THEOREM TypeCorrect == Spec => []TypeOK
<1>1. IInv => TypeOK BY DEF IInv
<1> QED BY <1>1, Invariance, PTL

(* reserveAdmission: an invitation that was used never automatically admits  *)
(* a second device that the owner has not verified.                          *)
THEOREM OneDevice == Spec => []OneDevicePerInvite
<1>1. IInv => OneDevicePerInvite BY DEF IInv
<1> QED BY <1>1, Invariance, PTL

(* CommittedAdmissions: a device admitted once, and perhaps revoked since,   *)
(* comes back only through the owner.                                        *)
THEOREM NoReadmission == Spec => []NoAutomaticReadmission
<1>1. IInv => NoAutomaticReadmission BY DEF IInv
<1> QED BY <1>1, Invariance, PTL

(* changeMLSRoster saves the admission before it posts the commit: the       *)
(* server's roster never has a device the saved record lacks.                *)
THEOREM RosterRecorded == Spec => []MembersCommitted
<1>1. IInv => MembersCommitted BY DEF IInv
<1> QED BY <1>1, Invariance, PTL

(* encryptionAdmissionPolicy: an invitation that was outstanding when        *)
(* automatic admission was disabled admits nobody automatically afterwards,  *)
(* also when automatic admission is enabled again.                           *)
THEOREM StayVoid == Spec => DisabledInvitesStayVoid
<1>1. ASSUME IInv, [Next]_vars
      PROVE  [Len(staged') > Len(staged) /\ staged'[Len(staged')].by = "auto" =>
                staged'[Len(staged')].invite \notin void]_vars
  <2> USE AdmissionAssumption, TypeFacts
  <2>1. CASE Stage
    <3> DEFINE req == cur[1]
               c == [kind |-> "add", dev |-> req.dev, by |-> cur[2],
                     verified |-> req.dev \in verified, invite |-> Used(req)]
    <3>1. pc = "admitted" /\ staged' = Append(staged, c) BY <2>1 DEF Stage, Staged
    <3>2. staged'[Len(staged')] = c BY <1>1, <3>1
    <3>3. cur[2] = "auto" => Used(req) \in disk.known
      BY <1>1, <3>1 DEF IInv, RequestReserved, Used
    <3>4. cur[2] = "auto" => Used(req) \notin void
      BY <1>1, <3>3 DEF IInv, InvitesSpent
    <3> QED BY <3>2, <3>4
  <2>2. ASSUME NEW d \in Devices, Revoke(d) PROVE staged'[Len(staged')].by = "manual"
    BY <1>1, <2>2 DEF Revoke, Staged
  <2>3. CASE UNCHANGED staged BY <2>3
  <2> QED
    BY <1>1, <2>1, <2>2, <2>3
    DEF Next, vars, Begin, Publish, PostLost, PostRefused, Issue, Expire, Policy,
        AutoAdmit, ManualAdmit, NoteAdmitted, StageFails, Crash, Finish
<1> QED BY <1>1, Invariance, PTL DEF Spec, DisabledInvitesStayVoid
=============================================================================
