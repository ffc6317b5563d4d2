------------------------- MODULE SecureGroupProofs -------------------------
(***************************************************************************)
(* Machine-checked proofs about the encrypted group, for every set of       *)
(* devices, keys and files and every bound.                                 *)
(***************************************************************************)
EXTENDS SecureGroup, TLAPS

Operations == {"new", "last"} \cup Keys \cup Files

-----------------------------------------------------------------------------
(***************************************************************************)
(* Rows, rosters and the journal.                                          *)
(***************************************************************************)
LEMMA InRange ==
  ASSUME NEW S, NEW s \in Seq(S), NEW x
  PROVE  x \in Range(s) <=> \E n \in 1..Len(s) : s[n] = x
BY DEF Range

LEMMA RowFacts ==
  /\ \A r \in Rosters : RosterRow(r) \in Row
  /\ \A e \in Envelopes : EnvelopeRow(e) \in Row
  /\ \A r : RosterRow(r) \in Row => r \in Rosters
  /\ \A e : EnvelopeRow(e) \in Row => e \in Envelopes
  /\ \A r, s : RosterRow(r) = RosterRow(s) => r = s
  /\ \A e, f : EnvelopeRow(e) = EnvelopeRow(f) => e = f
  /\ \A r, e : RosterRow(r) # EnvelopeRow(e)
  /\ \A r : RosterRow(r).kind = "roster" /\ RosterRow(r).id = r
  /\ \A e : EnvelopeRow(e).kind = "envelope" /\ EnvelopeRow(e).id = e
  /\ \A x \in Row : \/ x.kind = "roster" /\ x.id \in Rosters /\ x = RosterRow(x.id)
                    \/ x.kind = "envelope" /\ x.id \in Envelopes /\ x = EnvelopeRow(x.id)
<1>1. /\ \A r : RosterRow(r).kind = "roster" /\ RosterRow(r).id = r
      /\ \A e : EnvelopeRow(e).kind = "envelope" /\ EnvelopeRow(e).id = e
  BY DEF RosterRow, EnvelopeRow
<1>2. /\ \A r \in Rosters : RosterRow(r) \in Row
      /\ \A e \in Envelopes : EnvelopeRow(e) \in Row
      /\ \A r : RosterRow(r) \in Row => r \in Rosters
      /\ \A e : EnvelopeRow(e) \in Row => e \in Envelopes
  BY DEF RosterRow, EnvelopeRow, Row
<1>3. ASSUME NEW x \in Row
      PROVE  \/ x.kind = "roster" /\ x.id \in Rosters /\ x = RosterRow(x.id)
             \/ x.kind = "envelope" /\ x.id \in Envelopes /\ x = EnvelopeRow(x.id)
  <2>1. CASE x \in [kind : {"roster"}, id : Rosters] BY <2>1 DEF RosterRow
  <2>2. CASE x \in [kind : {"envelope"}, id : Envelopes] BY <2>2 DEF EnvelopeRow
  <2> QED BY <2>1, <2>2 DEF Row
<1>4. /\ \A r, s : RosterRow(r) = RosterRow(s) => r = s
      /\ \A e, f : EnvelopeRow(e) = EnvelopeRow(f) => e = f
      /\ \A r, e : RosterRow(r) # EnvelopeRow(e)
  <2> HIDE DEF RosterRow, EnvelopeRow
  <2> QED BY <1>1
<1> QED BY <1>1, <1>2, <1>3, <1>4

(* What the journal says, by position. *)
LEMMA JournalFacts ==
  ASSUME TypeOK
  PROVE  /\ \A r : r \in Published <=>
              r \in 1..Len(commits) /\ \E n \in 1..Len(journal) : journal[n] = RosterRow(r)
         /\ \A e : e \in Stored <=>
              e \in 1..Len(envs) /\ \E n \in 1..Len(journal) : journal[n] = EnvelopeRow(e)
<1>1. \A x : x \in Range(journal) <=> \E n \in 1..Len(journal) : journal[n] = x
  BY InRange DEF TypeOK
<1> QED BY <1>1 DEF Published, Stored

LEMMA CurrentNewest ==
  ASSUME RostersSound
  PROVE  /\ Published = {} => Current = 0
         /\ Published # {} =>
              Current \in Published /\ \A s \in Published : EpochOf(s) <= EpochOf(Current)
BY DEF RostersSound, Current

LEMMA EpochFacts ==
  ASSUME TypeOK
  PROVE  /\ EpochOf(0) = 0
         /\ \A r \in 1..Len(commits) : /\ EpochOf(r) = commits[r].epoch
                                       /\ EpochOf(r) \in Nat /\ EpochOf(r) >= 1
                                       /\ r \in Rosters /\ commits[r] \in Roster
<1>1. \A r \in 1..Len(commits) : commits[r] \in Roster BY DEF TypeOK
<1>2. \A r \in 1..Len(commits) : commits[r].epoch \in Nat /\ commits[r].epoch >= 1
  BY <1>1, GroupAssumption DEF Roster, Rosters
<1> QED BY <1>1, <1>2, GroupAssumption DEF EpochOf, TypeOK, Rosters

(* Every step lets commits, envelopes and the journal only grow. *)
Grows ==
  /\ commits' \in Seq(Roster) /\ envs' \in Seq(Envelope) /\ journal' \in Seq(Row)
  /\ Len(commits) <= Len(commits') /\ \A r \in 1..Len(commits) : commits'[r] = commits[r]
  /\ Len(envs) <= Len(envs') /\ \A e \in 1..Len(envs) : envs'[e] = envs[e]
  /\ Len(journal) <= Len(journal') /\ \A n \in 1..Len(journal) : journal'[n] = journal[n]

LEMMA UnchangedGrows ==
  ASSUME TypeOK, UNCHANGED <<commits, envs, journal>>
  PROVE  Grows
BY DEF TypeOK, Grows

LEMMA GrowsFacts ==
  ASSUME IInv, Grows
  PROVE  /\ Published \subseteq Published'
         /\ Stored \subseteq Stored'
         /\ \A r \in 0..Len(commits) : /\ EpochOf(r)' = EpochOf(r)
                                       /\ MembersOf(r)' = MembersOf(r)
                                       /\ RoomOf(r)' = RoomOf(r)
         /\ \A m, row : m.sync \in Nat /\ m.sync <= Len(journal) =>
              (Passed(m, row)' <=> Passed(m, row))
<1>1. TypeOK BY DEF IInv
<1>2. \A x : x \in Range(journal) <=> \E n \in 1..Len(journal) : journal[n] = x
  BY <1>1, InRange DEF TypeOK
<1>3. \A x : x \in Range(journal') <=> \E n \in 1..Len(journal') : journal'[n] = x
  BY InRange DEF Grows
<1>4. Len(journal) \in Nat /\ Len(journal') \in Nat /\ Len(commits) \in Nat
      /\ Len(commits') \in Nat /\ Len(envs) \in Nat /\ Len(envs') \in Nat
  BY <1>1 DEF TypeOK, Grows
<1>5. Range(journal) \subseteq Range(journal') BY <1>2, <1>3, <1>4 DEF Grows
<1>6. Published \subseteq Published' BY <1>4, <1>5 DEF Published, Grows, RosterRow
<1>7. Stored \subseteq Stored' BY <1>4, <1>5 DEF Stored, Grows, EnvelopeRow
<1>8. \A r \in 0..Len(commits) : EpochOf(r)' = EpochOf(r) BY <1>4 DEF EpochOf, Grows
<1>9. \A r \in 0..Len(commits) : MembersOf(r)' = MembersOf(r) BY <1>4 DEF MembersOf, Grows
<1>10. \A r \in 0..Len(commits) : RoomOf(r)' = RoomOf(r) BY <1>4 DEF RoomOf, Grows
<1>11. ASSUME NEW m, NEW row, m.sync \in Nat, m.sync <= Len(journal)
       PROVE  Passed(m, row)' <=> Passed(m, row)
  <2>1. \A n \in 1..m.sync : journal'[n] = journal[n] BY <1>4, <1>11 DEF Grows
  <2> QED BY <2>1 DEF Passed
<1> QED BY <1>6, <1>7, <1>8, <1>9, <1>10, <1>11

LEMMA CurrentKept ==
  ASSUME IInv, Grows, Published' = Published
  PROVE  Current' = Current
<1>1. TypeOK /\ RostersSound BY DEF IInv
<1>2. \A r \in Published : r \in 0..Len(commits) BY DEF Published
<1>3. \A r \in Published : EpochOf(r)' = EpochOf(r) BY <1>2, GrowsFacts
<1>4. \A r \in Published : EpochOf(r) \in Nat BY <1>1, EpochFacts DEF Published
<1>5. CASE Published = {} BY <1>5 DEF Current
<1>6. CASE Published # {}
  <2>1. Current \in Published /\ \A s \in Published : EpochOf(s) <= EpochOf(Current)
    BY <1>1, <1>6, CurrentNewest
  <2>2. \E r \in Published' : \A s \in Published' : EpochOf(s)' <= EpochOf(r)'
    BY <1>3, <2>1
  <2>3. \E c \in Published' : c = Current' /\ \A s \in Published' : EpochOf(s)' <= EpochOf(c)'
    BY <1>6, <2>2 DEF Current
  <2>4. PICK c \in Published : c = Current' /\ \A s \in Published : EpochOf(s) <= EpochOf(c)
    BY <1>3, <2>3
  <2>5. EpochOf(c) = EpochOf(Current) BY <1>4, <2>1, <2>4
  <2> QED BY <1>1, <2>1, <2>4, <2>5 DEF RostersSound
<1> QED BY <1>5, <1>6

LEMMA DeadKept ==
  ASSUME IInv, Grows, Published' = Published,
         \A e \in 1..Len(envs) : e \in Stored' => e \in Stored \/ ~ Dead(e)
  PROVE  \A e \in 1..Len(envs) : Dead(e) => Dead(e)'
<1>1. Current' = Current BY CurrentKept
<1> QED BY <1>1 DEF Dead, Grows

(* What a device's own saved state says survives a step of somebody else. *)
LEMMA StateKept ==
  ASSUME IInv, Grows, NEW x \in Devices, NEW m \in CryptoState, StateSound(x, m),
         commits' = commits \/ x # Creator
  PROVE  StateSound(x, m)'
<1>1. TypeOK BY DEF IInv
<1>2. /\ Len(journal) \in Nat /\ Len(journal') \in Nat /\ Len(commits) \in Nat
      /\ Len(commits') \in Nat /\ Len(envs) \in Nat /\ Len(envs') \in Nat
  BY <1>1 DEF TypeOK, Grows
<1>3. /\ m.sync \in Nat /\ m.seen \in Nat /\ m.active \in Nat /\ m.pending \in Nat
      /\ m.gen \in Nat /\ m.consumed \subseteq Envelopes
      /\ m.outbox \in [Keys -> 0..MaxEnvelopes]
  BY GroupAssumption DEF CryptoState
<1>4. \A row : Passed(m, row)' <=> Passed(m, row)
  BY <1>3, GrowsFacts DEF StateSound
<1>5. \A e \in Envelopes : Passed(m, EnvelopeRow(e)) => e \in 1..Len(envs)
  <2>1. SUFFICES ASSUME NEW e \in Envelopes, NEW n \in 1..m.sync, journal[n] = EnvelopeRow(e)
                 PROVE  e \in 1..Len(envs)
    BY DEF Passed
  <2>2. n \in 1..Len(journal) BY <1>2, <1>3 DEF StateSound
  <2> QED BY <1>2, <2>1, <2>2, GroupAssumption DEF IInv, JournalSound, Envelopes
<1>6. \A e \in 1..Len(envs') : Passed(m, EnvelopeRow(e)) => e \in 1..Len(envs)
  <2>1. ASSUME NEW e \in 1..Len(envs'), Passed(m, EnvelopeRow(e)) PROVE e \in Envelopes
    <3>1. PICK n \in 1..m.sync : journal[n] = EnvelopeRow(e) BY <2>1 DEF Passed
    <3>2. n \in 1..Len(journal) BY <1>2, <1>3 DEF StateSound
    <3> QED BY <1>1, <3>1, <3>2, RowFacts DEF TypeOK
  <2> QED BY <1>5, <2>1
<1>7. \A e \in 1..Len(envs) :
        /\ envs'[e] = envs[e]
        /\ envs[e].roster \in 0..Len(commits)
  <2>1. \A e \in 1..Len(envs) : envs[e].roster \in Published BY DEF IInv, EnvelopesSound, EnvelopeSound
  <2> QED BY <2>1 DEF Published, Grows
<1>8. \A e \in 1..Len(envs) :
        /\ MembersOf(envs[e].roster)' = MembersOf(envs[e].roster)
        /\ RoomOf(envs[e].roster)' = RoomOf(envs[e].roster)
  BY <1>2, <1>7 DEF MembersOf, RoomOf, Grows
<1>9. /\ m.seen <= Len(commits') /\ m.active <= Len(commits') /\ m.pending <= Len(commits')
      /\ m.gen <= Len(envs') /\ m.sync <= Len(journal')
  BY <1>2, <1>3 DEF StateSound, Grows
<1>10. \A e \in m.consumed : e \in 1..Len(envs)
  BY <1>2, <1>3, GroupAssumption DEF StateSound, Envelopes
<1>11. /\ m.joined => Passed(m, RosterRow(m.group))'
       /\ m.pending # 0 => x = Creator /\ ~ Passed(m, RosterRow(m.pending))'
       /\ x = Creator /\ m.group = 0 => commits' = <<>>
  BY <1>4 DEF StateSound
<1>12. \A k \in Keys : m.outbox[k] # 0 =>
         m.outbox[k] \in m.consumed /\ envs'[m.outbox[k]].key = k
  BY <1>7, <1>10 DEF StateSound
<1>13. \A e \in m.consumed :
         /\ e <= Len(envs')
         /\ e \in m.archive \/ ~ InScope(envs[e].roster, x, envs[e].key)'
  BY <1>2, <1>7, <1>8, <1>10 DEF StateSound, InScope, Grows
<1>14. \A e \in 1..Len(envs') :
         /\ Passed(m, EnvelopeRow(e))' /\ x \in MembersOf(envs[e].roster)'
         /\ InScope(envs[e].roster, x, envs[e].key)'
         => e \in m.archive \cup m.rejected
  BY <1>4, <1>6, <1>7, <1>8 DEF StateSound, InScope
<1> QED BY <1>9, <1>11, <1>12, <1>13, <1>14 DEF StateSound

LEMMA TypeFacts ==
  ASSUME TypeOK
  PROVE  /\ Len(commits) \in Nat /\ Len(envs) \in Nat /\ Len(journal) \in Nat
         /\ \A d \in Devices : disk[d] \in CryptoState /\ mem[d] \in CryptoState
         /\ \A d \in Devices : pc[d] \in Phases /\ op[d] \in Operations
         /\ \A m \in CryptoState :
              /\ m.sync \in Nat /\ m.seen \in Nat /\ m.active \in Nat /\ m.pending \in Nat
              /\ m.gen \in Nat /\ m.group \in Nat /\ m.consumed \subseteq Envelopes
              /\ m.outbox \in [Keys -> 0..MaxEnvelopes]
         /\ \A e \in 1..Len(envs) : envs[e] \in Envelope /\ e \in Envelopes
         /\ \A n \in 1..Len(journal) : journal[n] \in Row
<1>1. /\ Len(commits) \in Nat /\ Len(envs) \in Nat /\ Len(journal) \in Nat
      /\ \A e \in 1..Len(envs) : envs[e] \in Envelope /\ e \in Envelopes
      /\ \A n \in 1..Len(journal) : journal[n] \in Row
  BY GroupAssumption DEF TypeOK, Envelopes
<1>2. /\ \A d \in Devices : disk[d] \in CryptoState /\ mem[d] \in CryptoState
      /\ \A d \in Devices : pc[d] \in Phases /\ op[d] \in Operations
  BY DEF TypeOK, Operations
<1>3. \A m \in CryptoState :
              /\ m.sync \in Nat /\ m.seen \in Nat /\ m.active \in Nat /\ m.pending \in Nat
              /\ m.gen \in Nat /\ m.group \in Nat /\ m.consumed \subseteq Envelopes
              /\ m.outbox \in [Keys -> 0..MaxEnvelopes]
  BY GroupAssumption DEF CryptoState
<1> QED BY <1>1, <1>2, <1>3

(* A step of somebody else does not disturb a device. *)
LEMMA OtherSound ==
  ASSUME IInv, Grows, NEW x \in Devices,
         disk'[x] = disk[x], mem'[x] = mem[x], pc'[x] = pc[x], op'[x] = op[x],
         commits' = commits \/ x # Creator,
         \A e \in 1..Len(envs) : Dead(e) => Dead(e)',
         \A e \in 1..Len(envs') : e > Len(envs) => Owner[envs'[e].key] # x
  PROVE  /\ StateSound(x, disk[x])'
         /\ CopySound(x)'
         /\ PhaseSound(x)'
<1>1. TypeOK /\ StateSound(x, disk[x]) /\ CopySound(x) /\ PhaseSound(x) BY DEF IInv
<1>2. /\ Len(commits) \in Nat /\ Len(envs) \in Nat
      /\ Len(commits') \in Nat /\ Len(envs') \in Nat
  BY <1>1, TypeFacts DEF Grows
<1>3. disk[x] \in CryptoState /\ mem[x] \in CryptoState BY <1>1, TypeFacts
<1>4. StateSound(x, disk[x])'
  <2>1. PICK m \in CryptoState : m = disk[x] BY <1>3
  <2>2. StateSound(x, m)' BY <1>1, <2>1, StateKept
  <2> QED BY <2>1, <2>2
<1>5. CopySound(x)'
  <2>1. \A r \in 0..Len(commits) : EpochOf(r)' = EpochOf(r) BY GrowsFacts
  <2>2. disk[x].seen \in 0..Len(commits) BY <1>1, <1>2, <1>3, TypeFacts DEF StateSound
  <2>3. pc[x] \in Ahead =>
          /\ mem[x].seen \in 1..Len(commits') /\ mem[x].active \in 1..Len(commits')
          /\ EpochOf(disk[x].seen)' <= EpochOf(mem[x].seen)'
    <3>1. SUFFICES ASSUME pc[x] \in Ahead
          PROVE  /\ mem[x].seen \in 1..Len(commits') /\ mem[x].active \in 1..Len(commits')
                 /\ EpochOf(disk[x].seen)' <= EpochOf(mem[x].seen)'
      OBVIOUS
    <3>2. /\ mem[x].seen \in 1..Len(commits) /\ mem[x].active \in 1..Len(commits)
          /\ EpochOf(disk[x].seen) <= EpochOf(mem[x].seen)
      BY <1>1, <3>1 DEF CopySound
    <3>3. PICK a \in 0..Len(commits), b \in 0..Len(commits) :
            a = disk[x].seen /\ b = mem[x].seen
      BY <1>2, <2>2, <3>2
    <3>4. EpochOf(a)' <= EpochOf(b)' BY <2>1, <3>2, <3>3
    <3> QED BY <1>2, <3>2, <3>3, <3>4 DEF Grows
  <2>4. pc[x] = "rebuild" => \A e \in 1..Len(envs') : envs'[e].key = op[x] => Dead(e)'
    <3>1. SUFFICES ASSUME pc[x] = "rebuild", NEW e \in 1..Len(envs'), envs'[e].key = op[x]
                   PROVE  Dead(e)'
      OBVIOUS
    <3>2. Owner[op[x]] = x BY <1>1, <3>1 DEF PhaseSound
    <3>3. e \in 1..Len(envs) BY <1>2, <3>1, <3>2
    <3>4. Dead(e) BY <1>1, <3>1, <3>3 DEF CopySound, Grows
    <3> QED BY <3>3, <3>4
  <2> QED BY <1>1, <2>3, <2>4 DEF CopySound
<1>6. PhaseSound(x)'
  <2>1. Published \subseteq Published' BY GrowsFacts
  <2>2. (\E e \in mem[x].consumed : envs[e].key = op[x]) /\ op[x] \notin Keys
          /\ pc[x] \in {"sealed", "sent", "saved", "resent"}
        => \E e \in mem'[x].consumed : envs'[e].key = op[x]
    <3>1. SUFFICES ASSUME NEW e \in mem[x].consumed, envs[e].key = op[x],
                          pc[x] \in {"sealed", "sent", "saved", "resent"}
                   PROVE  \E f \in mem'[x].consumed : envs'[f].key = op[x]
      OBVIOUS
    <3>2. mem[x].consumed = disk[x].consumed
      <4>1. CASE pc[x] \notin Ahead BY <1>1, <4>1 DEF CopySound
      <4>2. CASE pc[x] \in Ahead
        <5>1. mem[x] = [disk[x] EXCEPT !.seen = mem[x].seen, !.active = mem[x].active,
                                       !.outbox = mem[x].outbox]
          BY <1>1, <4>2 DEF CopySound
        <5> QED BY <1>3, <5>1 DEF CryptoState
      <4> QED BY <4>1, <4>2
    <3>3. e \in 1..Len(envs)
      <4>1. e \in Nat /\ e >= 1 BY <1>3, TypeFacts, <1>1, GroupAssumption DEF Envelopes
      <4> QED BY <1>1, <1>2, <3>2, <4>1 DEF StateSound
    <3> QED BY <3>1, <3>3 DEF Grows
  <2> QED BY <1>1, <2>1, <2>2 DEF PhaseSound
<1> QED BY <1>4, <1>5, <1>6

-----------------------------------------------------------------------------
(***************************************************************************)
(* Steps of one device d that sign and seal nothing.                       *)
(***************************************************************************)
(* The saved state goes from m to s: what envelopes rely on is kept, and a   *)
(* key leaves the outbox only when its envelopes are dead.                   *)
Kept(m, s) ==
  /\ m.consumed \subseteq s.consumed /\ m.sync <= s.sync
  /\ \/ s.group = m.group /\ m.gen <= s.gen
     \/ ~ Passed(m, RosterRow(s.group))
  /\ \A k \in Keys : \/ s.outbox[k] = m.outbox[k]
                     \/ \A e \in 1..Len(envs) : envs[e].key = k => Dead(e)

LEMMA KeptSame == \A m \in CryptoState : Kept(m, m)
BY GroupAssumption DEF Kept, CryptoState

LEMMA PassedFurther ==
  ASSUME NEW m \in CryptoState, NEW s \in CryptoState, m.sync <= s.sync, NEW row,
         Passed(m, row)
  PROVE  Passed(s, row)
<1>1. m.sync \in Nat /\ s.sync \in Nat BY DEF CryptoState
<1> QED BY <1>1 DEF Passed

LEMMA EnvelopeKept ==
  ASSUME IInv, Grows, NEW e \in 1..Len(envs), Dead(e) => Dead(e)',
         NEW s \in CryptoState, disk'[envs[e].sender] = s, s.sync <= Len(journal'),
         Kept(disk[envs[e].sender], s)
  PROVE  EnvelopeSound(e)'
<1>1. TypeOK /\ EnvelopeSound(e) BY DEF IInv, EnvelopesSound
<1>2. envs'[e] = envs[e] BY DEF Grows
<1>3. envs[e] \in Envelope BY <1>1, TypeFacts
<1>4. /\ envs[e].sender \in Devices /\ envs[e].gen \in Nat /\ envs[e].key \in Keys \cup Files
      /\ envs[e].group \in Nat
  BY <1>3, GroupAssumption DEF Envelope, Rosters
<1>5. PICK m \in CryptoState : m = disk[envs[e].sender] BY <1>1, <1>4, TypeFacts
<1>6. /\ m.sync \in Nat /\ s.sync \in Nat /\ m.sync <= Len(journal) /\ m.sync <= s.sync
      /\ m.gen \in Nat /\ s.gen \in Nat
  <2>1. StateSound(envs[e].sender, m) BY <1>4, <1>5 DEF IInv
  <2> QED BY <1>5, <2>1, GroupAssumption DEF StateSound, CryptoState, Kept
<1>7. Passed(m, RosterRow(envs[e].group)) BY <1>1, <1>5 DEF EnvelopeSound
<1>8. PICK n \in 1..m.sync : journal[n] = RosterRow(envs[e].group) BY <1>7 DEF Passed
<1>9. Passed(s, RosterRow(envs[e].group))'
  <2>1. n \in 1..s.sync /\ n \in 1..Len(journal) BY <1>1, <1>6, TypeFacts
  <2> QED BY <1>2, <1>8, <2>1 DEF Passed, RosterRow, Grows
<1>10. envs[e].group = s.group => envs[e].gen <= s.gen
  <2>1. SUFFICES ASSUME envs[e].group = s.group PROVE envs[e].gen <= s.gen OBVIOUS
  <2>2. s.group = m.group /\ m.gen <= s.gen BY <1>5, <1>7, <2>1 DEF Kept
  <2> QED BY <1>1, <1>4, <1>5, <1>6, <2>1, <2>2 DEF EnvelopeSound
<1>11. envs[e].key \in Keys => e = s.outbox[envs[e].key] \/ Dead(e)'
  BY <1>1, <1>5 DEF EnvelopeSound, Kept
<1>12. envs[e].roster \in 0..Len(commits) /\ envs[e].roster \in Published'
  BY <1>1, GrowsFacts DEF EnvelopeSound, Published
<1>13. InScope(envs[e].roster, envs[e].sender, envs[e].key)'
  BY <1>1, <1>2, <1>12, TypeFacts DEF EnvelopeSound, InScope, RoomOf, Grows
<1>14. e \in s.consumed BY <1>1, <1>5 DEF EnvelopeSound, Kept
<1> QED BY <1>1, <1>2, <1>9, <1>10, <1>11, <1>12, <1>13, <1>14 DEF EnvelopeSound

LEMMA LocalStep ==
  ASSUME IInv, NEW d \in Devices, NEW s \in CryptoState, NEW m \in CryptoState,
         NEW p \in Phases, NEW o \in Operations,
         disk' = [disk EXCEPT ![d] = s], mem' = [mem EXCEPT ![d] = m],
         pc' = [pc EXCEPT ![d] = p], op' = [op EXCEPT ![d] = o],
         UNCHANGED <<commits, envs, journal>>,
         refused' \subseteq Rosters, wire' \subseteq Row,
         StateSound(d, s), Kept(disk[d], s), CopySound(d)', PhaseSound(d)',
         JournalSound', PostedKnown'
  PROVE  IInv'
<1>1. TypeOK /\ Grows BY UnchangedGrows DEF IInv
<1>2. TypeOK' BY <1>1 DEF TypeOK, Operations
<1>3. Published' = Published /\ Stored' = Stored BY DEF Published, Stored, RosterRow, EnvelopeRow
<1>4. \A e \in 1..Len(envs) : Dead(e) => Dead(e)'
  BY <1>1, <1>3, DeadKept
<1>5. RostersSound' BY <1>3 DEF IInv, RostersSound, EpochOf
<1>6. /\ disk'[d] = s
      /\ \A x \in Devices : x # d =>
           disk'[x] = disk[x] /\ mem'[x] = mem[x] /\ pc'[x] = pc[x] /\ op'[x] = op[x]
  BY <1>1 DEF TypeOK
<1>7. s.sync <= Len(journal) BY DEF StateSound
<1>8. \A x \in Devices : Kept(disk[x], disk'[x]) /\ disk'[x] \in CryptoState
                           /\ disk'[x].sync <= Len(journal')
  <2>1. \A x \in Devices : disk[x].sync <= Len(journal) BY DEF IInv, StateSound
  <2> QED BY <1>1, <1>6, <1>7, <2>1, KeptSame, TypeFacts
<1>9. EnvelopesSound'
  <2>1. \A e \in 1..Len(envs) : envs[e].sender \in Devices BY <1>1, TypeFacts DEF Envelope
  <2>2. \A e \in 1..Len(envs) : EnvelopeSound(e)'
    BY <1>1, <1>4, <1>8, <2>1, EnvelopeKept
  <2> QED BY <2>2 DEF EnvelopesSound
<1>10. SealedApart' BY DEF IInv, SealedApart
<1>11. StateSound(d, disk[d])'
  <2>1. StateSound(d, s)' BY <1>1, StateKept
  <2> QED BY <1>6, <2>1
<1>12. ASSUME NEW x \in Devices, x # d
       PROVE  StateSound(x, disk[x])' /\ CopySound(x)' /\ PhaseSound(x)'
  <2>1. \A e \in 1..Len(envs') : ~ (e > Len(envs)) BY <1>1, TypeFacts
  <2> QED BY <1>1, <1>4, <1>6, <1>12, <2>1, OtherSound
<1> QED BY <1>2, <1>5, <1>9, <1>10, <1>11, <1>12 DEF IInv

(* A step that posts nothing either. *)
LEMMA QuietStep ==
  ASSUME IInv, NEW d \in Devices, NEW s \in CryptoState, NEW m \in CryptoState,
         NEW p \in Phases, NEW o \in Operations,
         disk' = [disk EXCEPT ![d] = s], mem' = [mem EXCEPT ![d] = m],
         pc' = [pc EXCEPT ![d] = p], op' = [op EXCEPT ![d] = o],
         UNCHANGED <<commits, envs, journal, refused, wire>>,
         \/ s.pending = disk[d].pending
         \/ Passed(s, RosterRow(disk[d].pending)),
         StateSound(d, s), Kept(disk[d], s), CopySound(d)', PhaseSound(d)'
  PROVE  IInv'
<1>1. TypeOK /\ Grows BY UnchangedGrows DEF IInv
<1>2. refused' \subseteq Rosters /\ wire' \subseteq Row BY <1>1 DEF TypeOK
<1>3. Published' = Published BY DEF Published, RosterRow
<1>4. JournalSound' BY <1>3 DEF IInv, JournalSound, RosterRow, EnvelopeRow
<1>5. PostedKnown'
  <2>1. SUFFICES ASSUME NEW r \in Rosters, RosterRow(r) \in wire
                 PROVE  \/ r \in refused
                        \/ r = disk'[Creator].pending
                        \/ Passed(disk'[Creator], RosterRow(r))
    BY DEF PostedKnown, RosterRow, Passed
  <2>2. \/ r \in refused
        \/ r = disk[Creator].pending
        \/ Passed(disk[Creator], RosterRow(r))
    BY <2>1 DEF IInv, PostedKnown
  <2>3. CASE d # Creator BY <1>1, <2>2, <2>3, GroupAssumption DEF TypeOK
  <2>4. CASE d = Creator
    <3>1. disk'[Creator] = s /\ disk[Creator] \in CryptoState /\ disk[Creator].sync <= s.sync
      BY <1>1, <2>4, TypeFacts DEF TypeOK, Kept
    <3> QED BY <2>2, <2>4, <3>1, PassedFurther
  <2> QED BY <2>3, <2>4
<1> QED BY <1>2, <1>4, <1>5, LocalStep

(* A state s that differs from m in the roster observed, in keys that left   *)
(* the outbox and in what was added to the archive.                          *)
Like(m, s) ==
  /\ s.group = m.group /\ s.gen = m.gen /\ s.joined = m.joined /\ s.pending = m.pending
  /\ s.sync = m.sync /\ s.consumed = m.consumed /\ s.rejected = m.rejected
  /\ s.seen <= Len(commits) /\ s.active <= Len(commits)
  /\ m.archive \subseteq s.archive
  /\ \A k \in Keys : s.outbox[k] \in {0, m.outbox[k]}

LEMMA LikeSound ==
  ASSUME NEW d, NEW m, NEW s, StateSound(d, m), Like(m, s)
  PROVE  StateSound(d, s)
<1>1. \A row : Passed(s, row) <=> Passed(m, row) BY DEF Passed, Like
<1> QED BY <1>1 DEF StateSound, Like

LEMMA ObservedFacts ==
  ASSUME TypeOK, NEW m \in CryptoState, NEW r \in Published
  PROVE  /\ Observed(m, r) \in CryptoState
         /\ Observed(m, r).seen = r /\ Observed(m, r).active = r
         /\ Observed(m, r).outbox = m.outbox
         /\ Like(m, Observed(m, r))
<1>1. r \in Rosters /\ r <= Len(commits) BY EpochFacts DEF Published
<1>2. r \in 0..MaxCommits BY <1>1, GroupAssumption DEF Rosters
<1> DEFINE s == [m EXCEPT !.seen = r, !.active = r]
<1>3. s \in CryptoState BY <1>2 DEF CryptoState
<1>4. /\ s.seen = r /\ s.active = r /\ s.outbox = m.outbox
      /\ s.group = m.group /\ s.gen = m.gen /\ s.joined = m.joined /\ s.pending = m.pending
      /\ s.sync = m.sync /\ s.consumed = m.consumed /\ s.rejected = m.rejected
      /\ s.archive = m.archive
  BY DEF CryptoState
<1>5. Observed(m, r) = s BY DEF Observed
<1> HIDE DEF s
<1> QED BY <1>1, <1>3, <1>4, <1>5 DEF Like

(* The working copy is as sound as the saved state. *)
LEMMA CopyFacts ==
  ASSUME IInv, NEW d \in Devices
  PROVE  /\ mem[d] \in CryptoState /\ disk[d] \in CryptoState
         /\ StateSound(d, disk[d]) /\ StateSound(d, mem[d])
         /\ Like(disk[d], mem[d]) /\ mem[d].archive = disk[d].archive
         /\ Kept(disk[d], mem[d])
         /\ pc[d] \notin Ahead => mem[d] = disk[d]
         /\ pc[d] # "rebuild" => mem[d].outbox = disk[d].outbox
<1>1. TypeOK /\ StateSound(d, disk[d]) /\ CopySound(d) BY DEF IInv
<1>2. mem[d] \in CryptoState /\ disk[d] \in CryptoState BY <1>1, TypeFacts
<1>3. CASE pc[d] \notin Ahead
  <2>1. mem[d] = disk[d] BY <1>1, <1>3 DEF CopySound
  <2>2. Like(disk[d], disk[d]) BY <1>1 DEF Like, StateSound
  <2> QED BY <1>1, <1>2, <2>1, <2>2, KeptSame
<1>4. CASE pc[d] \in Ahead
  <2>1. mem[d] = [disk[d] EXCEPT !.seen = mem[d].seen, !.active = mem[d].active,
                                 !.outbox = mem[d].outbox]
    BY <1>1, <1>4 DEF CopySound
  <2>2. LET m == mem[d] s == disk[d] IN
        /\ m.group = s.group /\ m.gen = s.gen /\ m.joined = s.joined /\ m.pending = s.pending
        /\ m.sync = s.sync /\ m.consumed = s.consumed /\ m.rejected = s.rejected
        /\ m.archive = s.archive
    BY <1>2, <2>1 DEF CryptoState
  <2>3. mem[d].seen <= Len(commits) /\ mem[d].active <= Len(commits)
    BY <1>1, <1>4, TypeFacts DEF CopySound
  <2>4. pc[d] # "rebuild" => mem[d].outbox = disk[d].outbox
    BY <1>1, <1>4 DEF CopySound
  <2>5. pc[d] = "rebuild" =>
          /\ \A k \in Keys : k # op[d] => mem[d].outbox[k] = disk[d].outbox[k]
          /\ op[d] \in Keys /\ mem[d].outbox[op[d]] = 0
          /\ \A e \in 1..Len(envs) : envs[e].key = op[d] => Dead(e)
    <3>1. disk[d].outbox \in [Keys -> 0..MaxEnvelopes] BY <1>1, <1>2, TypeFacts
    <3> QED BY <1>1, <3>1 DEF CopySound
  <2>6. Like(disk[d], mem[d]) BY <2>2, <2>3, <2>4, <2>5 DEF Like
  <2>7. disk[d].gen \in Nat /\ disk[d].sync \in Nat BY <1>1, <1>2, TypeFacts
  <2>8. Kept(disk[d], mem[d]) BY <2>2, <2>4, <2>5, <2>7 DEF Kept
  <2> QED BY <1>1, <1>2, <1>4, <2>2, <2>4, <2>6, <2>8, LikeSound
<1> QED BY <1>3, <1>4

LEMMA LikeKept ==
  ASSUME NEW b, NEW m, NEW s, Kept(b, m), Like(m, s), s.outbox = m.outbox
  PROVE  Kept(b, s)
BY DEF Kept, Like

LEMMA FinishInv ==
  ASSUME IInv, NEW d \in Devices, NEW m \in CryptoState, Finish(d, m),
         Like(mem[d], m), m.outbox = mem[d].outbox,
         UNCHANGED <<commits, envs, journal, refused, wire>>
  PROVE  IInv'
<1>1. /\ StateSound(d, mem[d]) /\ Kept(disk[d], mem[d]) /\ mem[d].pending = disk[d].pending
      /\ mem[d] \in CryptoState
  BY CopyFacts DEF Like
<1>2. StateSound(d, m) /\ Kept(disk[d], m) /\ m.pending = disk[d].pending
  BY <1>1, LikeSound, LikeKept DEF Like
<1>3. /\ disk' = [disk EXCEPT ![d] = m] /\ mem' = [mem EXCEPT ![d] = m]
      /\ pc' = [pc EXCEPT ![d] = "idle"] /\ op' = [op EXCEPT ![d] = "new"]
  BY DEF Finish, Save, Work, Goto
<1>4. "idle" \in Phases /\ "new" \in Operations BY DEF Phases, Operations
<1>5. disk'[d] = m /\ mem'[d] = m /\ pc'[d] = "idle" BY <1>3 DEF IInv, TypeOK
<1>6. CopySound(d)' BY <1>5 DEF CopySound, Ahead
<1>7. PhaseSound(d)' BY <1>5 DEF PhaseSound, Ahead
<1> QED BY <1>2, <1>3, <1>4, <1>6, <1>7, QuietStep

LEMMA LikeSame ==
  ASSUME IInv, NEW d \in Devices
  PROVE  Like(mem[d], mem[d])
BY CopyFacts DEF Like, StateSound

LEMMA SealFailsInv ==
  ASSUME IInv, NEW d \in Devices, NEW r \in Published, SealFails(d, r)
  PROVE  IInv'
<1>1. mem[d] \in CryptoState /\ Like(mem[d], mem[d]) /\ TypeOK BY CopyFacts, LikeSame DEF IInv
<1>2. /\ Observed(mem[d], r) \in CryptoState
      /\ Observed(mem[d], r).outbox = mem[d].outbox
      /\ Like(mem[d], Observed(mem[d], r))
  BY <1>1, ObservedFacts
<1> QED BY <1>1, <1>2, FinishInv DEF SealFails

LEMMA GotoInv ==
  ASSUME IInv, NEW d \in Devices, NEW p \in Phases, NEW o \in Operations,
         pc' = [pc EXCEPT ![d] = p], op' = [op EXCEPT ![d] = o],
         UNCHANGED <<commits, envs, journal, refused, wire, disk, mem>>,
         CopySound(d)', PhaseSound(d)'
  PROVE  IInv'
<1>1. /\ disk[d] \in CryptoState /\ mem[d] \in CryptoState
      /\ StateSound(d, disk[d]) /\ Kept(disk[d], disk[d])
  BY CopyFacts, KeptSame
<1>2. disk' = [disk EXCEPT ![d] = disk[d]] /\ mem' = [mem EXCEPT ![d] = mem[d]]
  BY DEF IInv, TypeOK
<1> QED BY <1>1, <1>2, QuietStep

LEMMA BeginInv ==
  ASSUME IInv, NEW d \in Devices, Begin(d) \/ Crash(d)
  PROVE  IInv'
<1>1. /\ disk[d] \in CryptoState /\ StateSound(d, disk[d]) /\ Kept(disk[d], disk[d])
  BY CopyFacts, KeptSame
<1>2. TypeOK /\ disk' = [disk EXCEPT ![d] = disk[d]] /\ mem' = [mem EXCEPT ![d] = disk[d]]
      /\ UNCHANGED <<commits, envs, journal, refused, wire>>
  BY DEF IInv, TypeOK, Begin, Crash, Work
<1>3. PICK p \in {"start", "idle"}, o \in Operations :
        pc' = [pc EXCEPT ![d] = p] /\ op' = [op EXCEPT ![d] = o]
  <2>1. CASE Begin(d)
    <3>1. op[d] \in Operations BY <1>2, TypeFacts
    <3>2. op' = [op EXCEPT ![d] = op[d]] BY <1>2, <2>1 DEF TypeOK, Begin
    <3> QED BY <2>1, <3>1, <3>2 DEF Begin, Goto
  <2>2. CASE Crash(d) BY <2>2 DEF Crash, Goto, Operations
  <2> QED BY <2>1, <2>2
<1>4. p \in Phases BY DEF Phases
<1>5. disk'[d] = disk[d] /\ mem'[d] = disk[d] /\ pc'[d] = p BY <1>2, <1>3 DEF TypeOK
<1>6. CopySound(d)' /\ PhaseSound(d)' BY <1>5 DEF CopySound, PhaseSound, Ahead
<1> QED BY <1>1, <1>2, <1>3, <1>4, <1>6, QuietStep

LEMMA StatusOKInv ==
  ASSUME IInv, NEW d \in Devices, NEW remote, StatusOK(d, remote)
  PROVE  IInv'
<1>1. TypeOK /\ op[d] \in Operations /\ op' = [op EXCEPT ![d] = op[d]]
  BY TypeFacts DEF IInv, TypeOK, StatusOK
<1>2. mem[d] = disk[d] BY CopyFacts DEF StatusOK, Ahead
<1> DEFINE p == IF mem[d].pending # 0 THEN "post" ELSE "sync"
<1>3. /\ p \in Phases /\ pc'[d] = p /\ mem'[d] = mem[d] /\ disk'[d] = disk[d]
      /\ pc' = [pc EXCEPT ![d] = p]
      /\ UNCHANGED <<commits, envs, journal, refused, wire, disk, mem>>
  BY <1>1 DEF StatusOK, Goto, Phases, TypeOK
<1>4. CopySound(d)' BY <1>2, <1>3 DEF CopySound, Ahead
<1>5. PhaseSound(d)' BY <1>3 DEF PhaseSound, Ahead
<1> HIDE DEF p
<1> QED BY <1>1, <1>3, <1>4, <1>5, GotoInv

LEMMA PostAcceptedInv ==
  ASSUME IInv, NEW d \in Devices, PostAccepted(d)
  PROVE  IInv'
<1>1. TypeOK /\ op[d] \in Operations /\ op' = [op EXCEPT ![d] = op[d]]
  BY TypeFacts DEF IInv, TypeOK, PostAccepted
<1>2. mem[d] = disk[d] BY CopyFacts DEF PostAccepted, Ahead
<1>3. /\ "sync" \in Phases /\ pc'[d] = "sync" /\ mem'[d] = mem[d] /\ disk'[d] = disk[d]
      /\ pc' = [pc EXCEPT ![d] = "sync"]
      /\ UNCHANGED <<commits, envs, journal, refused, wire, disk, mem>>
  BY <1>1 DEF PostAccepted, Goto, Phases, TypeOK
<1>4. CopySound(d)' BY <1>2, <1>3 DEF CopySound, Ahead
<1>5. mem'[d].pending \in Published' BY <1>3 DEF PostAccepted, Published, RosterRow
<1>6. PhaseSound(d)' BY <1>3, <1>5 DEF PhaseSound, Ahead
<1> QED BY <1>1, <1>3, <1>4, <1>6, GotoInv

(* A commit that was published is merged when the journal has been read. *)
LEMMA SyncDoneInv ==
  ASSUME IInv, NEW d \in Devices, SyncDone(d)
  PROVE  IInv'
<1>1. TypeOK /\ op[d] \in Operations /\ op' = [op EXCEPT ![d] = op[d]]
  BY TypeFacts DEF IInv, TypeOK, SyncDone
<1>2. mem[d] = disk[d] /\ StateSound(d, mem[d]) BY CopyFacts DEF SyncDone, Ahead
<1>3. /\ "check" \in Phases /\ pc'[d] = "check" /\ mem'[d] = mem[d] /\ disk'[d] = disk[d]
      /\ pc' = [pc EXCEPT ![d] = "check"]
      /\ UNCHANGED <<commits, envs, journal, refused, wire, disk, mem>>
  BY <1>1 DEF SyncDone, Goto, Phases, TypeOK
<1>4. CopySound(d)' BY <1>2, <1>3 DEF CopySound, Ahead
<1>5. mem[d].pending = 0
  <2>1. SUFFICES ASSUME mem[d].pending # 0 PROVE FALSE OBVIOUS
  <2>2. mem[d].pending \in Published BY <2>1 DEF IInv, PhaseSound, SyncDone
  <2>3. \E n \in 1..Len(journal) : journal[n] = RosterRow(mem[d].pending)
    BY <1>1, <2>2, JournalFacts
  <2>4. Passed(mem[d], RosterRow(mem[d].pending)) BY <2>3 DEF Passed, SyncDone
  <2> QED BY <1>2, <2>1, <2>4 DEF StateSound
<1>6. PhaseSound(d)' BY <1>3, <1>5 DEF PhaseSound, Ahead
<1> QED BY <1>1, <1>3, <1>4, <1>6, GotoInv

LEMMA CheckInv ==
  ASSUME IInv, NEW d \in Devices, NEW r \in Published, Check(d, r)
  PROVE  IInv'
<1> DEFINE m == Observed(mem[d], r)
<1>1. TypeOK /\ mem[d] = disk[d] /\ mem[d].pending = 0
  BY CopyFacts DEF Check, Ahead, IInv, PhaseSound
<1>2. /\ mem[d] \in CryptoState /\ StateSound(d, disk[d]) /\ Kept(disk[d], disk[d])
      /\ Like(mem[d], mem[d])
  BY CopyFacts, KeptSame, LikeSame
<1>3. /\ m \in CryptoState /\ m.seen = r /\ m.active = r /\ m.outbox = mem[d].outbox
      /\ Like(mem[d], m)
  BY <1>1, <1>2, ObservedFacts
<1>4. /\ UNCHANGED <<commits, envs, journal, refused, wire>>
      /\ \/ /\ RosterAccepted(mem[d], r) /\ m.joined
            /\ Work(d, m) /\ Goto(d, "ready") /\ UNCHANGED <<disk, op>>
         \/ Finish(d, m)
         \/ Finish(d, mem[d])
  BY DEF Check
<1>5. CASE Finish(d, m) \/ Finish(d, mem[d])
  <2> HIDE DEF m
  <2> QED BY <1>2, <1>3, <1>4, <1>5, FinishInv
<1>6. CASE /\ RosterAccepted(mem[d], r) /\ m.joined
           /\ Work(d, m) /\ Goto(d, "ready") /\ UNCHANGED <<disk, op>>
  <2>1. m = [disk[d] EXCEPT !.seen = m.seen, !.active = m.active, !.outbox = m.outbox]
    <3>1. m = [disk[d] EXCEPT !.seen = r, !.active = r] BY <1>1 DEF Observed
    <3>2. [disk[d] EXCEPT !.seen = r, !.active = r]
            = [disk[d] EXCEPT !.seen = r, !.active = r, !.outbox = disk[d].outbox]
      BY <1>1, <1>2 DEF CryptoState
    <3> HIDE DEF m
    <3> QED BY <1>1, <1>3, <3>1, <3>2
  <2> HIDE DEF m
  <2>2. r \in 1..Len(commits) BY DEF Published
  <2>3. EpochOf(disk[d].seen) <= EpochOf(r) 
    <3>1. disk[d].seen \in 0..Len(commits) BY <1>1, <1>2, TypeFacts DEF StateSound
    <3>2. EpochOf(disk[d].seen) \in Nat /\ EpochOf(r) \in Nat BY <1>1, <2>2, <3>1, EpochFacts
    <3> QED BY <1>1, <1>6, <3>2 DEF RosterAccepted
  <2>4. /\ disk' = [disk EXCEPT ![d] = disk[d]] /\ mem' = [mem EXCEPT ![d] = m]
        /\ pc' = [pc EXCEPT ![d] = "ready"] /\ op' = [op EXCEPT ![d] = op[d]]
        /\ op[d] \in Operations
    BY <1>1, <1>6, TypeFacts DEF TypeOK, Work, Goto
  <2>5. disk'[d] = disk[d] /\ mem'[d] = m /\ pc'[d] = "ready"
    BY <1>1, <2>4 DEF TypeOK
  <2>6. EpochOf(disk[d].seen)' <= EpochOf(mem[d].seen)'
    BY <1>3, <1>4, <2>3, <2>5 DEF EpochOf
  <2>7. CopySound(d)'
    BY <1>1, <1>3, <1>4, <1>6, <2>1, <2>2, <2>5, <2>6 DEF CopySound, Ahead
  <2>8. m.pending = 0 BY <1>1, <1>3 DEF Like
  <2>9. PhaseSound(d)' BY <2>5, <2>8 DEF PhaseSound, Ahead
  <2>10. "ready" \in Phases BY DEF Phases
  <2> QED BY <1>1, <1>2, <1>3, <1>4, <2>4, <2>7, <2>9, <2>10, QuietStep
<1> QED BY <1>4, <1>5, <1>6

LEMMA RetryInv ==
  ASSUME IInv, NEW d \in Devices, NEW k \in Keys, Retry(d, k)
  PROVE  IInv'
<1>1. TypeOK /\ CopySound(d) /\ PhaseSound(d) BY DEF IInv
<1>2. /\ k \in Operations /\ "saved" \in Phases
      /\ op' = [op EXCEPT ![d] = k] /\ pc' = [pc EXCEPT ![d] = "saved"]
      /\ UNCHANGED <<commits, envs, journal, refused, wire, disk, mem>>
  BY DEF Retry, Goto, Phases, Operations
<1>3. op'[d] = k /\ pc'[d] = "saved" BY <1>1, <1>2 DEF TypeOK
<1>4. CopySound(d)' BY <1>1, <1>2, <1>3 DEF CopySound, Ahead, Retry, EpochOf
<1>5. PhaseSound(d)' BY <1>1, <1>2, <1>3 DEF PhaseSound, Ahead, Retry
<1> QED BY <1>2, <1>4, <1>5, GotoInv

(* The envelope that is replaced is dead, and so are all before it. *)
LEMMA SendConflictInv ==
  ASSUME IInv, NEW d \in Devices, SendConflict(d)
  PROVE  IInv'
<1>1. TypeOK /\ CopySound(d) /\ PhaseSound(d) /\ Grows /\ pc[d] = "resent"
  BY UnchangedGrows DEF IInv, SendConflict
<1>2. /\ mem[d] \in CryptoState /\ disk[d] \in CryptoState /\ StateSound(d, disk[d])
      /\ Kept(disk[d], disk[d]) /\ mem[d].outbox = disk[d].outbox
      /\ disk[d].outbox \in [Keys -> 0..MaxEnvelopes]
  BY <1>1, CopyFacts, KeptSame, TypeFacts
<1>3. PICK k \in Keys : op[d] = k /\ Owner[k] = d BY <1>1 DEF PhaseSound
<1> DEFINE b == [disk[d].outbox EXCEPT ![k] = 0]
           m == [mem[d] EXCEPT !.outbox = b]
<1>4. b \in [Keys -> 0..MaxEnvelopes] BY <1>2, GroupAssumption
<1>5. /\ UNCHANGED <<commits, envs, journal, refused, wire, disk, op>>
      /\ mem' = [mem EXCEPT ![d] = m] /\ pc' = [pc EXCEPT ![d] = "rebuild"]
  BY <1>2, <1>3 DEF SendConflict, Work, Goto, CryptoState
<1>6. \A e \in 1..Len(envs) : envs[e].key = k => Dead(e)
  <2>1. SUFFICES ASSUME NEW e \in 1..Len(envs), envs[e].key = k PROVE Dead(e) OBVIOUS
  <2>2. EnvelopeSound(e) BY DEF IInv, EnvelopesSound
  <2>3. e = disk[d].outbox[k] \/ Dead(e) BY <1>3, <2>1, <2>2 DEF EnvelopeSound
  <2>4. SealedBy(d) = disk[d].outbox[k] BY <1>2, <1>3 DEF SealedBy
  <2> QED BY <2>3, <2>4 DEF SendConflict, Dead
<1> HIDE DEF b
<1>7. m \in CryptoState BY <1>2, <1>4 DEF CryptoState
<1>8. m = [disk[d] EXCEPT !.seen = m.seen, !.active = m.active, !.outbox = m.outbox]
  <2>1. mem[d] = [disk[d] EXCEPT !.seen = mem[d].seen, !.active = mem[d].active,
                                 !.outbox = mem[d].outbox]
    BY <1>1 DEF CopySound, Ahead
  <2> QED BY <1>2, <2>1 DEF CryptoState
<1>9. m.outbox = b /\ m.seen = mem[d].seen /\ m.active = mem[d].active
      /\ m.joined = mem[d].joined /\ m.pending = mem[d].pending
  BY <1>2 DEF CryptoState
<1> HIDE DEF m
<1>10. /\ disk' = [disk EXCEPT ![d] = disk[d]] /\ op' = [op EXCEPT ![d] = k]
       /\ k \in Operations /\ "rebuild" \in Phases
  BY <1>1, <1>3, <1>5 DEF TypeOK, Operations, Phases
<1>11. mem'[d] = m /\ disk'[d] = disk[d] /\ pc'[d] = "rebuild" /\ op'[d] = k
  BY <1>1, <1>3, <1>5 DEF TypeOK
<1>12. Published' = Published /\ Stored' = Stored
  BY <1>5 DEF Published, Stored, RosterRow, EnvelopeRow
<1>13. \A e \in 1..Len(envs) : Dead(e) => Dead(e)' BY <1>1, <1>12, DeadKept
<1>14. CopySound(d)'
  <2>1. /\ mem[d].seen \in 1..Len(commits) /\ mem[d].active \in 1..Len(commits)
        /\ mem[d].joined /\ EpochOf(disk[d].seen) <= EpochOf(mem[d].seen)
    BY <1>1 DEF CopySound, Ahead
  <2>2. EpochOf(disk[d].seen)' <= EpochOf(mem[d].seen)'
    BY <1>5, <1>9, <1>11, <2>1 DEF EpochOf
  <2>3. \A e \in 1..Len(envs') : envs'[e].key = op'[d] => Dead(e)'
    BY <1>5, <1>6, <1>11, <1>13
  <2> QED BY <1>5, <1>8, <1>9, <1>11, <2>1, <2>2, <2>3 DEF CopySound, Ahead, b
<1>15. PhaseSound(d)'
  BY <1>1, <1>3, <1>9, <1>11 DEF PhaseSound, Ahead
<1> QED BY <1>2, <1>5, <1>7, <1>10, <1>14, <1>15, QuietStep

LEMMA RestoreInv ==
  ASSUME IInv, NEW d \in Devices, NEW x \in Devices, Restore(d, x)
  PROVE  IInv'
<1>1. TypeOK /\ disk[x] \in CryptoState /\ mem[d] \in CryptoState /\ mem[d] = disk[d]
      /\ Like(mem[d], mem[d])
  BY CopyFacts, LikeSame DEF IInv, Restore, Ahead
<1> DEFINE m == [disk[d] EXCEPT !.archive = @ \cup disk[x].archive]
<1>2. /\ m \in CryptoState /\ m.outbox = mem[d].outbox /\ mem[d].archive \subseteq m.archive
      /\ m.group = mem[d].group /\ m.gen = mem[d].gen /\ m.joined = mem[d].joined
      /\ m.pending = mem[d].pending /\ m.sync = mem[d].sync /\ m.consumed = mem[d].consumed
      /\ m.rejected = mem[d].rejected /\ m.seen = mem[d].seen /\ m.active = mem[d].active
  BY <1>1 DEF CryptoState
<1>3. Finish(d, m) /\ UNCHANGED <<commits, envs, journal, refused, wire>>
  BY DEF Restore, Backup
<1> HIDE DEF m
<1>4. Like(mem[d], m) BY <1>1, <1>2 DEF Like
<1> QED BY <1>2, <1>3, <1>4, FinishInv

(* A post puts a row on the wire and moves on. *)
LEMMA PostInv ==
  ASSUME IInv, NEW d \in Devices, NEW p \in Phases, NEW row \in Row,
         pc' = [pc EXCEPT ![d] = p], wire' = wire \cup {row},
         UNCHANGED <<commits, envs, journal, refused, disk, mem, op>>,
         \/ row.kind = "roster" /\ row.id <= Len(commits) /\ row.id = disk[Creator].pending
         \/ row.kind = "envelope" /\ row.id <= Len(envs),
         CopySound(d)', PhaseSound(d)'
  PROVE  IInv'
<1>1. TypeOK /\ JournalSound /\ PostedKnown BY DEF IInv
<1>2. /\ disk[d] \in CryptoState /\ mem[d] \in CryptoState
      /\ StateSound(d, disk[d]) /\ Kept(disk[d], disk[d])
  BY CopyFacts, KeptSame
<1>3. /\ disk' = [disk EXCEPT ![d] = disk[d]] /\ mem' = [mem EXCEPT ![d] = mem[d]]
      /\ op' = [op EXCEPT ![d] = op[d]] /\ op[d] \in Operations
      /\ refused' \subseteq Rosters /\ wire' \subseteq Row
  BY <1>1, TypeFacts DEF TypeOK
<1>4. Published' = Published BY DEF Published, RosterRow
<1>5. /\ \A r \in Rosters : RosterRow(r) \in wire' =>
           r <= Len(commits) /\ (RosterRow(r) \in wire \/ r = disk[Creator].pending)
      /\ \A e \in Envelopes : EnvelopeRow(e) \in wire' => e <= Len(envs)
  BY <1>1, RowFacts DEF JournalSound
<1>6. JournalSound' BY <1>1, <1>4, <1>5 DEF JournalSound, RosterRow, EnvelopeRow
<1>7. PostedKnown' BY <1>1, <1>5 DEF PostedKnown, RosterRow, Passed
<1> QED BY <1>2, <1>3, <1>6, <1>7, LocalStep

LEMMA PostRosterInv ==
  ASSUME IInv, NEW d \in Devices, PostRoster(d)
  PROVE  IInv'
<1>1. TypeOK /\ mem[d] = disk[d] /\ StateSound(d, disk[d]) /\ disk[d] \in CryptoState
      /\ disk[d].pending # 0 /\ d = Creator
  BY CopyFacts DEF IInv, PostRoster, Ahead, PhaseSound, StateSound
<1>2. disk[d].pending \in 1..Len(commits)
  BY <1>1, TypeFacts DEF StateSound
<1>3. disk[d].pending \in Rosters BY <1>1, <1>2, EpochFacts
<1> DEFINE row == RosterRow(disk[d].pending)
<1>4. row \in Row /\ row.kind = "roster" /\ row.id = disk[d].pending BY <1>3, RowFacts
<1>5. /\ "posted" \in Phases /\ pc' = [pc EXCEPT ![d] = "posted"] /\ wire' = wire \cup {row}
      /\ UNCHANGED <<commits, envs, journal, refused, disk, mem, op>>
  BY <1>1 DEF PostRoster, Goto, Phases
<1>6. pc'[d] = "posted" /\ mem'[d] = mem[d] /\ disk'[d] = disk[d] BY <1>1, <1>5 DEF TypeOK
<1>7. CopySound(d)' BY <1>1, <1>6 DEF CopySound, Ahead
<1>8. PhaseSound(d)' BY <1>1, <1>6 DEF PhaseSound, Ahead
<1>9. row.id <= Len(commits) BY <1>1, <1>2, <1>4, TypeFacts
<1> HIDE DEF row
<1> QED BY <1>1, <1>4, <1>5, <1>7, <1>8, <1>9, PostInv

(* What is posted was sealed by the device, which knows it. *)
LEMMA SealedByFacts ==
  ASSUME IInv, NEW d \in Devices, pc[d] \in {"sealed", "saved"}
  PROVE  SealedBy(d) \in 1..Len(envs) /\ SealedBy(d) \in mem[d].consumed
<1>1. /\ TypeOK /\ mem[d] \in CryptoState /\ StateSound(d, mem[d]) /\ PhaseSound(d)
  BY CopyFacts DEF IInv
<1>2. SealedBy(d) \in mem[d].consumed
  <2>1. CASE op[d] \in Keys
    BY <1>1, <2>1 DEF PhaseSound, StateSound, SealedBy
  <2>2. CASE op[d] \notin Keys
    <3>1. \E e \in mem[d].consumed : envs[e].key = op[d] BY <1>1, <2>2 DEF PhaseSound
    <3> QED BY <2>2, <3>1 DEF SealedBy
  <2> QED BY <2>1, <2>2
<1>3. mem[d].consumed \subseteq Envelopes BY <1>1, TypeFacts
<1> HIDE DEF SealedBy
<1> QED BY <1>1, <1>2, <1>3, TypeFacts, GroupAssumption DEF StateSound, Envelopes

LEMMA PostEnvelopeInv ==
  ASSUME IInv, NEW d \in Devices, PostEnvelope(d)
  PROVE  IInv'
<1>1. TypeOK /\ CopySound(d) /\ PhaseSound(d) /\ pc[d] \in {"sealed", "saved"}
  BY DEF IInv, PostEnvelope
<1>2. PICK e \in 1..Len(envs) : e = SealedBy(d) BY <1>1, SealedByFacts
<1>3. e \in Envelopes BY <1>1, TypeFacts
<1> DEFINE row == EnvelopeRow(e)
           p == IF pc[d] = "sealed" THEN "sent" ELSE "resent"
<1>4. row \in Row /\ row.kind = "envelope" /\ row.id = e BY <1>3, RowFacts
<1>5. /\ p \in Phases /\ pc' = [pc EXCEPT ![d] = p] /\ wire' = wire \cup {row}
      /\ UNCHANGED <<commits, envs, journal, refused, disk, mem, op>>
  BY <1>2 DEF PostEnvelope, Goto, Phases
<1>6. pc'[d] = p /\ mem'[d] = mem[d] /\ disk'[d] = disk[d] /\ op'[d] = op[d]
  BY <1>1, <1>5 DEF TypeOK
<1>7. CopySound(d)' BY <1>1, <1>5, <1>6 DEF CopySound, Ahead, EpochOf
<1>8. PhaseSound(d)' BY <1>1, <1>5, <1>6 DEF PhaseSound, Ahead
<1>9. row.id <= Len(envs) BY <1>1, <1>4, TypeFacts
<1> HIDE DEF row, p
<1> QED BY <1>4, <1>5, <1>7, <1>8, <1>9, PostInv

LEMMA PostRefusedInv ==
  ASSUME IInv, NEW d \in Devices, PostRefused(d)
  PROVE  IInv'
<1>1. TypeOK /\ JournalSound /\ PostedKnown /\ mem[d] = disk[d] /\ StateSound(d, disk[d])
      /\ disk[d] \in CryptoState /\ disk[d].pending # 0 /\ d = Creator
  BY CopyFacts DEF IInv, PostRefused, Ahead, PhaseSound, StateSound
<1>2. disk[d].pending \in Rosters
  BY <1>1, TypeFacts, EpochFacts DEF StateSound
<1> DEFINE m == [disk[d] EXCEPT !.pending = 0]
<1>3. /\ m \in CryptoState /\ m.pending = 0 /\ m.outbox = disk[d].outbox
      /\ m.group = disk[d].group /\ m.gen = disk[d].gen /\ m.joined = disk[d].joined
      /\ m.sync = disk[d].sync /\ m.consumed = disk[d].consumed /\ m.archive = disk[d].archive
      /\ m.rejected = disk[d].rejected /\ m.seen = disk[d].seen /\ m.active = disk[d].active
  BY <1>1, GroupAssumption DEF CryptoState
<1>4. /\ Finish(d, m) /\ UNCHANGED <<commits, envs, journal, wire>>
      /\ refused' = refused \cup {disk[d].pending} /\ disk[d].pending \notin Published
  BY <1>1 DEF PostRefused
<1> HIDE DEF m
<1>5. \A row : Passed(m, row) <=> Passed(disk[d], row) BY <1>3 DEF Passed
<1>6. StateSound(d, m) BY <1>1, <1>3, <1>5, TypeFacts DEF StateSound
<1>7. disk[d].gen \in Nat /\ disk[d].sync \in Nat BY <1>1, TypeFacts
<1>8. Kept(disk[d], m) BY <1>3, <1>7 DEF Kept
<1>9. /\ disk' = [disk EXCEPT ![d] = m] /\ mem' = [mem EXCEPT ![d] = m]
      /\ pc' = [pc EXCEPT ![d] = "idle"] /\ op' = [op EXCEPT ![d] = "new"]
      /\ "idle" \in Phases /\ "new" \in Operations
  BY <1>4 DEF Finish, Save, Work, Goto, Phases, Operations
<1>10. disk'[d] = m /\ mem'[d] = m /\ pc'[d] = "idle" BY <1>1, <1>9 DEF TypeOK
<1>11. CopySound(d)' BY <1>10 DEF CopySound, Ahead
<1>12. PhaseSound(d)' BY <1>10 DEF PhaseSound, Ahead
<1>13. Published' = Published BY <1>4 DEF Published, RosterRow
<1>14. JournalSound' BY <1>1, <1>4, <1>13 DEF JournalSound, RosterRow, EnvelopeRow
<1>15. PostedKnown'
  <2>1. SUFFICES ASSUME NEW r \in Rosters, RosterRow(r) \in wire
                 PROVE  r \in refused' \/ Passed(m, RosterRow(r))
    BY <1>1, <1>4, <1>10 DEF PostedKnown, RosterRow, Passed
  <2> QED BY <1>1, <1>4, <1>5, <2>1 DEF PostedKnown
<1>16. refused' \subseteq Rosters /\ wire' \subseteq Row BY <1>1, <1>2, <1>4 DEF TypeOK
<1> QED BY <1>3, <1>4, <1>6, <1>8, <1>9, <1>11, <1>12, <1>14, <1>15, <1>16, LocalStep

-----------------------------------------------------------------------------
(***************************************************************************)
(* Reading the journal.                                                    *)
(***************************************************************************)
LEMMA SyncStep ==
  ASSUME IInv, NEW d \in Devices, pc[d] = "sync", NEW s \in CryptoState,
         StateSound(d, s), Kept(disk[d], s), s.pending \in {0, disk[d].pending},
         s.pending = disk[d].pending \/ Passed(s, RosterRow(disk[d].pending)),
         Save(d, s), UNCHANGED <<commits, envs, journal, refused, wire, pc, op>>
  PROVE  IInv'
<1>1. TypeOK /\ mem[d] = disk[d] /\ PhaseSound(d) BY CopyFacts DEF IInv, Ahead
<1>2. /\ disk' = [disk EXCEPT ![d] = s] /\ mem' = [mem EXCEPT ![d] = s]
      /\ pc' = [pc EXCEPT ![d] = "sync"] /\ op' = [op EXCEPT ![d] = op[d]]
      /\ op[d] \in Operations /\ "sync" \in Phases
  BY <1>1, TypeFacts DEF Save, Work, TypeOK, Phases
<1>3. disk'[d] = s /\ mem'[d] = s /\ pc'[d] = "sync" BY <1>1, <1>2 DEF TypeOK
<1>4. CopySound(d)' BY <1>3 DEF CopySound, Ahead
<1>5. Published' = Published BY DEF Published, RosterRow
<1>6. PhaseSound(d)' BY <1>1, <1>3, <1>5 DEF PhaseSound, Ahead
<1> QED BY <1>2, <1>4, <1>6, QuietStep

(* The row that follows the cursor: it was posted, and a roster row has not  *)
(* been read before.                                                         *)
LEMMA NextRow ==
  ASSUME IInv, NEW d \in Devices, NEW m \in CryptoState, m = disk[d],
         m.sync < Len(journal), NEW row, row = journal[m.sync + 1],
         NEW s \in CryptoState, s.sync = m.sync + 1
  PROVE  /\ row \in Row /\ s.sync <= Len(journal) /\ m.sync <= s.sync
         /\ \A x : Passed(s, x) <=> Passed(m, x) \/ x = row
         /\ row.kind = "roster" => row.id \in 1..Len(commits) /\ ~ Passed(m, row)
                                   /\ row = RosterRow(row.id)
         /\ row.kind = "envelope" => row.id \in 1..Len(envs) /\ row = EnvelopeRow(row.id)
<1>1. TypeOK /\ JournalSound /\ m.sync \in Nat /\ Len(journal) \in Nat
      /\ Len(commits) \in Nat /\ Len(envs) \in Nat
  BY TypeFacts DEF IInv
<1>2. m.sync + 1 \in 1..Len(journal) BY <1>1
<1>3. row \in Row /\ row \in wire BY <1>1, <1>2, TypeFacts DEF JournalSound
<1>4. s.sync <= Len(journal) /\ m.sync <= s.sync BY <1>1
<1>5. \A x : Passed(s, x) <=> Passed(m, x) \/ x = row
  <2>1. 1..s.sync = (1..m.sync) \cup {m.sync + 1} BY <1>1
  <2> QED BY <2>1 DEF Passed
<1>6. row.kind = "roster" => ~ Passed(m, row)
  <2>1. SUFFICES ASSUME row.kind = "roster", NEW n \in 1..m.sync, journal[n] = row PROVE FALSE
    BY DEF Passed
  <2>2. n \in 1..Len(journal) /\ n # m.sync + 1 BY <1>1
  <2> QED BY <1>1, <1>2, <2>1, <2>2 DEF JournalSound
<1>7. row.kind = "roster" => row.id \in Rosters /\ row = RosterRow(row.id)
  BY <1>3, RowFacts
<1>8. row.kind = "envelope" => row.id \in Envelopes /\ row = EnvelopeRow(row.id)
  BY <1>3, RowFacts
<1>9. row.kind = "roster" => row.id \in 1..Len(commits)
  BY <1>1, <1>3, <1>7, GroupAssumption DEF JournalSound, Rosters
<1>10. row.kind = "envelope" => row.id \in 1..Len(envs)
  BY <1>1, <1>3, <1>8, GroupAssumption DEF JournalSound, Envelopes
<1> QED BY <1>3, <1>4, <1>5, <1>6, <1>7, <1>8, <1>9, <1>10

LEMMA RosterRowInv ==
  ASSUME IInv, NEW d \in Devices, SyncRow(d), journal[mem[d].sync + 1].kind = "roster"
  PROVE  IInv'
<1>1. TypeOK /\ mem[d] = disk[d] BY CopyFacts DEF IInv, Ahead, SyncRow
<1>2. PICK m \in CryptoState : m = disk[d] /\ StateSound(d, m) BY CopyFacts
<1>3. PICK row : row = journal[m.sync + 1] /\ row.kind = "roster" BY <1>1, <1>2
<1>4. PICK r : r = row.id OBVIOUS
<1> DEFINE s == RosterRowDone(m, d, r)
<1>5. /\ m.sync < Len(journal) /\ Save(d, s) /\ pc[d] = "sync"
      /\ UNCHANGED <<commits, envs, journal, refused, wire, pc, op>>
  BY <1>1, <1>2, <1>3, <1>4 DEF SyncRow, Synced
<1>6. r \in 1..Len(commits)
  <2>1. m.sync + 1 \in 1..Len(journal) BY <1>1, <1>5, TypeFacts
  <2>2. row \in wire /\ row \in Row BY <1>1, <1>3, <2>1, TypeFacts DEF IInv, JournalSound
  <2>3. r \in Rosters /\ RosterRow(r) \in wire BY <1>3, <1>4, <2>2, RowFacts
  <2> QED BY <1>1, <2>3, TypeFacts, GroupAssumption DEF IInv, JournalSound, Rosters
<1>7. /\ r \in 0..MaxCommits /\ r # 0 /\ r \in Nat /\ m.sync \in Nat /\ m.gen \in Nat
      /\ m.pending \in 0..MaxCommits /\ Len(envs) \in Nat /\ 0 \in 0..MaxEnvelopes
      /\ 0 \in 0..MaxCommits
  BY <1>1, <1>6, TypeFacts, EpochFacts, GroupAssumption DEF Rosters, CryptoState
<1>8. d = Creator => d \in MembersOf(r) BY <1>6, <1>7 DEF IInv, RostersSound, MembersOf
<1>9. CASE d \in MembersOf(r)
  <2>1. s = [m EXCEPT !.group = r, !.gen = 0, !.joined = TRUE, !.active = r,
                 !.pending = IF m.pending = r THEN 0 ELSE m.pending,
                 !.sync = m.sync + 1]
    BY <1>9 DEF RosterRowDone
  <2>2. s \in CryptoState
    <3> DEFINE p == IF m.pending = r THEN 0 ELSE m.pending
               n == m.sync + 1
    <3>1. p \in 0..MaxCommits /\ n \in Nat BY <1>7
    <3>2. s = [m EXCEPT !.group = r, !.gen = 0, !.joined = TRUE, !.active = r,
                 !.pending = p, !.sync = n]
      BY <2>1
    <3> HIDE DEF s, p, n
    <3> QED BY <1>7, <3>1, <3>2 DEF CryptoState
  <2> HIDE DEF s
  <2>3. /\ s.group = r /\ s.gen = 0 /\ s.joined = TRUE /\ s.active = r
        /\ s.pending = (IF m.pending = r THEN 0 ELSE m.pending) /\ s.sync = m.sync + 1
        /\ s.seen = m.seen /\ s.outbox = m.outbox /\ s.consumed = m.consumed
        /\ s.archive = m.archive /\ s.rejected = m.rejected
    BY <2>1 DEF CryptoState
  <2>4. /\ s.sync <= Len(journal) /\ m.sync <= s.sync
        /\ \A x : Passed(s, x) <=> Passed(m, x) \/ x = row
        /\ ~ Passed(m, row) /\ row = RosterRow(r)
    BY <1>2, <1>3, <1>4, <1>5, <2>2, <2>3, NextRow
  <2>5. \A e : Passed(s, EnvelopeRow(e)) <=> Passed(m, EnvelopeRow(e)) BY <2>4, RowFacts
  <2>6. s.pending # 0 => d = Creator /\ ~ Passed(s, RosterRow(s.pending))
    BY <1>2, <2>3, <2>4, RowFacts DEF StateSound
  <2>7. StateSound(d, s)
    BY <1>1, <1>2, <1>6, <1>7, <2>3, <2>4, <2>5, <2>6, TypeFacts DEF StateSound
  <2>8. Kept(disk[d], s) BY <1>2, <2>3, <2>4 DEF Kept
  <2>9. s.pending = m.pending \/ Passed(s, RosterRow(m.pending)) BY <2>3, <2>4
  <2> QED BY <1>2, <1>5, <2>2, <2>3, <2>7, <2>8, <2>9, SyncStep
<1>10. CASE d \notin MembersOf(r)
  <2>1. s = [m EXCEPT !.active = r, !.sync = m.sync + 1] BY <1>10 DEF RosterRowDone
  <2>2. s \in CryptoState
    <3> DEFINE n == m.sync + 1
    <3>1. n \in Nat /\ s = [m EXCEPT !.active = r, !.sync = n] BY <1>7, <2>1
    <3> HIDE DEF s, n
    <3> QED BY <1>7, <3>1 DEF CryptoState
  <2> HIDE DEF s
  <2>3. /\ s.group = m.group /\ s.gen = m.gen /\ s.joined = m.joined /\ s.active = r
        /\ s.pending = m.pending /\ s.sync = m.sync + 1
        /\ s.seen = m.seen /\ s.outbox = m.outbox /\ s.consumed = m.consumed
        /\ s.archive = m.archive /\ s.rejected = m.rejected
    BY <2>1 DEF CryptoState
  <2>4. /\ s.sync <= Len(journal) /\ m.sync <= s.sync
        /\ \A x : Passed(s, x) <=> Passed(m, x) \/ x = row
        /\ ~ Passed(m, row) /\ row = RosterRow(r)
    BY <1>2, <1>3, <1>4, <1>5, <2>2, <2>3, NextRow
  <2>5. \A e : Passed(s, EnvelopeRow(e)) <=> Passed(m, EnvelopeRow(e)) BY <2>4, RowFacts
  <2>6. s.pending = 0 BY <1>2, <1>8, <1>10, <2>3 DEF StateSound
  <2>7. StateSound(d, s)
    BY <1>1, <1>2, <1>6, <1>7, <2>3, <2>4, <2>5, <2>6, TypeFacts DEF StateSound
  <2>8. Kept(disk[d], s) BY <1>2, <1>7, <2>3, <2>4 DEF Kept
  <2> QED BY <1>2, <1>5, <2>2, <2>3, <2>7, <2>8, SyncStep
<1> QED BY <1>9, <1>10

LEMMA EnvelopeRowInv ==
  ASSUME IInv, NEW d \in Devices, SyncRow(d), journal[mem[d].sync + 1].kind = "envelope"
  PROVE  IInv'
<1>1. TypeOK /\ mem[d] = disk[d] BY CopyFacts DEF IInv, Ahead, SyncRow
<1>2. PICK m \in CryptoState : m = disk[d] /\ StateSound(d, m) BY CopyFacts
<1>3. PICK row : row = journal[m.sync + 1] /\ row.kind = "envelope" BY <1>1, <1>2
<1>4. PICK e : e = row.id OBVIOUS
<1> DEFINE s == EnvelopeRowDone(m, d, e)
<1>5. /\ m.sync < Len(journal) /\ Save(d, s) /\ pc[d] = "sync" /\ EnvelopeRowOK(m, d, e)
      /\ UNCHANGED <<commits, envs, journal, refused, wire, pc, op>>
  BY <1>1, <1>2, <1>3, <1>4 DEF SyncRow, Synced, SyncOK
<1>6. e \in 1..Len(envs) /\ e \in Envelopes /\ envs[e].roster = m.active
  <2>1. m.sync + 1 \in 1..Len(journal) BY <1>1, <1>5, TypeFacts
  <2>2. row \in wire /\ row \in Row BY <1>1, <1>3, <2>1, TypeFacts DEF IInv, JournalSound
  <2>3. e \in Envelopes /\ EnvelopeRow(e) \in wire BY <1>3, <1>4, <2>2, RowFacts
  <2>4. e \in 1..Len(envs)
    BY <1>1, <2>3, TypeFacts, GroupAssumption DEF IInv, JournalSound, Envelopes
  <2> QED BY <1>5, <2>3, <2>4 DEF EnvelopeRowOK, EnvelopeValid
<1>7. m.sync \in Nat /\ m.gen \in Nat BY <1>1, TypeFacts
<1>8. /\ s \in CryptoState
      /\ s.group = m.group /\ s.gen = m.gen /\ s.joined = m.joined /\ s.active = m.active
      /\ s.pending = m.pending /\ s.sync = m.sync + 1
      /\ s.seen = m.seen /\ s.outbox = m.outbox
      /\ \/ /\ s.consumed = m.consumed /\ s.archive = m.archive /\ s.rejected = m.rejected
            /\ d \notin MembersOf(m.active) \/ e \in m.consumed
         \/ /\ s.consumed = m.consumed /\ s.archive = m.archive
            /\ s.rejected = m.rejected \cup {e}
         \/ /\ s.consumed = m.consumed \cup {e} /\ s.archive = m.archive \cup {e}
            /\ s.rejected = m.rejected
         \/ /\ s.consumed = m.consumed \cup {e} /\ s.archive = m.archive
            /\ s.rejected = m.rejected
            /\ ~ InScope(m.active, d, envs[e].key)
  <2> DEFINE next == [m EXCEPT !.sync = m.sync + 1]
  <2>1. \/ s = next /\ (d \notin MembersOf(m.active) \/ e \in m.consumed)
        \/ s = [next EXCEPT !.rejected = @ \cup {e}]
        \/ s = [next EXCEPT !.consumed = @ \cup {e}, !.archive = @ \cup {e}]
        \/ s = [next EXCEPT !.consumed = @ \cup {e}] /\ ~ InScope(m.active, d, envs[e].key)
    BY DEF EnvelopeRowDone, Quarantined, Archived
  <2>2. /\ next \in CryptoState
        /\ next.group = m.group /\ next.gen = m.gen /\ next.joined = m.joined
        /\ next.active = m.active /\ next.pending = m.pending /\ next.sync = m.sync + 1
        /\ next.seen = m.seen /\ next.outbox = m.outbox /\ next.consumed = m.consumed
        /\ next.archive = m.archive /\ next.rejected = m.rejected
    BY <1>7 DEF CryptoState
  <2> HIDE DEF s, next
  <2>3. CASE s = next /\ (d \notin MembersOf(m.active) \/ e \in m.consumed)
    BY <2>2, <2>3
  <2>4. CASE s = [next EXCEPT !.rejected = @ \cup {e}]
    BY <1>6, <2>2, <2>4 DEF CryptoState
  <2>5. CASE s = [next EXCEPT !.consumed = @ \cup {e}, !.archive = @ \cup {e}]
    BY <1>6, <2>2, <2>5 DEF CryptoState
  <2>6. CASE s = [next EXCEPT !.consumed = @ \cup {e}] /\ ~ InScope(m.active, d, envs[e].key)
    BY <1>6, <2>2, <2>6 DEF CryptoState
  <2> QED BY <2>1, <2>3, <2>4, <2>5, <2>6
<1> HIDE DEF s
<1>9. /\ s.sync <= Len(journal) /\ m.sync <= s.sync
      /\ \A x : Passed(s, x) <=> Passed(m, x) \/ x = row
      /\ row = EnvelopeRow(e)
  BY <1>2, <1>3, <1>4, <1>5, <1>8, NextRow
<1>10. \A r : Passed(s, RosterRow(r)) <=> Passed(m, RosterRow(r)) BY <1>9, RowFacts
<1>11. \A f : Passed(s, EnvelopeRow(f)) <=> Passed(m, EnvelopeRow(f)) \/ f = e
  BY <1>9, RowFacts
<1>12. \A f \in s.consumed :
         /\ f <= Len(envs)
         /\ f \in s.archive \/ ~ InScope(envs[f].roster, d, envs[f].key)
  BY <1>1, <1>2, <1>6, <1>8, TypeFacts DEF StateSound
<1>13. \A f \in 1..Len(envs) :
         /\ Passed(s, EnvelopeRow(f)) /\ d \in MembersOf(envs[f].roster)
         /\ InScope(envs[f].roster, d, envs[f].key)
         => f \in s.archive \cup s.rejected
  BY <1>2, <1>6, <1>8, <1>11 DEF StateSound
<1>14. StateSound(d, s)
  BY <1>2, <1>8, <1>9, <1>10, <1>12, <1>13 DEF StateSound
<1>15. Kept(disk[d], s) BY <1>2, <1>7, <1>8, <1>9 DEF Kept
<1> QED BY <1>2, <1>5, <1>8, <1>14, <1>15, SyncStep

-----------------------------------------------------------------------------
(***************************************************************************)
(* Signing a roster and sealing an envelope.                               *)
(***************************************************************************)
LEMMA Appended ==
  ASSUME NEW S, NEW s \in Seq(S), NEW x \in S
  PROVE  /\ Append(s, x) \in Seq(S) /\ Len(Append(s, x)) = Len(s) + 1 /\ Len(s) \in Nat
         /\ \A n \in 1..Len(s) : Append(s, x)[n] = s[n]
         /\ Append(s, x)[Len(s) + 1] = x
OBVIOUS

(* The creator signs roster c and stages it in the saved state s. *)
LEMMA SignStep ==
  ASSUME IInv, NEW c \in Roster, NEW s \in CryptoState, NEW o \in Operations,
         Len(commits) < MaxCommits, commits' = Append(commits, c),
         c.epoch <= Len(commits) + 1, Creator \in c.members,
         disk' = [disk EXCEPT ![Creator] = s], mem' = [mem EXCEPT ![Creator] = s],
         pc' = [pc EXCEPT ![Creator] = "post"], op' = [op EXCEPT ![Creator] = o],
         UNCHANGED <<envs, journal, refused, wire>>,
         disk[Creator].pending = 0, s.pending = Len(commits) + 1,
         NEW m \in CryptoState, StateSound(Creator, m), Kept(disk[Creator], m),
         s.seen = m.seen, s.active = m.active, s.group = m.group, s.group # 0,
         s.gen = m.gen, s.joined = m.joined, s.sync = m.sync, s.outbox = m.outbox,
         s.consumed = m.consumed, s.archive = m.archive, s.rejected = m.rejected
  PROVE  IInv'
<1>1. TypeOK /\ RostersSound /\ JournalSound /\ PostedKnown BY DEF IInv
<1>2. /\ commits' \in Seq(Roster) /\ Len(commits') = Len(commits) + 1
      /\ Len(commits) \in Nat /\ commits'[Len(commits) + 1] = c
      /\ \A n \in 1..Len(commits) : commits'[n] = commits[n]
  BY <1>1, Appended DEF TypeOK
<1>3. Grows BY <1>1, <1>2 DEF Grows, TypeOK
<1>4. Published' = Published
  <2>1. Len(commits) + 1 \in Rosters BY <1>2, GroupAssumption DEF Rosters
  <2>2. RosterRow(Len(commits) + 1) \notin Range(journal)
    BY <1>1, <1>2, <2>1, InRange DEF TypeOK, JournalSound
  <2>3. 1..Len(commits') = (1..Len(commits)) \cup {Len(commits) + 1} BY <1>2
  <2> QED BY <2>2, <2>3 DEF Published, RosterRow
<1>5. Stored' = Stored BY DEF Stored, EnvelopeRow
<1>6. \A e \in 1..Len(envs) : Dead(e) => Dead(e)' BY <1>3, <1>4, <1>5, DeadKept
<1>7. RostersSound'
  <2>1. \A r \in Published : EpochOf(r)' = EpochOf(r)
    BY <1>2, <1>3, GrowsFacts DEF Published
  <2>2. \A r \in 1..Len(commits') :
          commits'[r].epoch <= r /\ Creator \in commits'[r].members
    BY <1>1, <1>2 DEF RostersSound
  <2> QED BY <1>1, <1>4, <2>1, <2>2 DEF RostersSound
<1>8. JournalSound'
  <2>1. \A r \in Rosters : RosterRow(r) \in wire => r <= Len(commits')
    BY <1>1, <1>2, GroupAssumption DEF JournalSound, Rosters
  <2> QED BY <1>1, <1>4, <2>1 DEF JournalSound, RosterRow, EnvelopeRow
<1>9. SealedApart' BY DEF IInv, SealedApart
<1>10. /\ disk'[Creator] = s /\ mem'[Creator] = s /\ pc'[Creator] = "post"
       /\ \A x \in Devices : x # Creator =>
            disk'[x] = disk[x] /\ mem'[x] = mem[x] /\ pc'[x] = pc[x] /\ op'[x] = op[x]
  BY <1>1, GroupAssumption DEF TypeOK
<1>11. TypeOK'
  BY <1>1, <1>2, GroupAssumption DEF TypeOK, Operations, Phases
<1>12. \A row : Passed(s, row) <=> Passed(m, row) BY DEF Passed
<1>13. Kept(disk[Creator], s) BY DEF Kept
<1>14. m.sync \in Nat /\ m.sync <= Len(journal) BY <1>1, TypeFacts DEF StateSound
<1>15. EnvelopesSound'
  <2>1. \A x \in Devices : Kept(disk[x], disk'[x]) /\ disk'[x] \in CryptoState
                             /\ disk'[x].sync <= Len(journal')
    <3>1. \A x \in Devices : disk[x].sync <= Len(journal) BY DEF IInv, StateSound
    <3> QED BY <1>1, <1>10, <1>13, <1>14, <3>1, KeptSame, TypeFacts
  <2>2. \A e \in 1..Len(envs) : envs[e].sender \in Devices BY <1>1, TypeFacts DEF Envelope
  <2>3. \A e \in 1..Len(envs) : EnvelopeSound(e)' BY <1>3, <1>6, <2>1, <2>2, EnvelopeKept
  <2> QED BY <2>3 DEF EnvelopesSound
<1>16. StateSound(Creator, disk[Creator])'
  <2>1. ~ Passed(s, RosterRow(s.pending))
    <3>1. SUFFICES ASSUME NEW n \in 1..m.sync, journal[n] = RosterRow(Len(commits) + 1)
                   PROVE  FALSE
      BY <1>12 DEF Passed
    <3>2. n \in 1..Len(journal) BY <1>1, <1>14, TypeFacts
    <3>3. Len(commits) + 1 \in Rosters BY <1>2, GroupAssumption DEF Rosters
    <3> QED BY <1>1, <1>2, <3>1, <3>2, <3>3 DEF JournalSound
  <2>2. /\ m.seen \in Nat /\ m.active \in Nat /\ m.seen <= Len(commits)
        /\ m.active <= Len(commits)
    BY <1>1, TypeFacts DEF StateSound
  <2>3. \A e \in 1..Len(envs) : envs[e].roster \in 1..Len(commits)
    BY DEF IInv, EnvelopesSound, EnvelopeSound, Published
  <2>4. \A e \in 1..Len(envs) : /\ MembersOf(envs[e].roster)' = MembersOf(envs[e].roster)
                                /\ RoomOf(envs[e].roster)' = RoomOf(envs[e].roster)
    BY <1>2, <2>3 DEF MembersOf, RoomOf
  <2>5. \A e \in m.consumed : e \in 1..Len(envs)
    BY <1>1, TypeFacts, GroupAssumption DEF StateSound, Envelopes
  <2>6. \A row : Passed(s, row)' <=> Passed(s, row) BY DEF Passed
  <2>7. /\ s.seen <= Len(commits') /\ s.active <= Len(commits')
        /\ s.pending <= Len(commits') /\ s.gen <= Len(envs') /\ s.sync <= Len(journal')
        /\ s.joined => Passed(s, RosterRow(s.group))'
        /\ ~ Passed(s, RosterRow(s.pending))'
    BY <1>2, <1>12, <2>1, <2>2, <2>6 DEF StateSound
  <2>8. /\ \A k \in Keys : s.outbox[k] # 0 =>
             s.outbox[k] \in s.consumed /\ envs'[s.outbox[k]].key = k
        /\ \A e \in s.consumed :
             /\ e <= Len(envs')
             /\ e \in s.archive \/ ~ InScope(envs[e].roster, Creator, envs[e].key)'
    BY <2>4, <2>5 DEF StateSound, InScope
  <2>9. \A e \in 1..Len(envs') :
          /\ Passed(s, EnvelopeRow(e))' /\ Creator \in MembersOf(envs[e].roster)'
          /\ InScope(envs[e].roster, Creator, envs[e].key)'
          => e \in s.archive \cup s.rejected
    BY <1>12, <2>4, <2>6 DEF StateSound, InScope
  <2>10. StateSound(Creator, s)' BY <2>7, <2>8, <2>9 DEF StateSound
  <2> QED BY <1>10, <2>10
<1>17. CopySound(Creator)' BY <1>10 DEF CopySound, Ahead
<1>18. PhaseSound(Creator)' BY <1>2, <1>10 DEF PhaseSound, Ahead
<1>19. ASSUME NEW x \in Devices, x # Creator
       PROVE  StateSound(x, disk[x])' /\ CopySound(x)' /\ PhaseSound(x)'
  <2>1. \A e \in 1..Len(envs') : ~ (e > Len(envs)) BY <1>1, TypeFacts
  <2> QED BY <1>3, <1>6, <1>10, <1>19, <2>1, OtherSound
<1>20. PostedKnown'
  <2>1. SUFFICES ASSUME NEW r \in Rosters, RosterRow(r) \in wire
                 PROVE  r \in refused \/ Passed(s, RosterRow(r))
    BY <1>10 DEF PostedKnown, RosterRow, Passed
  <2>2. r # 0 BY GroupAssumption DEF Rosters
  <2>3. r \in refused \/ Passed(disk[Creator], RosterRow(r)) BY <1>1, <2>1, <2>2 DEF PostedKnown
  <2>4. disk[Creator] \in CryptoState /\ disk[Creator].sync <= s.sync
    BY <1>1, <1>13, TypeFacts, GroupAssumption DEF Kept
  <2> QED BY <2>3, <2>4, PassedFurther
<1> QED BY <1>7, <1>8, <1>9, <1>11, <1>15, <1>16, <1>17, <1>18, <1>19, <1>20 DEF IInv

(* The first roster is signed by a creator that has no group, when there are *)
(* no rosters at all.                                                        *)
LEMMA CreateGroupInv ==
  ASSUME IInv, NEW remote, NEW policy, CreateGroup(remote, policy)
  PROVE  IInv'
<1>1. TypeOK /\ mem[Creator] = disk[Creator] /\ disk[Creator] \in CryptoState
      /\ StateSound(Creator, disk[Creator]) /\ Creator \in Devices
  BY CopyFacts, GroupAssumption DEF IInv, CreateGroup, Ahead
<1>2. commits = <<>> /\ Len(commits) = 0 BY <1>1 DEF CreateGroup, StateSound
<1> DEFINE m == [disk[Creator] EXCEPT !.group = 1]
           s == [m EXCEPT !.pending = 1]
           c == [epoch |-> 1, members |-> {Creator}, prev |-> 0, added |-> {Creator},
                 room |-> IF policy = "room" THEN {Creator} ELSE {}]
<1>3. 1 \in 0..MaxCommits /\ 0 \in 0..MaxCommits /\ 1 \in Rosters /\ Len(commits) < MaxCommits
  BY <1>2, GroupAssumption DEF Rosters
<1>4. LET b == disk[Creator] IN
      /\ m \in CryptoState /\ m.group = 1
      /\ m.pending = b.pending /\ m.outbox = b.outbox /\ m.gen = b.gen
      /\ m.joined = b.joined /\ m.sync = b.sync /\ m.consumed = b.consumed
      /\ m.archive = b.archive /\ m.rejected = b.rejected /\ m.seen = b.seen
      /\ m.active = b.active
  BY <1>1, <1>3 DEF CryptoState
<1>5. c \in Roster /\ c.epoch = 1 /\ c.members = {Creator}
  BY <1>1, <1>3 DEF Roster
<1>6. m.pending = 0 BY <1>1, <1>4 DEF CreateGroup, Uninitialized, CryptoState
<1>7. /\ UNCHANGED <<envs, journal, refused, wire>>
      /\ \/ commits' = Append(commits, c) /\ Save(Creator, s) /\ Goto(Creator, "post")
            /\ UNCHANGED op
         \/ Finish(Creator, m) /\ UNCHANGED commits
  BY <1>1 DEF CreateGroup
<1> HIDE DEF c, m
<1>8. /\ s \in CryptoState /\ s.pending = 1 /\ s.outbox = m.outbox /\ s.gen = m.gen
      /\ s.joined = m.joined /\ s.sync = m.sync /\ s.consumed = m.consumed
      /\ s.archive = m.archive /\ s.rejected = m.rejected /\ s.seen = m.seen
      /\ s.active = m.active /\ s.group = m.group
  BY <1>3, <1>4 DEF CryptoState
<1> HIDE DEF s
<1>9. \A r \in Rosters : ~ Passed(disk[Creator], RosterRow(r))
  <2>1. SUFFICES ASSUME NEW r \in Rosters, NEW n \in 1..disk[Creator].sync,
                        journal[n] = RosterRow(r)
                 PROVE  FALSE
    BY DEF Passed
  <2>2. n \in 1..Len(journal) BY <1>1, TypeFacts DEF StateSound
  <2>3. r <= 0 BY <1>2, <2>1, <2>2 DEF IInv, JournalSound
  <2> QED BY <2>3, GroupAssumption DEF Rosters
<1>10. ~ disk[Creator].joined
  <2>1. SUFFICES ASSUME disk[Creator].joined PROVE FALSE OBVIOUS
  <2>2. PICK n \in 1..disk[Creator].sync : journal[n] = RosterRow(disk[Creator].group)
    BY <1>1, <2>1 DEF StateSound, Passed
  <2>3. n \in 1..Len(journal) BY <1>1, TypeFacts DEF StateSound
  <2>4. disk[Creator].group \in Rosters BY <1>1, <2>2, <2>3, TypeFacts, RowFacts
  <2> QED BY <1>9, <2>2, <2>4 DEF Passed
<1>11. \A row : Passed(m, row) <=> Passed(disk[Creator], row) BY <1>4 DEF Passed
<1>12. StateSound(Creator, m)
  BY <1>1, <1>4, <1>6, <1>10, <1>11 DEF StateSound
<1>13. Kept(disk[Creator], m)
  BY <1>1, <1>3, <1>4, <1>9, TypeFacts DEF Kept
<1>14. CASE Finish(Creator, m) /\ UNCHANGED commits
  <2>1. /\ disk' = [disk EXCEPT ![Creator] = m] /\ mem' = [mem EXCEPT ![Creator] = m]
        /\ pc' = [pc EXCEPT ![Creator] = "idle"] /\ op' = [op EXCEPT ![Creator] = "new"]
    BY <1>14 DEF Finish, Save, Work, Goto
  <2>2. "idle" \in Phases /\ "new" \in Operations BY DEF Phases, Operations
  <2>3. disk'[Creator] = m /\ mem'[Creator] = m /\ pc'[Creator] = "idle"
    BY <1>1, <2>1 DEF TypeOK
  <2>4. CopySound(Creator)' BY <2>3 DEF CopySound, Ahead
  <2>5. PhaseSound(Creator)' BY <2>3 DEF PhaseSound, Ahead
  <2> QED BY <1>1, <1>4, <1>7, <1>12, <1>13, <1>14, <2>1, <2>2, <2>4, <2>5, QuietStep
<1>15. CASE /\ commits' = Append(commits, c) /\ Save(Creator, s) /\ Goto(Creator, "post")
            /\ UNCHANGED op
  <2>1. /\ disk' = [disk EXCEPT ![Creator] = s] /\ mem' = [mem EXCEPT ![Creator] = s]
        /\ pc' = [pc EXCEPT ![Creator] = "post"]
        /\ op' = [op EXCEPT ![Creator] = op[Creator]] /\ op[Creator] \in Operations
    BY <1>1, <1>15, TypeFacts DEF Save, Work, Goto, TypeOK
  <2>2. c.epoch <= Len(commits) + 1 /\ Creator \in c.members /\ s.pending = Len(commits) + 1
    BY <1>2, <1>5, <1>8
  <2>3. disk[Creator].pending = 0 /\ s.group # 0 BY <1>4, <1>6, <1>8
  <2> QED BY <1>3, <1>4, <1>5, <1>7, <1>8, <1>12, <1>13, <1>15, <2>1, <2>2, <2>3, SignStep
<1> QED BY <1>7, <1>14, <1>15

LEMMA ChangeInv ==
  ASSUME IInv, NEW members \in SUBSET Devices, NEW room \in SUBSET Devices,
         NEW then \in Operations, Change(Creator, members, room, then)
  PROVE  IInv'
<1>1. /\ TypeOK /\ Creator \in Devices /\ pc[Creator] = "ready"
      /\ mem[Creator] \in CryptoState /\ disk[Creator] \in CryptoState
      /\ StateSound(Creator, mem[Creator]) /\ Kept(disk[Creator], mem[Creator])
      /\ Like(disk[Creator], mem[Creator])
      /\ CopySound(Creator) /\ PhaseSound(Creator)
  BY CopyFacts, GroupAssumption DEF IInv, Change
<1>2. PICK m \in CryptoState : m = mem[Creator] BY <1>1
<1>3. /\ m.pending = 0 /\ disk[Creator].pending = 0 /\ m.joined
      /\ m.active \in 1..Len(commits)
  BY <1>1, <1>2 DEF CopySound, PhaseSound, Ahead, Like
<1> DEFINE n == Len(commits) + 1
           s == [m EXCEPT !.pending = n]
           c == [epoch |-> EpochOf(m.active) + 1, members |-> members, prev |-> m.active,
                 added |-> members \ MembersOf(m.active), room |-> room]
<1>4. /\ UNCHANGED <<envs, journal, refused, wire>> /\ n \in Rosters /\ Creator \in members
      /\ commits' = Append(commits, c) /\ Save(Creator, s) /\ Goto(Creator, "post")
      /\ op' = [op EXCEPT ![Creator] = then]
  BY <1>2 DEF Change
<1>5. Len(commits) \in Nat /\ Len(commits) < MaxCommits /\ n \in 0..MaxCommits
  BY <1>1, <1>4, TypeFacts, GroupAssumption DEF Rosters
<1>6. EpochOf(m.active) \in Nat /\ EpochOf(m.active) <= m.active
  BY <1>1, <1>3, EpochFacts DEF IInv, RostersSound
<1>7. EpochOf(m.active) + 1 \in Rosters /\ EpochOf(m.active) + 1 <= Len(commits) + 1
  BY <1>3, <1>5, <1>6, GroupAssumption DEF Rosters
<1>8. m.active \in 0..MaxCommits BY <1>3, <1>5, GroupAssumption
<1>9. c \in Roster /\ c.epoch <= Len(commits) + 1 /\ c.members = members
  BY <1>7, <1>8 DEF Roster
<1> HIDE DEF c, n
<1>10. /\ s \in CryptoState /\ s.pending = n /\ s.outbox = m.outbox /\ s.gen = m.gen
       /\ s.joined = m.joined /\ s.sync = m.sync /\ s.consumed = m.consumed
       /\ s.archive = m.archive /\ s.rejected = m.rejected /\ s.seen = m.seen
       /\ s.active = m.active /\ s.group = m.group
  BY <1>5 DEF CryptoState
<1> HIDE DEF s
<1>11. m.group # 0
  <2>1. PICK i \in 1..m.sync : journal[i] = RosterRow(m.group)
    BY <1>1, <1>2, <1>3 DEF StateSound, Passed
  <2>2. i \in 1..Len(journal) BY <1>1, <1>2, TypeFacts DEF StateSound
  <2>3. m.group \in Rosters BY <1>1, <2>1, <2>2, TypeFacts, RowFacts
  <2> QED BY <2>3, GroupAssumption DEF Rosters
<1>12. /\ disk' = [disk EXCEPT ![Creator] = s] /\ mem' = [mem EXCEPT ![Creator] = s]
       /\ pc' = [pc EXCEPT ![Creator] = "post"]
  BY <1>4 DEF Save, Work, Goto
<1>13. s.pending = Len(commits) + 1 BY <1>10 DEF n
<1> QED BY <1>1, <1>2, <1>3, <1>4, <1>5, <1>9, <1>10, <1>11, <1>12, <1>13, SignStep

LEMMA ChangeSteps ==
  ASSUME IInv, NEW x \in Devices, NEW b \in BOOLEAN, NEW then \in {"new", "last"},
         NEW room \in SUBSET Devices,
         \/ Admit(x, b) \/ Revoke(x) \/ Rotate(then) \/ RegisterRoom(room)
         \/ RoomMember(x, b)
  PROVE  IInv'
<1> DEFINE old == mem[Creator].active
<1>1. then \in Operations /\ {"new", "last"} \subseteq Operations BY DEF Operations
<1>2. pc[Creator] = "ready"
  BY DEF Admit, Revoke, Rotate, RegisterRoom, RoomMember, Change
<1>3. TypeOK /\ Creator \in Devices /\ CopySound(Creator) BY GroupAssumption DEF IInv
<1>4. old \in 1..Len(commits) BY <1>2, <1>3 DEF CopySound, Ahead
<1>5. MembersOf(old) \in SUBSET Devices /\ RoomOf(old) \in SUBSET Devices
  BY <1>3, <1>4, EpochFacts DEF MembersOf, RoomOf, Roster
<1> HIDE DEF old
<1>6. CASE Admit(x, b) BY <1>1, <1>5, <1>6, ChangeInv DEF Admit, old
<1>7. CASE Revoke(x) BY <1>1, <1>5, <1>7, ChangeInv DEF Revoke, old
<1>8. CASE Rotate(then) BY <1>1, <1>5, <1>8, ChangeInv DEF Rotate, old
<1>9. CASE RegisterRoom(room) BY <1>1, <1>3, <1>5, <1>9, ChangeInv DEF RegisterRoom, old
<1>10. CASE RoomMember(x, b) BY <1>1, <1>5, <1>10, ChangeInv DEF RoomMember, old
<1> QED BY <1>6, <1>7, <1>8, <1>9, <1>10

(* The state that is saved with a new envelope. *)
LEMMA SealedFacts ==
  ASSUME TypeOK, NEW m \in CryptoState, NEW k \in Keys \cup Files, NEW r \in Published,
         Len(envs) < MaxEnvelopes, m.gen <= Len(envs)
  PROVE  LET s == SealedState(m, k, r)  e == Len(envs) + 1 IN
         /\ s \in CryptoState
         /\ s.seen = r /\ s.active = r /\ s.gen = m.gen + 1
         /\ s.group = m.group /\ s.joined = m.joined /\ s.pending = m.pending
         /\ s.sync = m.sync /\ s.rejected = m.rejected
         /\ s.consumed = m.consumed \cup {e} /\ s.archive = m.archive \cup {e}
         /\ k \notin Keys => s.outbox = m.outbox
         /\ k \in Keys => s.outbox[k] = e /\ \A j \in Keys : j # k => s.outbox[j] = m.outbox[j]
<1>1. r \in Rosters BY EpochFacts DEF Published
<1>2. r \in 0..MaxCommits BY <1>1, GroupAssumption DEF Rosters
<1> DEFINE e == Len(envs) + 1
           g == m.gen + 1
           t == [m EXCEPT !.seen = r, !.active = r, !.consumed = @ \cup {e},
                          !.archive = @ \cup {e}, !.gen = g]
           u == [t EXCEPT !.outbox[k] = e]
<1>3. e \in Envelopes /\ e \in 0..MaxEnvelopes /\ g \in 0..MaxEnvelopes
  BY TypeFacts, GroupAssumption DEF Envelopes
<1>4. SealedState(m, k, r) = IF k \in Keys THEN u ELSE t
  BY DEF SealedState, Archived, Observed, CryptoState
<1> HIDE DEF e, g
<1>5. /\ t \in CryptoState
      /\ t.seen = r /\ t.active = r /\ t.gen = g
      /\ t.group = m.group /\ t.joined = m.joined /\ t.pending = m.pending
      /\ t.sync = m.sync /\ t.rejected = m.rejected
      /\ t.consumed = m.consumed \cup {e} /\ t.archive = m.archive \cup {e}
      /\ t.outbox = m.outbox
  BY <1>2, <1>3 DEF CryptoState
<1> HIDE DEF t
<1>6. ASSUME k \in Keys
      PROVE  /\ u \in CryptoState
             /\ u.seen = r /\ u.active = r /\ u.gen = g
             /\ u.group = m.group /\ u.joined = m.joined /\ u.pending = m.pending
             /\ u.sync = m.sync /\ u.rejected = m.rejected
             /\ u.consumed = m.consumed \cup {e} /\ u.archive = m.archive \cup {e}
             /\ u.outbox[k] = e /\ \A j \in Keys : j # k => u.outbox[j] = m.outbox[j]
  <2> DEFINE b == [t.outbox EXCEPT ![k] = e]
  <2>1. t.outbox \in [Keys -> 0..MaxEnvelopes] BY <1>5 DEF CryptoState
  <2>2. /\ b \in [Keys -> 0..MaxEnvelopes] /\ b[k] = e
        /\ \A j \in Keys : j # k => b[j] = m.outbox[j]
    BY <1>3, <1>5, <1>6, <2>1
  <2>3. u = [t EXCEPT !.outbox = b] BY <1>5 DEF CryptoState
  <2> HIDE DEF u, b
  <2>4. /\ u \in CryptoState
        /\ u.seen = t.seen /\ u.active = t.active /\ u.gen = t.gen
        /\ u.group = t.group /\ u.joined = t.joined /\ u.pending = t.pending
        /\ u.sync = t.sync /\ u.rejected = t.rejected
        /\ u.consumed = t.consumed /\ u.archive = t.archive /\ u.outbox = b
    BY <1>5, <2>2, <2>3 DEF CryptoState
  <2> QED BY <1>5, <2>2, <2>4
<1> HIDE DEF u
<1>7. CASE k \in Keys BY <1>4, <1>6, <1>7 DEF e, g
<1>8. CASE k \notin Keys BY <1>4, <1>5, <1>8 DEF e, g
<1> QED BY <1>7, <1>8

LEMMA SealInv ==
  ASSUME IInv, NEW d \in Devices, NEW k \in Keys \cup Files, NEW r \in Published,
         Seal(d, k, r)
  PROVE  IInv'
<1>1. /\ TypeOK /\ RostersSound /\ JournalSound /\ PostedKnown
      /\ CopySound(d) /\ PhaseSound(d) /\ pc[d] \in {"ready", "rebuild"}
      /\ mem[d] \in CryptoState /\ disk[d] \in CryptoState
      /\ StateSound(d, mem[d]) /\ Kept(disk[d], mem[d]) /\ Like(disk[d], mem[d])
  BY CopyFacts DEF IInv, Seal
<1>2. PICK m \in CryptoState : m = mem[d] BY <1>1
<1>a. PICK s, x, n : /\ s = SealedState(m, k, r) /\ x = EnvelopeOf(m, d, k, r)
                     /\ n = Len(envs) + 1
  OBVIOUS
<1>3. /\ UNCHANGED <<commits, journal, refused, wire>> /\ Len(envs) < MaxEnvelopes
      /\ envs' = Append(envs, x) /\ Save(d, s) /\ Goto(d, "sealed")
      /\ op' = [op EXCEPT ![d] = k] /\ Owner[k] = d /\ Fresh(m, k) /\ InScope(r, d, k)
  BY <1>2, <1>a DEF Seal
<1>4. /\ m.pending = 0 /\ m.joined /\ StateSound(d, m) /\ Kept(disk[d], m)
      /\ m.group = disk[d].group /\ m.gen = disk[d].gen /\ m.sync = disk[d].sync
      /\ m.consumed = disk[d].consumed /\ m.pending = disk[d].pending
  BY <1>1, <1>2 DEF CopySound, PhaseSound, Ahead, Like
<1>5. /\ m.gen \in Nat /\ m.sync \in Nat /\ m.sync <= Len(journal) /\ m.gen <= Len(envs)
      /\ Len(envs) \in Nat /\ Len(journal) \in Nat /\ Len(commits) \in Nat
  BY <1>1, <1>4, TypeFacts DEF StateSound
<1>6. /\ s \in CryptoState
      /\ s.seen = r /\ s.active = r /\ s.gen = m.gen + 1
      /\ s.group = m.group /\ s.joined = m.joined /\ s.pending = m.pending
      /\ s.sync = m.sync /\ s.rejected = m.rejected
      /\ s.consumed = m.consumed \cup {n} /\ s.archive = m.archive \cup {n}
      /\ k \notin Keys => s.outbox = m.outbox
      /\ k \in Keys => s.outbox[k] = n /\ \A j \in Keys : j # k => s.outbox[j] = m.outbox[j]
  BY <1>1, <1>3, <1>5, <1>a, SealedFacts
<1>7. m.group \in Rosters /\ Passed(m, RosterRow(m.group))
  <2>1. PICK i \in 1..m.sync : journal[i] = RosterRow(m.group)
    BY <1>4 DEF StateSound, Passed
  <2>2. i \in 1..Len(journal) BY <1>5
  <2> QED BY <1>1, <2>1, <2>2, TypeFacts, RowFacts DEF Passed
<1>8. r \in Rosters /\ r \in 1..Len(commits) BY <1>1, EpochFacts DEF Published
<1>9. m.gen + 1 \in 1..MaxEnvelopes /\ n \in Envelopes
  BY <1>3, <1>5, <1>a, GroupAssumption DEF Envelopes
<1>10. /\ x \in Envelope /\ x.key = k /\ x.sender = d /\ x.roster = r /\ x.group = m.group
       /\ x.gen = m.gen + 1
  BY <1>7, <1>8, <1>9, <1>a DEF EnvelopeOf, Envelope
<1>11. /\ envs' \in Seq(Envelope) /\ Len(envs') = n /\ envs'[n] = x
       /\ \A e \in 1..Len(envs) : envs'[e] = envs[e]
       /\ 1..Len(envs') = (1..Len(envs)) \cup {n} /\ n \notin 1..Len(envs)
  <2>1. /\ envs' \in Seq(Envelope) /\ Len(envs') = n /\ envs'[n] = x
        /\ \A e \in 1..Len(envs) : envs'[e] = envs[e]
    BY <1>1, <1>3, <1>10, <1>a, Appended DEF TypeOK
  <2> QED BY <1>5, <1>a, <2>1
<1>12. Grows BY <1>1, <1>3, <1>5, <1>11, <1>a DEF Grows, TypeOK
<1>13. Published' = Published BY <1>3 DEF Published, RosterRow
<1>14. Stored' = Stored
  <2>1. EnvelopeRow(n) \notin Range(journal)
    <3>1. SUFFICES ASSUME NEW i \in 1..Len(journal), journal[i] = EnvelopeRow(n) PROVE FALSE
      BY <1>1, InRange DEF TypeOK
    <3>2. n <= Len(envs) BY <1>1, <1>9, <3>1 DEF JournalSound
    <3> QED BY <1>5, <1>a, <3>2
  <2> QED BY <1>3, <1>11, <2>1 DEF Stored, EnvelopeRow
<1>15. \A e \in 1..Len(envs) : Dead(e) => Dead(e)' BY <1>12, <1>13, <1>14, DeadKept
<1>16. k \in Keys => \A e \in 1..Len(envs) : envs[e].key = k => Dead(e)
  <2>1. SUFFICES ASSUME k \in Keys, NEW e \in 1..Len(envs), envs[e].key = k PROVE Dead(e)
    OBVIOUS
  <2>2. EnvelopeSound(e) BY DEF IInv, EnvelopesSound
  <2>3. e = disk[d].outbox[k] \/ Dead(e) BY <1>3, <2>1, <2>2 DEF EnvelopeSound
  <2>4. CASE pc[d] = "ready"
    <3>1. m.outbox = disk[d].outbox BY <1>1, <1>2, <2>4 DEF CopySound, Ahead
    <3>2. disk[d].outbox[k] = 0 BY <1>3, <2>1, <3>1 DEF Fresh
    <3> QED BY <1>5, <2>3, <3>2
  <2>5. CASE pc[d] = "rebuild"
    <3>1. op[d] = k BY <2>5 DEF Seal
    <3> QED BY <1>1, <2>1, <2>5, <3>1 DEF CopySound
  <2> QED BY <1>1, <2>4, <2>5
<1>17. Kept(disk[d], s) BY <1>4, <1>5, <1>6, <1>16 DEF Kept
<1>18. /\ disk' = [disk EXCEPT ![d] = s] /\ mem' = [mem EXCEPT ![d] = s]
       /\ pc' = [pc EXCEPT ![d] = "sealed"]
  BY <1>3 DEF Save, Work, Goto
<1>19. /\ disk'[d] = s /\ mem'[d] = s /\ pc'[d] = "sealed" /\ op'[d] = k
       /\ \A y \in Devices : y # d =>
            disk'[y] = disk[y] /\ mem'[y] = mem[y] /\ pc'[y] = pc[y] /\ op'[y] = op[y]
  BY <1>1, <1>3, <1>18 DEF TypeOK
<1>20. TypeOK'
  <2>1. Len(envs') <= MaxEnvelopes BY <1>3, <1>5, <1>11, <1>a, GroupAssumption
  <2>2. disk' \in [Devices -> CryptoState] /\ mem' \in [Devices -> CryptoState]
    BY <1>1, <1>6, <1>18 DEF TypeOK
  <2>3. pc' \in [Devices -> Phases] BY <1>1, <1>18 DEF TypeOK, Phases
  <2>4. op' \in [Devices -> {"new", "last"} \cup Keys \cup Files] BY <1>1, <1>3 DEF TypeOK
  <2> QED BY <1>1, <1>3, <1>11, <2>1, <2>2, <2>3, <2>4 DEF TypeOK
<1>21. RostersSound' BY <1>1, <1>3, <1>13 DEF RostersSound, EpochOf
<1>22. JournalSound'
  <2>1. \A e \in Envelopes : EnvelopeRow(e) \in wire => e <= Len(envs')
    BY <1>1, <1>5, <1>11, <1>a, GroupAssumption DEF JournalSound, Envelopes
  <2> QED BY <1>1, <1>3, <1>13, <2>1 DEF JournalSound, RosterRow, EnvelopeRow
<1>23. EnvelopesSound'
  <2>1. \A y \in Devices : Kept(disk[y], disk'[y]) /\ disk'[y] \in CryptoState
                             /\ disk'[y].sync <= Len(journal')
    <3>1. \A y \in Devices : disk[y].sync <= Len(journal) BY DEF IInv, StateSound
    <3> QED BY <1>1, <1>3, <1>5, <1>6, <1>17, <1>19, <3>1, KeptSame, TypeFacts
  <2>2. \A e \in 1..Len(envs) : envs[e].sender \in Devices BY <1>1, TypeFacts DEF Envelope
  <2>3. \A e \in 1..Len(envs) : EnvelopeSound(e)' BY <1>12, <1>15, <2>1, <2>2, EnvelopeKept
  <2>4. EnvelopeSound(n)'
    <3>1. Passed(s, RosterRow(envs[n].group))'
      BY <1>3, <1>6, <1>7, <1>10, <1>11 DEF Passed, RosterRow
    <3>2. InScope(envs[n].roster, envs[n].sender, envs[n].key)'
      BY <1>3, <1>10, <1>11 DEF InScope, RoomOf
    <3>3. envs[n].gen' <= s.gen BY <1>5, <1>6, <1>10, <1>11
    <3> QED BY <1>3, <1>6, <1>10, <1>11, <1>13, <1>19, <3>1, <3>2, <3>3 DEF EnvelopeSound
  <2> QED BY <1>11, <2>3, <2>4 DEF EnvelopesSound
<1>24. SealedApart'
  <2>1. \A e \in 1..Len(envs) : envs[e].sender = d /\ envs[e].group = m.group =>
          envs[e].gen # m.gen + 1
    <3>1. SUFFICES ASSUME NEW e \in 1..Len(envs), envs[e].sender = d,
                          envs[e].group = m.group
                   PROVE  envs[e].gen # m.gen + 1
      OBVIOUS
    <3>2. EnvelopeSound(e) /\ envs[e].gen \in Nat
      BY <1>1, TypeFacts, GroupAssumption DEF IInv, EnvelopesSound, Envelope
    <3>3. envs[e].gen <= m.gen BY <1>4, <3>1, <3>2 DEF EnvelopeSound
    <3> QED BY <1>5, <3>2, <3>3
  <2>2. k \notin Keys => \A e \in 1..Len(envs) : envs[e].key # k
    BY <1>3 DEF Fresh
  <2>3. \A e \in 1..Len(envs) :
          /\ envs'[e] = envs[e]
          /\ envs[e].sender = x.sender /\ envs[e].group = x.group => envs[e].gen # x.gen
          /\ envs[e].key = x.key => x.key \in Keys
    BY <1>10, <1>11, <2>1, <2>2
  <2>4. \A e, f \in 1..Len(envs) : e # f =>
          /\ envs'[e].sender = envs'[f].sender /\ envs'[e].group = envs'[f].group =>
               envs'[e].gen # envs'[f].gen
          /\ envs'[e].key = envs'[f].key => envs'[e].key \in Keys
    BY <2>3 DEF IInv, SealedApart
  <2> QED BY <1>11, <2>3, <2>4 DEF SealedApart
<1>25. StateSound(d, disk[d])'
  <2>1. /\ s.seen <= Len(commits') /\ s.active <= Len(commits') /\ s.pending <= Len(commits')
        /\ s.gen <= Len(envs') /\ s.sync <= Len(journal')
    BY <1>3, <1>4, <1>5, <1>6, <1>8, <1>11, <1>a
  <2>2. \A row : Passed(s, row)' <=> Passed(m, row) BY <1>3, <1>6 DEF Passed
  <2>3. \A e \in m.consumed : e \in 1..Len(envs)
    BY <1>1, <1>4, TypeFacts, GroupAssumption DEF StateSound, Envelopes
  <2>4. \A j \in Keys : s.outbox[j] # 0 =>
          s.outbox[j] \in s.consumed /\ envs'[s.outbox[j]].key = j
    BY <1>4, <1>6, <1>10, <1>11, <2>3 DEF StateSound
  <2>5. \A e \in 1..Len(envs) :
          /\ MembersOf(envs[e].roster)' = MembersOf(envs[e].roster)
          /\ RoomOf(envs[e].roster)' = RoomOf(envs[e].roster)
          /\ envs'[e] = envs[e]
    BY <1>3, <1>11 DEF MembersOf, RoomOf
  <2>6. \A e \in s.consumed :
          /\ e <= Len(envs')
          /\ e \in s.archive \/ ~ InScope(envs[e].roster, d, envs[e].key)'
    <3>1. \A e \in m.consumed :
            e \in m.archive \/ ~ InScope(envs[e].roster, d, envs[e].key)'
      BY <1>4, <2>3, <2>5 DEF StateSound, InScope
    <3>2. \A e \in 1..Len(envs') : e <= Len(envs') BY <1>5, <1>11, <1>a
    <3> QED BY <1>6, <1>11, <2>3, <3>1, <3>2
  <2>7. \A e \in 1..Len(envs') :
          /\ Passed(s, EnvelopeRow(e))' /\ d \in MembersOf(envs[e].roster)'
          /\ InScope(envs[e].roster, d, envs[e].key)'
          => e \in s.archive \cup s.rejected
    <3>1. \A e \in 1..Len(envs) :
            /\ Passed(s, EnvelopeRow(e))' /\ d \in MembersOf(envs[e].roster)'
            /\ InScope(envs[e].roster, d, envs[e].key)'
            => e \in s.archive \cup s.rejected
      BY <1>4, <1>6, <2>2, <2>5 DEF StateSound, InScope
    <3> QED BY <1>6, <1>11, <3>1
  <2>8. /\ s.joined => Passed(s, RosterRow(s.group))'
        /\ d = Creator /\ s.group = 0 => commits' = <<>>
        /\ s.pending = 0
    BY <1>3, <1>4, <1>6, <1>7, <2>2 DEF StateSound
  <2>9. StateSound(d, s)' BY <2>1, <2>4, <2>6, <2>7, <2>8 DEF StateSound
  <2> QED BY <1>19, <2>9
<1>26. CopySound(d)' BY <1>19 DEF CopySound, Ahead
<1>27. PhaseSound(d)'
  <2>1. n # 0 /\ n \in s.consumed /\ envs'[n].key = k BY <1>5, <1>6, <1>10, <1>11, <1>a
  <2>2. mem'[d].pending = 0 /\ (k \in Keys => mem'[d].outbox[k] # 0) /\ n \in mem'[d].consumed
    BY <1>4, <1>6, <1>19, <2>1
  <2>3. op'[d] = k /\ pc'[d] = "sealed" /\ Owner[k] = d BY <1>3, <1>19
  <2> QED BY <2>1, <2>2, <2>3 DEF PhaseSound
<1>28. ASSUME NEW y \in Devices, y # d
       PROVE  StateSound(y, disk[y])' /\ CopySound(y)' /\ PhaseSound(y)'
  <2>1. \A e \in 1..Len(envs') : e > Len(envs) => Owner[envs'[e].key] # y
    BY <1>3, <1>5, <1>10, <1>11, <1>28
  <2> QED BY <1>3, <1>12, <1>15, <1>19, <1>28, <2>1, OtherSound
<1>29. PostedKnown'
  <2>1. disk'[Creator].pending = disk[Creator].pending /\ disk'[Creator].sync = disk[Creator].sync
    BY <1>4, <1>6, <1>19, GroupAssumption
  <2> QED BY <1>1, <1>3, <2>1 DEF PostedKnown, Passed, RosterRow
<1> QED BY <1>20, <1>21, <1>22, <1>23, <1>24, <1>25, <1>26, <1>27, <1>28, <1>29 DEF IInv

-----------------------------------------------------------------------------
(***************************************************************************)
(* The server accepts a row.                                               *)
(***************************************************************************)
LEMMA AppendGrows ==
  ASSUME TypeOK, NEW row \in Row, journal' = Append(journal, row),
         UNCHANGED <<commits, envs>>
  PROVE  /\ Grows /\ Len(journal') = Len(journal) + 1 /\ journal' \in Seq(Row)
         /\ 1..Len(journal') = (1..Len(journal)) \cup {Len(journal) + 1}
         /\ \A n \in 1..Len(journal) : journal'[n] = journal[n]
         /\ journal'[Len(journal) + 1] = row
         /\ \A x : x \in Range(journal') <=> x \in Range(journal) \/ x = row
<1>1. /\ Len(journal') = Len(journal) + 1 /\ journal' \in Seq(Row) /\ Len(journal) \in Nat
      /\ \A n \in 1..Len(journal) : journal'[n] = journal[n]
      /\ journal'[Len(journal) + 1] = row
  BY Appended DEF TypeOK
<1>2. Grows BY <1>1, TypeFacts DEF Grows, TypeOK
<1>3. 1..Len(journal') = (1..Len(journal)) \cup {Len(journal) + 1} BY <1>1
<1>4. /\ \A x : x \in Range(journal) <=> \E n \in 1..Len(journal) : journal[n] = x
      /\ \A x : x \in Range(journal') <=> \E n \in 1..Len(journal') : journal'[n] = x
  BY <1>1, InRange DEF TypeOK
<1> QED BY <1>1, <1>2, <1>3, <1>4

LEMMA AcceptStep ==
  ASSUME IInv, NEW row \in wire, journal' = Append(journal, row),
         UNCHANGED <<commits, envs, refused, wire, disk, mem, pc, op>>,
         \A e \in 1..Len(envs) : Dead(e) => Dead(e)',
         RostersSound', Published' \cap refused = {},
         row.kind = "roster" => row \notin Range(journal)
  PROVE  IInv'
<1>1. TypeOK /\ JournalSound /\ PostedKnown /\ row \in Row BY DEF IInv, TypeOK
<1>2. /\ Grows /\ Len(journal') = Len(journal) + 1 /\ journal' \in Seq(Row)
      /\ 1..Len(journal') = (1..Len(journal)) \cup {Len(journal) + 1}
      /\ \A n \in 1..Len(journal) : journal'[n] = journal[n]
      /\ journal'[Len(journal) + 1] = row
  BY <1>1, AppendGrows
<1>3. TypeOK' BY <1>1, <1>2 DEF TypeOK
<1>4. row.kind = "roster" => \A n \in 1..Len(journal) : journal[n] # row
  BY <1>1, InRange DEF TypeOK
<1>5. JournalSound'
  <2>1. \A m, n \in 1..Len(journal') :
          journal'[m] = journal'[n] /\ journal'[n].kind = "roster" => m = n
    BY <1>1, <1>2, <1>4 DEF JournalSound
  <2>2. \A n \in 1..Len(journal') : journal'[n] \in wire BY <1>1, <1>2 DEF JournalSound
  <2> QED BY <1>1, <2>1, <2>2 DEF JournalSound, RosterRow, EnvelopeRow
<1>6. \A x \in Devices : /\ disk[x] \in CryptoState /\ disk[x].sync \in Nat
                         /\ disk[x].sync <= Len(journal) /\ disk[x].sync <= Len(journal')
  <2>1. \A x \in Devices : disk[x].sync <= Len(journal) BY DEF IInv, StateSound
  <2> QED BY <1>1, <1>2, <2>1, TypeFacts
<1>7. EnvelopesSound'
  <2>1. \A e \in 1..Len(envs) : envs[e].sender \in Devices BY <1>1, TypeFacts DEF Envelope
  <2>2. \A e \in 1..Len(envs) : EnvelopeSound(e)'
    BY <1>2, <1>6, <2>1, KeptSame, EnvelopeKept
  <2> QED BY <2>2 DEF EnvelopesSound
<1>8. SealedApart' BY DEF IInv, SealedApart
<1>9. ASSUME NEW x \in Devices
      PROVE  StateSound(x, disk[x])' /\ CopySound(x)' /\ PhaseSound(x)'
  <2>1. \A e \in 1..Len(envs') : ~ (e > Len(envs)) BY <1>1, TypeFacts
  <2> QED BY <1>2, <2>1, OtherSound
<1>10. PostedKnown'
  <2>1. PICK m : m = disk[Creator] OBVIOUS
  <2>2. \A y : Passed(m, y)' <=> Passed(m, y)
    BY <1>2, <1>6, <2>1, GrowsFacts, GroupAssumption
  <2>3. \A y : Passed(disk[Creator], y)' <=> Passed(disk[Creator], y) BY <2>1, <2>2
  <2> QED BY <1>1, <2>3 DEF PostedKnown, RosterRow
<1> QED BY <1>3, <1>5, <1>7, <1>8, <1>9, <1>10 DEF IInv

(* A new roster is newer than all before it, so what was sealed under those  *)
(* and is not stored is dead.                                                *)
LEMMA AcceptRosterInv ==
  ASSUME IInv, NEW r \in 1..Len(commits), AcceptRoster(r)
  PROVE  IInv'
<1>1. TypeOK /\ RostersSound /\ JournalSound BY DEF IInv
<1>2. r \in Rosters /\ RosterRow(r) \in Row BY <1>1, EpochFacts, RowFacts
<1>3. /\ RosterRow(r) \in wire /\ r \notin Published /\ r \notin refused
      /\ EpochOf(r) = EpochOf(Current) + 1
      /\ journal' = Append(journal, RosterRow(r))
      /\ UNCHANGED <<commits, envs, refused, wire, disk, mem, pc, op>>
  BY DEF AcceptRoster
<1>4. Grows /\ \A x : x \in Range(journal') <=> x \in Range(journal) \/ x = RosterRow(r)
  BY <1>1, <1>2, <1>3, AppendGrows
<1>5. Published' = Published \cup {r}
  <2>1. \A s : RosterRow(s) \in Range(journal') <=> RosterRow(s) \in Range(journal) \/ s = r
    BY <1>4, RowFacts
  <2> QED BY <1>3, <2>1 DEF Published, RosterRow
<1>6. Stored' = Stored
  <2>1. \A e : EnvelopeRow(e) \in Range(journal') <=> EnvelopeRow(e) \in Range(journal)
    BY <1>4, RowFacts
  <2> QED BY <1>3, <2>1 DEF Stored, EnvelopeRow
<1>7. \A s : EpochOf(s)' = EpochOf(s) BY <1>3 DEF EpochOf
<1>8. \A s \in Published : EpochOf(s) \in Nat /\ EpochOf(s) < EpochOf(r)
  <2>1. \A s \in Published : EpochOf(s) \in Nat BY <1>1, EpochFacts DEF Published
  <2>2. SUFFICES ASSUME NEW s \in Published PROVE EpochOf(s) < EpochOf(r) BY <2>1
  <2>3. Current \in Published /\ EpochOf(s) <= EpochOf(Current)
    BY <1>1, <2>2, CurrentNewest
  <2> QED BY <1>3, <2>1, <2>3
<1>9. EpochOf(r) \in Nat BY <1>1, EpochFacts
<1>10. RostersSound'
  <2>1. \A s, t \in Published' : EpochOf(s) = EpochOf(t) => s = t
    BY <1>1, <1>5, <1>8, <1>9 DEF RostersSound
  <2>2. \A s \in Published' : EpochOf(s) <= EpochOf(r) BY <1>5, <1>8, <1>9
  <2> QED BY <1>1, <1>3, <1>5, <1>7, <2>1, <2>2 DEF RostersSound
<1>11. Current' = r
  <2>1. \E c \in Published' : \A s \in Published' : EpochOf(s)' <= EpochOf(c)'
    BY <1>5, <1>7, <1>8, <1>9
  <2>2. \E c \in Published' : c = Current' /\ \A s \in Published' : EpochOf(s)' <= EpochOf(c)'
    BY <1>5, <2>1 DEF Current
  <2>3. PICK c \in Published' : c = Current' /\ \A s \in Published' : EpochOf(s) <= EpochOf(c)
    BY <1>7, <2>2
  <2> QED BY <1>5, <1>8, <1>9, <2>3
<1>12. \A e \in 1..Len(envs) : Dead(e) => Dead(e)'
  <2>1. \A e \in 1..Len(envs) : envs[e].roster # r
    BY <1>3 DEF IInv, EnvelopesSound, EnvelopeSound
  <2> QED BY <1>3, <1>6, <1>11, <2>1 DEF Dead
<1>13. Published' \cap refused = {} BY <1>1, <1>3, <1>5 DEF JournalSound
<1>14. RosterRow(r) \notin Range(journal) BY <1>3 DEF Published
<1> QED BY <1>3, <1>10, <1>12, <1>13, <1>14, AcceptStep

LEMMA AcceptEnvelopeInv ==
  ASSUME IInv, NEW e \in 1..Len(envs), AcceptEnvelope(e)
  PROVE  IInv'
<1>1. TypeOK /\ RostersSound /\ JournalSound BY DEF IInv
<1>2. EnvelopeRow(e) \in Row BY <1>1, TypeFacts, RowFacts
<1>3. /\ EnvelopeRow(e) \in wire /\ envs[e].roster = Current
      /\ journal' = Append(journal, EnvelopeRow(e))
      /\ UNCHANGED <<commits, envs, refused, wire, disk, mem, pc, op>>
  BY DEF AcceptEnvelope
<1>4. Grows /\ \A x : x \in Range(journal') <=> x \in Range(journal) \/ x = EnvelopeRow(e)
  BY <1>1, <1>2, <1>3, AppendGrows
<1>5. Published' = Published
  <2>1. \A s : RosterRow(s) \in Range(journal') <=> RosterRow(s) \in Range(journal)
    BY <1>4, RowFacts
  <2> QED BY <1>3, <2>1 DEF Published, RosterRow
<1>6. \A f \in 1..Len(envs) : f \in Stored' => f \in Stored \/ ~ Dead(f)
  <2>1. \A f : EnvelopeRow(f) \in Range(journal') => EnvelopeRow(f) \in Range(journal) \/ f = e
    BY <1>4, RowFacts
  <2>2. \A f \in 1..Len(envs) : f \in Stored' => f \in Stored \/ f = e
    BY <1>3, <2>1 DEF Stored, EnvelopeRow
  <2> QED BY <1>3, <2>2 DEF Dead
<1>7. \A f \in 1..Len(envs) : Dead(f) => Dead(f)' BY <1>4, <1>5, <1>6, DeadKept
<1>8. RostersSound' BY <1>1, <1>3, <1>5 DEF RostersSound, EpochOf
<1>9. Published' \cap refused = {} BY <1>1, <1>5 DEF JournalSound
<1>10. EnvelopeRow(e).kind # "roster" BY RowFacts
<1> QED BY <1>3, <1>7, <1>8, <1>9, <1>10, AcceptStep

-----------------------------------------------------------------------------
(***************************************************************************)
(* The invariant is inductive.                                             *)
(***************************************************************************)
LEMMA InitInv == Init => IInv
<1> SUFFICES ASSUME Init PROVE IInv OBVIOUS
<1>1. NewCrypto \in CryptoState BY GroupAssumption DEF NewCrypto, CryptoState
<1>2. /\ NewCrypto.group = 0 /\ NewCrypto.gen = 0 /\ NewCrypto.joined = FALSE
      /\ NewCrypto.seen = 0 /\ NewCrypto.active = 0 /\ NewCrypto.pending = 0
      /\ NewCrypto.sync = 0 /\ NewCrypto.consumed = {}
      /\ \A k \in Keys : NewCrypto.outbox[k] = 0
  BY DEF NewCrypto
<1>3. /\ Len(commits) = 0 /\ Len(envs) = 0 /\ Len(journal) = 0 /\ 1..0 = {}
  BY DEF Init
<1>4. TypeOK BY <1>1, GroupAssumption DEF Init, TypeOK, Phases
<1>5. Published = {} BY <1>3 DEF Published
<1>6. RostersSound /\ SealedApart /\ EnvelopesSound
  BY <1>3, <1>5 DEF RostersSound, SealedApart, EnvelopesSound
<1>7. JournalSound BY <1>3, <1>5 DEF JournalSound, Init
<1>8. PostedKnown BY DEF PostedKnown, Init
<1>9. ASSUME NEW d \in Devices PROVE StateSound(d, disk[d]) /\ CopySound(d) /\ PhaseSound(d)
  <2>1. disk[d] = NewCrypto /\ mem[d] = NewCrypto /\ pc[d] = "idle" /\ commits = <<>>
    BY DEF Init
  <2>2. StateSound(d, NewCrypto) BY <1>2, <1>3, <2>1 DEF StateSound
  <2>3. CopySound(d) BY <2>1 DEF CopySound, Ahead
  <2>4. PhaseSound(d) BY <2>1 DEF PhaseSound, Ahead
  <2> QED BY <2>1, <2>2, <2>3, <2>4
<1> QED BY <1>4, <1>6, <1>7, <1>8, <1>9 DEF IInv

LEMMA StutterInv ==
  ASSUME IInv, UNCHANGED vars
  PROVE  IInv'
<1>1. PICK d : d = Creator /\ d \in Devices BY GroupAssumption
<1>2. TypeOK /\ Grows BY UnchangedGrows DEF IInv, vars
<1>3. /\ pc[d] \in Phases /\ op[d] \in Operations
      /\ pc' = [pc EXCEPT ![d] = pc[d]] /\ op' = [op EXCEPT ![d] = op[d]]
  BY <1>1, <1>2, TypeFacts DEF vars, TypeOK
<1>4. Published' = Published /\ Stored' = Stored
  BY DEF vars, Published, Stored, RosterRow, EnvelopeRow
<1>5. \A e \in 1..Len(envs) : Dead(e) => Dead(e)' BY <1>2, <1>4, DeadKept
<1>6. \A e \in 1..Len(envs') : ~ (e > Len(envs)) BY <1>2, TypeFacts DEF vars
<1>7. CopySound(d)' /\ PhaseSound(d)' BY <1>1, <1>2, <1>5, <1>6, OtherSound DEF vars
<1> QED BY <1>1, <1>3, <1>7, GotoInv DEF vars

LEMMA DeviceInv ==
  ASSUME IInv, NEW d \in Devices, Device(d)
  PROVE  IInv'
<1>1. CASE Begin(d) \/ Crash(d) BY <1>1, BeginInv
<1>2. ASSUME NEW remote \in 0..EpochOf(Current), StatusFails(d, remote) \/ StatusOK(d, remote)
      PROVE  IInv'
  <2>1. CASE StatusOK(d, remote) BY <2>1, StatusOKInv
  <2>2. CASE StatusFails(d, remote)
    <3>1. mem[d] \in CryptoState /\ Like(mem[d], mem[d]) BY CopyFacts, LikeSame
    <3> QED BY <2>2, <3>1, FinishInv DEF StatusFails
  <2> QED BY <1>2, <2>1, <2>2
<1>3. CASE PostRoster(d) BY <1>3, PostRosterInv
<1>4. CASE PostUncertain(d) \/ SyncFails(d) \/ SendEnds(d)
  <2>1. mem[d] \in CryptoState /\ Like(mem[d], mem[d]) BY CopyFacts, LikeSame
  <2> QED BY <1>4, <2>1, FinishInv DEF PostUncertain, SyncFails, SendEnds
<1>5. CASE PostAccepted(d) BY <1>5, PostAcceptedInv
<1>6. CASE PostRefused(d) BY <1>6, PostRefusedInv
<1>7. CASE SyncRow(d)
  <2>1. journal[mem[d].sync + 1] \in Row
    <3>1. TypeOK /\ mem[d] \in CryptoState BY CopyFacts DEF IInv
    <3>2. mem[d].sync + 1 \in 1..Len(journal) BY <1>7, <3>1, TypeFacts DEF SyncRow
    <3> QED BY <3>1, <3>2, TypeFacts
  <2>2. journal[mem[d].sync + 1].kind \in {"roster", "envelope"} BY <2>1, RowFacts
  <2> QED BY <1>7, <2>2, RosterRowInv, EnvelopeRowInv
<1>8. CASE SyncDone(d) BY <1>8, SyncDoneInv
<1>9. ASSUME NEW r \in Published,
             \/ Check(d, r)
             \/ \E k \in Keys : Send(d, k, r)
             \/ \E k \in Files : Upload(d, k, r)
             \/ SealFails(d, r)
      PROVE  IInv'
  <2>1. CASE Check(d, r) BY <2>1, CheckInv
  <2>2. ASSUME NEW k \in Keys, Send(d, k, r) PROVE IInv' BY <2>2, SealInv DEF Send
  <2>3. ASSUME NEW k \in Files, Upload(d, k, r) PROVE IInv' BY <2>3, SealInv DEF Upload
  <2>4. CASE SealFails(d, r) BY <2>4, SealFailsInv
  <2> QED BY <1>9, <2>1, <2>2, <2>3, <2>4
<1>10. ASSUME NEW k \in Keys, Retry(d, k) PROVE IInv' BY <1>10, RetryInv
<1>11. CASE PostEnvelope(d) BY <1>11, PostEnvelopeInv
<1>12. CASE SendConflict(d) BY <1>12, SendConflictInv
<1> QED BY <1>1, <1>2, <1>3, <1>4, <1>5, <1>6, <1>7, <1>8, <1>9, <1>10, <1>11, <1>12
        DEF Device

LEMMA NextInv == IInv /\ [Next]_vars => IInv'
<1> SUFFICES ASSUME IInv, [Next]_vars PROVE IInv' OBVIOUS
<1>1. ASSUME NEW d \in Devices, Device(d) PROVE IInv' BY <1>1, DeviceInv
<1>2. ASSUME NEW d \in Devices, Revoke(d) PROVE IInv' BY <1>2, ChangeSteps
<1>3. ASSUME NEW d \in Devices, NEW b \in BOOLEAN, Admit(d, b) \/ RoomMember(d, b)
      PROVE  IInv'
  BY <1>3, ChangeSteps
<1>4. ASSUME NEW d \in Importers, NEW x \in Devices, Restore(d, x) PROVE IInv'
  BY <1>4, RestoreInv, GroupAssumption
<1>5. ASSUME NEW remote, NEW policy, CreateGroup(remote, policy) PROVE IInv'
  BY <1>5, CreateGroupInv
<1>6. ASSUME NEW then \in {"new", "last"}, Rotate(then) PROVE IInv'
  BY <1>6, ChangeSteps, GroupAssumption
<1>7. ASSUME NEW room \in SUBSET Devices, RegisterRoom(room) PROVE IInv'
  BY <1>7, ChangeSteps, GroupAssumption
<1>8. ASSUME NEW r \in 1..Len(commits), AcceptRoster(r) PROVE IInv' BY <1>8, AcceptRosterInv
<1>9. ASSUME NEW e \in 1..Len(envs), AcceptEnvelope(e) PROVE IInv' BY <1>9, AcceptEnvelopeInv
<1>10. CASE UNCHANGED vars BY <1>10, StutterInv
<1> QED BY <1>1, <1>2, <1>3, <1>4, <1>5, <1>6, <1>7, <1>8, <1>9, <1>10 DEF Next

-----------------------------------------------------------------------------
(***************************************************************************)
(* What a step does to the roster a device has seen.                       *)
(***************************************************************************)
LEMMA PrefixKept ==
  ASSUME NEW S, NEW s \in Seq(S), NEW x, NEW n \in 1..Len(s)
  PROVE  Append(s, x)[n] = s[n]
OBVIOUS

(* The roster remembered after a step is the one before, the one of the       *)
(* working copy, or one that passed the rollback check.                      *)
SeenFrom(d) ==
  \/ disk'[d].seen \in {disk[d].seen, mem[d].seen}
  \/ \E r \in Published : RosterAccepted(mem[d], r) /\ disk'[d].seen = r

LEMMA SaveSeen ==
  ASSUME TypeOK, NEW d \in Devices, NEW m, disk' = [disk EXCEPT ![d] = m],
         \/ m.seen \in {disk[d].seen, mem[d].seen}
         \/ \E r \in Published : RosterAccepted(mem[d], r) /\ m.seen = r
  PROVE  \A x \in Devices : SeenFrom(x)
BY DEF TypeOK, SeenFrom

LEMMA SyncSeen ==
  ASSUME NEW m \in CryptoState, NEW d, NEW row
  PROVE  Synced(m, d, row).seen = m.seen
<1>1. \A r : RosterRowDone(m, d, r).seen = m.seen BY DEF RosterRowDone, CryptoState
<1>2. \A e : EnvelopeRowDone(m, d, e).seen = m.seen
  BY DEF EnvelopeRowDone, Archived, Quarantined, CryptoState
<1> QED BY <1>1, <1>2 DEF Synced

LEMMA DeviceSeen ==
  ASSUME IInv, NEW d \in Devices, Device(d)
  PROVE  commits' = commits /\ \A x \in Devices : SeenFrom(x)
<1>1. TypeOK /\ mem[d] \in CryptoState BY CopyFacts DEF IInv
<1>2. CASE /\ UNCHANGED <<commits, disk>>
  BY <1>2 DEF SeenFrom
<1>3. CASE Finish(d, mem[d]) /\ commits' = commits
  BY <1>1, <1>3, SaveSeen DEF Finish, Save
<1>4. ASSUME NEW r \in Published, RosterAccepted(mem[d], r), commits' = commits,
             Finish(d, Observed(mem[d], r))
      PROVE  commits' = commits /\ \A x \in Devices : SeenFrom(x)
  <2>1. Observed(mem[d], r).seen = r BY <1>1, ObservedFacts
  <2> QED BY <1>1, <1>4, <2>1, SaveSeen DEF Finish, Save
<1>5. CASE PostRefused(d)
  <2>1. [mem[d] EXCEPT !.pending = 0].seen = mem[d].seen BY <1>1 DEF CryptoState
  <2> QED BY <1>1, <1>5, <2>1, SaveSeen DEF PostRefused, Finish, Save
<1>6. CASE SyncRow(d)
  <2>1. PICK m : m = Synced(mem[d], d, journal[mem[d].sync + 1]) OBVIOUS
  <2>2. m.seen = mem[d].seen BY <1>1, <2>1, SyncSeen
  <2> QED BY <1>1, <1>6, <2>1, <2>2, SaveSeen DEF SyncRow, Save
<1>7. ASSUME NEW k \in Keys \cup Files, NEW r \in Published, Seal(d, k, r)
      PROVE  commits' = commits /\ \A x \in Devices : SeenFrom(x)
  <2>1. StateSound(d, mem[d]) BY CopyFacts
  <2>2. SealedState(mem[d], k, r).seen = r
    BY <1>1, <1>7, <2>1, SealedFacts DEF Seal, StateSound
  <2> QED BY <1>1, <1>7, <2>2, SaveSeen DEF Seal, Save
<1>8. ASSUME NEW r \in Published, Check(d, r)
      PROVE  commits' = commits /\ \A x \in Devices : SeenFrom(x)
  BY <1>2, <1>3, <1>4, <1>8 DEF Check
<1>9. ASSUME NEW r \in Published, SealFails(d, r)
      PROVE  commits' = commits /\ \A x \in Devices : SeenFrom(x)
  BY <1>3, <1>4, <1>9 DEF SealFails
<1>10. ASSUME NEW remote, StatusFails(d, remote) \/ StatusOK(d, remote)
       PROVE  commits' = commits /\ \A x \in Devices : SeenFrom(x)
  BY <1>2, <1>3, <1>10 DEF StatusFails, StatusOK
<1>11. ASSUME NEW k, Retry(d, k)
       PROVE  commits' = commits /\ \A x \in Devices : SeenFrom(x)
  BY <1>2, <1>11 DEF Retry
<1>12. CASE Begin(d) \/ PostRoster(d) \/ PostAccepted(d) \/ SyncDone(d)
            \/ PostEnvelope(d) \/ SendConflict(d) \/ Crash(d)
  BY <1>2, <1>12
     DEF Begin, PostRoster, PostAccepted, SyncDone, PostEnvelope, SendConflict, Crash
<1>13. CASE PostUncertain(d) \/ SyncFails(d) \/ SendEnds(d)
  BY <1>3, <1>13 DEF PostUncertain, SyncFails, SendEnds
<1> QED BY <1>5, <1>6, <1>7, <1>8, <1>9, <1>10, <1>11, <1>12, <1>13 DEF Device, Send, Upload

LEMMA ChangeSeen ==
  ASSUME IInv, NEW members, NEW room, NEW then, Change(Creator, members, room, then)
  PROVE  (\E c : commits' = Append(commits, c)) /\ \A x \in Devices : SeenFrom(x)
<1>1. TypeOK /\ mem[Creator] \in CryptoState /\ Creator \in Devices
  BY CopyFacts, GroupAssumption DEF IInv
<1>2. [mem[Creator] EXCEPT !.pending = Len(commits) + 1].seen = mem[Creator].seen
  BY <1>1 DEF CryptoState
<1> QED BY <1>1, <1>2, SaveSeen DEF Change, Save

LEMMA NextSeen ==
  ASSUME IInv, [Next]_vars
  PROVE  /\ commits' = commits \/ \E c : commits' = Append(commits, c)
         /\ \A x \in Devices : SeenFrom(x)
<1>1. TypeOK /\ mem[Creator] \in CryptoState /\ Creator \in Devices
  BY CopyFacts, GroupAssumption DEF IInv
<1>2. CASE UNCHANGED <<commits, disk>> BY <1>2 DEF SeenFrom
<1>3. ASSUME NEW d \in Devices, Device(d)
      PROVE  commits' = commits /\ \A x \in Devices : SeenFrom(x)
  BY <1>3, DeviceSeen
<1>4. ASSUME NEW x, NEW b, NEW then, NEW room,
             \/ Admit(x, b) \/ Revoke(x) \/ Rotate(then) \/ RegisterRoom(room)
             \/ RoomMember(x, b)
      PROVE  (\E c : commits' = Append(commits, c)) /\ \A y \in Devices : SeenFrom(y)
  <2>1. \E members, r, do : Change(Creator, members, r, do)
    BY <1>4 DEF Admit, Revoke, Rotate, RegisterRoom, RoomMember
  <2> QED BY <2>1, ChangeSeen
<1>5. ASSUME NEW d \in Importers, NEW x \in Devices, Restore(d, x)
      PROVE  commits' = commits /\ \A y \in Devices : SeenFrom(y)
  <2>1. d \in Devices /\ disk[d] \in CryptoState BY <1>1, TypeFacts, GroupAssumption
  <2>2. [disk[d] EXCEPT !.archive = @ \cup Backup(x)].seen = disk[d].seen
    BY <2>1 DEF CryptoState
  <2> QED BY <1>1, <1>5, <2>1, <2>2, SaveSeen DEF Restore, Finish, Save
<1>6. ASSUME NEW remote, NEW policy, CreateGroup(remote, policy)
      PROVE  /\ commits' = commits \/ \E c : commits' = Append(commits, c)
             /\ \A y \in Devices : SeenFrom(y)
  <2>1. PICK m : m = [mem[Creator] EXCEPT !.group = 1] OBVIOUS
  <2>2. m.seen = mem[Creator].seen /\ [m EXCEPT !.pending = 1].seen = mem[Creator].seen
    BY <1>1, <2>1 DEF CryptoState
  <2>3. /\ commits' = commits \/ \E c : commits' = Append(commits, c)
        /\ Save(Creator, m) \/ Save(Creator, [m EXCEPT !.pending = 1])
    BY <1>6, <2>1 DEF CreateGroup, Finish
  <2> QED BY <1>1, <2>2, <2>3, SaveSeen DEF Save
<1>7. ASSUME NEW r, AcceptRoster(r) \/ AcceptEnvelope(r) PROVE UNCHANGED <<commits, disk>>
  BY <1>7 DEF AcceptRoster, AcceptEnvelope
<1>8. CASE UNCHANGED vars BY <1>2, <1>8 DEF vars
<1> QED BY <1>2, <1>3, <1>4, <1>5, <1>6, <1>7, <1>8 DEF Next

(* The working copy is never behind the saved state. *)
LEMMA CopyNotBehind ==
  ASSUME IInv, NEW d \in Devices
  PROVE  /\ disk[d].seen \in 0..Len(commits) /\ mem[d].seen \in 0..Len(commits)
         /\ EpochOf(disk[d].seen) <= EpochOf(mem[d].seen)
<1>1. /\ TypeOK /\ StateSound(d, disk[d]) /\ StateSound(d, mem[d]) /\ CopySound(d)
      /\ mem[d] \in CryptoState /\ disk[d] \in CryptoState
      /\ pc[d] \notin Ahead => mem[d] = disk[d]
  BY CopyFacts DEF IInv
<1>2. disk[d].seen \in 0..Len(commits) /\ mem[d].seen \in 0..Len(commits)
  BY <1>1, TypeFacts DEF StateSound
<1>3. EpochOf(disk[d].seen) \in Nat BY <1>1, <1>2, EpochFacts, TypeFacts
<1> QED BY <1>1, <1>2, <1>3 DEF CopySound

LEMMA SeenKept ==
  ASSUME IInv, [Next]_vars, NEW d \in Devices
  PROVE  EpochOf(disk[d].seen) <= EpochOf(disk[d].seen)'
<1>1. TypeOK BY DEF IInv
<1>2. /\ disk[d].seen \in 0..Len(commits) /\ mem[d].seen \in 0..Len(commits)
      /\ EpochOf(disk[d].seen) <= EpochOf(mem[d].seen)
  BY CopyNotBehind
<1>3. EpochOf(disk[d].seen) \in Nat /\ EpochOf(mem[d].seen) \in Nat
  BY <1>1, <1>2, EpochFacts, TypeFacts
<1>4. PICK s : s = disk'[d].seen OBVIOUS
<1>5. s \in 0..Len(commits) /\ EpochOf(disk[d].seen) <= EpochOf(s)
  <2>1. SeenFrom(d) BY NextSeen
  <2>2. CASE s \in {disk[d].seen, mem[d].seen} BY <1>2, <1>3, <2>2
  <2>3. CASE \E r \in Published : RosterAccepted(mem[d], r) /\ s = r
    <3>1. s \in 1..Len(commits) BY <2>3 DEF Published
    <3>2. EpochOf(s) \in Nat BY <1>1, <3>1, EpochFacts
    <3>3. EpochOf(s) >= EpochOf(mem[d].seen) BY <2>3 DEF RosterAccepted
    <3> QED BY <1>1, <1>2, <1>3, <3>1, <3>2, <3>3, TypeFacts
  <2> QED BY <1>4, <2>1, <2>2, <2>3 DEF SeenFrom
<1>6. \A r \in 1..Len(commits) : commits'[r] = commits[r]
  BY <1>1, NextSeen, PrefixKept DEF TypeOK
<1>7. EpochOf(s)' = EpochOf(s) BY <1>1, <1>5, <1>6, TypeFacts DEF EpochOf
<1>8. EpochOf(disk[d].seen)' = EpochOf(s) BY <1>4, <1>7
<1> QED BY <1>5, <1>8

-----------------------------------------------------------------------------
(***************************************************************************)
(* The theorems.                                                           *)
(***************************************************************************)
(* The strengthening of the invariants below holds of every behaviour of the *)
(* encrypted group: every device's steps, crashes included, and the server's *)
(* preserve it.                                                              *)
THEOREM Invariance == Spec => []IInv
<1>1. Init => IInv BY InitInv
<1>2. IInv /\ [Next]_vars => IInv' BY NextInv
<1> QED BY <1>1, <1>2, PTL DEF Spec

(* Every variable has its type: no device's saved state or working copy, and *)
(* nothing on the wire or in the journal, ever leaves its set.               *)
THEOREM TypeCorrect == Spec => []TypeOK
<1>1. IInv => TypeOK BY DEF IInv
<1> QED BY <1>1, Invariance, PTL

(* consumeMLSKey never meets an envelope of the device's own that its saved  *)
(* state does not know.                                                      *)
THEOREM OwnKnown == Spec => []OwnEnvelopeKnown
<1>1. IInv => OwnEnvelopeKnown
  BY DEF IInv, EnvelopesSound, EnvelopeSound, OwnEnvelopeKnown
<1> QED BY <1>1, Invariance, PTL

(* sealMLS never uses a generation of the ratchet of a group state twice.    *)
THEOREM GenerationsApart == Spec => []NoGenerationReuse
<1>1. IInv => NoGenerationReuse BY DEF IInv, SealedApart, NoGenerationReuse
<1> QED BY <1>1, Invariance, PTL

(* Of the envelopes cryptoSend posts for one key at most one can be stored.  *)
THEOREM SentOnce == Spec => []SendOnce
<1>1. ASSUME IInv PROVE SendOnce
  <2>1. SUFFICES ASSUME NEW e \in 1..Len(envs), NEW f \in 1..Len(envs), e # f,
                        envs[e].key = envs[f].key
                 PROVE  Dead(e) \/ Dead(f)
    BY DEF SendOnce, Dead
  <2>2. envs[e].key \in Keys BY <1>1, <2>1 DEF IInv, SealedApart
  <2>3. EnvelopeSound(e) /\ EnvelopeSound(f) BY <1>1 DEF IInv, EnvelopesSound
  <2> QED BY <2>1, <2>2, <2>3 DEF EnvelopeSound
<1> QED BY <1>1, Invariance, PTL

(* A published roster that the creator has not merged is the commit staged   *)
(* in its saved state.                                                       *)
THEOREM Recoverable == Spec => []CommitRecoverable
<1>1. ASSUME IInv PROVE CommitRecoverable
  <2>1. TypeOK /\ JournalSound /\ PostedKnown BY <1>1 DEF IInv
  <2>2. SUFFICES ASSUME NEW n \in 1..Len(journal), journal[n].kind = "roster",
                        n > disk[Creator].sync
                 PROVE  disk[Creator].pending = journal[n].id
    BY DEF CommitRecoverable
  <2>3. PICK r \in Rosters : journal[n] = RosterRow(r) /\ r = journal[n].id
    BY <2>1, <2>2, TypeFacts, RowFacts
  <2>4. RosterRow(r) \in wire /\ r \in 1..Len(commits)
    BY <2>1, <2>3, TypeFacts, GroupAssumption DEF JournalSound, Rosters
  <2>5. r \notin refused
    <3>1. r \in Published BY <2>1, <2>3, <2>4, JournalFacts
    <3> QED BY <2>1, <3>1 DEF JournalSound
  <2>6. ~ Passed(disk[Creator], RosterRow(r))
    <3>1. SUFFICES ASSUME NEW i \in 1..disk[Creator].sync, journal[i] = RosterRow(r)
                   PROVE  FALSE
      BY DEF Passed
    <3>2. disk[Creator].sync \in Nat /\ disk[Creator].sync <= Len(journal)
      BY <1>1, <2>1, TypeFacts, GroupAssumption DEF IInv, StateSound
    <3>3. i \in 1..Len(journal) /\ i # n BY <2>1, <2>2, <3>2, TypeFacts
    <3> QED BY <2>1, <2>2, <2>3, <3>1, <3>3 DEF JournalSound
  <2> QED BY <2>1, <2>3, <2>4, <2>5, <2>6 DEF PostedKnown
<1> QED BY <1>1, Invariance, PTL

(* Wherever the process dies, a device can open what is behind its saved     *)
(* cursor or was posted by it, or has it under quarantine.                   *)
THEOREM HistoryKept == Spec => []HistoryComplete
<1>1. ASSUME IInv PROVE HistoryComplete
  <2>1. ASSUME NEW d \in Devices, NEW e \in 1..Len(envs),
               Passed(disk[d], EnvelopeRow(e)), d \in MembersOf(envs[e].roster),
               InScope(envs[e].roster, d, envs[e].key)
        PROVE  e \in disk[d].archive \cup disk[d].rejected
    BY <1>1, <2>1 DEF IInv, StateSound
  <2>2. ASSUME NEW e \in 1..Len(envs), NEW d \in Devices, envs[e].sender = d
        PROVE  e \in disk[d].archive
    <3>1. EnvelopeSound(e) BY <1>1 DEF IInv, EnvelopesSound
    <3>2. e \in disk[d].consumed /\ InScope(envs[e].roster, d, envs[e].key)
      BY <2>2, <3>1 DEF EnvelopeSound
    <3> QED BY <1>1, <3>2 DEF IInv, StateSound
  <2> QED BY <2>1, <2>2 DEF HistoryComplete, Opens, Passed
<1> QED BY <1>1, Invariance, PTL

(* cryptoRoster: the membership a device has seen is never taken back.       *)
THEOREM RollbackRefused == Spec => NoRollback
<1>1. IInv /\ [Next]_vars =>
        [\A d \in Devices : EpochOf(disk[d].seen) <= EpochOf(disk[d].seen)']_vars
  BY SeenKept
<1> QED BY <1>1, Invariance, PTL DEF Spec, NoRollback

=============================================================================
