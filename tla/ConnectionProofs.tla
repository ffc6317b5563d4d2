-------------------------- MODULE ConnectionProofs --------------------------
(***************************************************************************)
(* Machine-checked proofs about the saved connection, for every set of      *)
(* processes, calls, sessions, peers and rooms: room tools and calls of     *)
(* other processes run beside every call.                                   *)
(***************************************************************************)
EXTENDS Connection, TLAPS

-----------------------------------------------------------------------------
(***************************************************************************)
(* The records a call goes on as.                                          *)
(***************************************************************************)

LEMMA IdleFacts ==
  /\ Absent \in Connection
  /\ Idle \in Call /\ Idle.pc = "idle" /\ Idle.late = FALSE
  /\ Idle.pc \notin Relying /\ Idle.pc \notin LockedPhases
  /\ \A f : CopyCurrent(Idle, f)
<1> USE ConnectionAssumption
<1>1. Absent \in Connection BY DEF Absent, Connection
<1>2. Idle \in Call /\ Idle.pc = "idle" /\ Idle.late = FALSE
  BY <1>1 DEF Idle, Call, Phases, Decisions
<1>3. Idle.pc \notin Relying /\ Idle.pc \notin LockedPhases
  BY <1>2 DEF Relying, LockedPhases, RoomPhases
<1>4. \A f : CopyCurrent(Idle, f) BY <1>2, <1>3 DEF CopyCurrent, RoomPhases
<1> QED BY <1>1, <1>2, <1>3, <1>4

LEMMA ForgetsFacts ==
  ASSUME NEW c, calls[c] \in Call, NEW phase \in {"polling", "preparing"},
         NEW f, f.id # "none"
  PROVE  /\ Forgets(c, phase) \in Call
         /\ Forgets(c, phase).pc = phase
         /\ Forgets(c, phase).late = FALSE
         /\ Forgets(c, phase).pc \notin LockedPhases
         /\ CopyCurrent(Forgets(c, phase), f)
<1> DEFINE k == Forgets(c, phase)
<1>1. k \in Call /\ k.pc = phase /\ k.late = FALSE
  BY IdleFacts DEF Forgets, Idle, Call, Phases
<1> HIDE DEF k
<1>2. k.pc \notin Relying /\ k.pc \notin LockedPhases
  BY <1>1 DEF Relying, LockedPhases, RoomPhases
<1>3. CopyCurrent(k, f) BY <1>1, <1>2 DEF CopyCurrent, RoomPhases
<1> QED BY <1>1, <1>2, <1>3 DEF k

LEMMA CallFacts ==
  ASSUME IInv, NEW c \in Calls
  PROVE  /\ calls[c] \in Call /\ Copy(c) \in Connection /\ Copy(c) = calls[c].copy
         /\ CopyCurrent(calls[c], file)
         /\ file \in Connection
         /\ decision \in Decisions /\ announced \in {"no", "posted", "known"}
         /\ rooms \subseteq Rooms /\ minted \subseteq Rooms /\ foreign \subseteq Rooms
BY DEF IInv, TypeOK, Call, Copy

LEMMA InitInv == Init => IInv
<1> SUFFICES ASSUME Init PROVE IInv OBVIOUS
<1> USE IdleFacts
<1>1. TypeOK BY DEF Init, TypeOK, Decisions
<1>2. \A c \in Calls : calls[c] = Idle BY DEF Init
<1>3. MutexHeld BY <1>2 DEF MutexHeld
<1>4. file = Absent BY DEF Init
<1> QED BY <1>1, <1>2, <1>3, <1>4 DEF IInv

-----------------------------------------------------------------------------
(***************************************************************************)
(* A call moves on to k and saves nothing.                                 *)
(***************************************************************************)
LEMMA MoveInv ==
  ASSUME IInv, NEW c \in Calls, NEW k \in Call,
         calls' = [calls EXCEPT ![c] = k], file' = file,
         CopyCurrent(k, file),
         \/ k.pc \notin LockedPhases
         \/ Free(k.proc)
         \/ calls[c].pc \in LockedPhases /\ k.proc = calls[c].proc,
         decision' \in Decisions, announced' \in {"no", "posted", "known"},
         rooms' \subseteq Rooms, minted' \subseteq Rooms, foreign' \subseteq Rooms
  PROVE  IInv'
<1>1. /\ calls' \in [Calls -> Call] /\ calls'[c] = k
      /\ \A d \in Calls \ {c} : calls'[d] = calls[d]
  BY DEF IInv, TypeOK
<1>2. TypeOK' BY <1>1 DEF IInv, TypeOK
<1>3. MutexHeld'
  <2> SUFFICES ASSUME NEW a \in Calls, NEW b \in Calls, a # b,
                      calls'[a].proc = calls'[b].proc,
                      calls'[a].pc \in LockedPhases, calls'[b].pc \in LockedPhases
               PROVE  FALSE
    BY DEF MutexHeld
  <2>1. CASE a # c /\ b # c BY <1>1, <2>1 DEF IInv, MutexHeld
  <2>2. CASE a = c \/ b = c
    <3>1. PICK d \in Calls \ {c} : /\ calls[d].proc = k.proc
                                   /\ calls[d].pc \in LockedPhases
                                   /\ k.pc \in LockedPhases
      BY <1>1, <2>2
    <3>2. ~ Free(k.proc) BY <3>1 DEF Free
    <3> QED BY <3>1, <3>2 DEF IInv, MutexHeld
  <2> QED BY <2>1, <2>2
<1>4. \A d \in Calls : CopyCurrent(calls'[d], file') BY <1>1 DEF IInv
<1> QED BY <1>2, <1>3, <1>4 DEF IInv, CopyCurrent

(***************************************************************************)
(* A call saves and goes on as k: whoever is going to save too has been     *)
(* overtaken.                                                               *)
(***************************************************************************)
LEMMA Others ==
  ASSUME IInv, NEW c \in Calls, NEW connection, NEW k, Saves(c, connection, k),
         NEW d \in Calls \ {c}
  PROVE  /\ calls'[d] \in Call
         /\ calls'[d].pc = calls[d].pc /\ calls'[d].proc = calls[d].proc
         /\ calls'[d].copy = calls[d].copy /\ calls'[d].arg = calls[d].arg
         /\ calls'[d].late <=> (calls[d].late \/ Overtakes(c, d))
<1>1. calls[d] \in Call BY DEF IInv, TypeOK
<1>2. calls'[d] = [calls[d] EXCEPT !.late = calls[d].late \/ Overtakes(c, d)]
  BY DEF Saves
<1>3. PICK l \in BOOLEAN : l <=> (calls[d].late \/ Overtakes(c, d)) OBVIOUS
<1>4. l = (calls[d].late \/ Overtakes(c, d)) BY <1>1, <1>3 DEF Call, Overtakes
<1>5. calls'[d] = [calls[d] EXCEPT !.late = l] BY <1>2, <1>4
<1> QED BY <1>1, <1>3, <1>5 DEF Call

LEMMA SaveInv ==
  ASSUME IInv, NEW c \in Calls, NEW connection \in Connection, NEW k \in Call,
         Saves(c, connection, k), calls[c].pc \in Relying,
         connection.id # "none", CopyCurrent(k, connection),
         \/ k.pc \notin LockedPhases
         \/ calls[c].pc \in LockedPhases /\ k.proc = calls[c].proc,
         decision' \in Decisions, announced' \in {"no", "posted", "known"},
         rooms' \subseteq Rooms, minted' \subseteq Rooms, foreign' \subseteq Rooms
  PROVE  IInv'
<1>1. /\ file' = connection /\ calls'[c] = k BY DEF Saves
<1>2. \A d \in Calls \ {c} : calls'[d] \in Call BY Others
<1>3. calls' \in [Calls -> Call]
  <2>1. calls' = [d \in Calls |-> calls'[d]] BY DEF Saves
  <2> QED BY <1>1, <1>2, <2>1
<1>4. TypeOK' BY <1>1, <1>3 DEF TypeOK
<1>5. MutexHeld'
  <2>1. \A d \in Calls \ {c} : calls'[d].pc = calls[d].pc /\ calls'[d].proc = calls[d].proc
    BY Others
  <2> SUFFICES ASSUME NEW a \in Calls, NEW b \in Calls, a # b,
                      calls'[a].proc = calls'[b].proc,
                      calls'[a].pc \in LockedPhases, calls'[b].pc \in LockedPhases
               PROVE  FALSE
    BY DEF MutexHeld
  <2> QED BY <1>1, <2>1 DEF IInv, MutexHeld
<1>6. ASSUME NEW d \in Calls \ {c} PROVE CopyCurrent(calls'[d], connection)
  <2>1. CopyCurrent(calls[d], file) BY DEF IInv
  <2>2. calls[d].pc \in Relying => Overtakes(c, d)
    BY DEF Overtakes, IInv, MutexHeld
  <2>3. /\ calls'[d].pc = calls[d].pc /\ calls'[d].copy = calls[d].copy
        /\ calls'[d].arg = calls[d].arg
        /\ calls'[d].late <=> (calls[d].late \/ Overtakes(c, d))
    BY Others
  <2>4. calls'[d].late <=> calls[d].pc \in Relying BY <2>1, <2>2, <2>3 DEF CopyCurrent, Overtakes
  <2> QED BY <2>1, <2>3, <2>4
    DEF CopyCurrent, Relying, LockedPhases, RoomPhases
<1>7. \A d \in Calls : CopyCurrent(calls'[d], file') BY <1>1, <1>6
<1>8. file'.id # "none" BY <1>1
<1> QED BY <1>4, <1>5, <1>7, <1>8 DEF IInv, CopyCurrent

(***************************************************************************)
(* The call ends; its state between phases.                                *)
(***************************************************************************)
LEMMA EndInv ==
  ASSUME IInv, NEW c \in Calls, Ends(c), file' = file,
         decision' \in Decisions, announced' \in {"no", "posted", "known"},
         rooms' \subseteq Rooms, minted' \subseteq Rooms, foreign' \subseteq Rooms
  PROVE  IInv'
BY IdleFacts, MoveInv DEF Ends

LEMMA GoesFacts ==
  ASSUME IInv, NEW c \in Calls, NEW phase \in Phases, NEW copy \in Connection,
         Goes(c, phase, copy)
  PROVE  \E k \in Call :
           /\ calls' = [calls EXCEPT ![c] = k]
           /\ k.pc = phase /\ k.copy = copy /\ k.late = calls[c].late
           /\ k.arg = calls[c].arg /\ k.answer = calls[c].answer
           /\ k.proc = calls[c].proc
<1> DEFINE k == [calls[c] EXCEPT !.pc = phase, !.copy = copy]
<1>1. calls \in [Calls -> Call] /\ calls[c] \in Call BY DEF IInv, TypeOK
<1>2. k \in Call BY <1>1 DEF Call
<1>3. calls' = [calls EXCEPT ![c] = k] BY <1>1 DEF Goes, Call
<1>4. /\ k.pc = phase /\ k.copy = copy /\ k.late = calls[c].late
      /\ k.arg = calls[c].arg /\ k.answer = calls[c].answer
      /\ k.proc = calls[c].proc
  BY <1>1 DEF Call
<1> HIDE DEF k
<1> QED BY <1>2, <1>3, <1>4

(* A call goes on with its copy. *)
LEMMA GoInv ==
  ASSUME IInv, NEW c \in Calls, NEW phase \in Phases, NEW copy \in Connection,
         Goes(c, phase, copy), file' = file,
         \A k \in Call :
           /\ k.pc = phase /\ k.copy = copy /\ k.late = calls[c].late
           /\ k.arg = calls[c].arg /\ k.answer = calls[c].answer
           => CopyCurrent(k, file),
         phase \notin LockedPhases \/ Free(calls[c].proc) \/ calls[c].pc \in LockedPhases,
         decision' \in Decisions, announced' \in {"no", "posted", "known"},
         rooms' \subseteq Rooms, minted' \subseteq Rooms, foreign' \subseteq Rooms
  PROVE  IInv'
<1>1. PICK k \in Call :
        /\ calls' = [calls EXCEPT ![c] = k]
        /\ k.pc = phase /\ k.copy = copy /\ k.late = calls[c].late
        /\ k.arg = calls[c].arg /\ k.answer = calls[c].answer
        /\ k.proc = calls[c].proc
  BY GoesFacts
<1>2. CopyCurrent(k, file) BY <1>1
<1> QED BY <1>1, <1>2, MoveInv

-----------------------------------------------------------------------------
(***************************************************************************)
(* Calls that start.                                                       *)
(***************************************************************************)
LEMMA StartInv ==
  ASSUME IInv, NEW c \in Calls, NEW p \in Procs, NEW phase \in Phases,
         NEW arg \in Sessions \cup Peers \cup Rooms \cup {None},
         NEW copy \in Connection,
         Starts(c, p, phase, arg, copy), UNCHANGED <<file, server>>,
         phase \notin {"connected", "refresh", "prepared", "bind"},
         phase \in Relying \cup {"binding"} => copy = file,
         phase \in {"sharing", "binding"} => arg \in Sessions \cup {None},
         phase = "ack" => arg \in Peers,
         phase = "join" => arg \in Rooms,
         phase \notin {"post", "route"},
         phase \notin LockedPhases \/ Free(p)
  PROVE  IInv'
<1> USE CallFacts
<1> DEFINE k == [pc |-> phase, proc |-> p, fresh |-> FALSE, arg |-> arg,
                 answer |-> "pending", copy |-> copy, late |-> FALSE]
<1>1. /\ k \in Call /\ k.pc = phase /\ k.copy = copy /\ k.late = FALSE
      /\ k.arg = arg /\ k.proc = p
  BY DEF Call, Decisions
<1>2. calls' = [calls EXCEPT ![c] = k] /\ file.id # "none" BY DEF Starts
<1> HIDE DEF k
<1>3. CopyCurrent(k, file)
  BY <1>1, <1>2 DEF CopyCurrent, Relying, LockedPhases, RoomPhases
<1> QED BY <1>1, <1>2, <1>3, MoveInv DEF server

LEMMA StartSteps ==
  ASSUME IInv, NEW c \in Calls, NEW p \in Procs,
         \/ \E s \in Sessions \cup {None} : Resume(c, p, s)
         \/ ResumePending(c, p)
         \/ \E peer \in Peers : AckLoad(c, p, peer)
         \/ CreateLoad(c, p)
         \/ \E r \in Rooms : JoinLoad(c, p, r)
  PROVE  IInv'
<1> USE CallFacts, IdleFacts
<1>1. {"binding", "polling", "ack", "create", "join"} \subseteq Phases
  BY DEF Phases, Relying, LockedPhases, RoomPhases
<1>2. /\ "binding" \notin LockedPhases /\ "polling" \notin LockedPhases
      /\ "create" \notin LockedPhases /\ "join" \notin LockedPhases
      /\ "polling" \notin Relying \cup {"binding"}
  BY DEF Relying, LockedPhases, RoomPhases
<1>3. ASSUME NEW s \in Sessions \cup {None}, Resume(c, p, s) PROVE IInv'
  BY <1>1, <1>2, <1>3, StartInv DEF Resume
<1>4. CASE ResumePending(c, p) BY <1>1, <1>2, <1>4, StartInv DEF ResumePending
<1>5. ASSUME NEW peer \in Peers, AckLoad(c, p, peer) PROVE IInv'
  BY <1>1, <1>2, <1>5, StartInv DEF AckLoad
<1>6. CASE CreateLoad(c, p) BY <1>1, <1>2, <1>6, StartInv DEF CreateLoad
<1>7. ASSUME NEW r \in Rooms, JoinLoad(c, p, r) PROVE IInv'
  BY <1>1, <1>2, <1>7, StartInv DEF JoinLoad
<1> QED BY <1>3, <1>4, <1>5, <1>6, <1>7

LEMMA MakeSteps ==
  ASSUME IInv, NEW c \in Calls, NEW p \in Procs, NEW s \in Sessions \cup {None},
         \/ \E id \in {"pending", "joined"} : Connect(c, p, s, id)
         \/ Import(c, p, s)
  PROVE  IInv'
<1> USE CallFacts, IdleFacts
<1>1. ASSUME NEW made \in Connection, made.id \in {"pending", "joined"},
             Makes(c, p, s, made)
      PROVE  IInv'
  <2> DEFINE k == [pc |-> "connected", proc |-> p, fresh |-> TRUE, arg |-> s,
                   answer |-> "pending", copy |-> made, late |-> FALSE]
  <2>1. /\ k \in Call /\ k.pc = "connected" /\ k.copy = made /\ k.late = FALSE
        /\ k.arg = s
    BY DEF Call, Decisions, Phases, Relying
  <2>2. /\ calls' = [calls EXCEPT ![c] = k] /\ file.id = "none"
        /\ decision' = made.id /\ UNCHANGED <<file, announced, rooms, minted, foreign>>
    BY <1>1 DEF Makes
  <2> HIDE DEF k
  <2>4. file = Absent BY <2>2 DEF IInv
  <2>5. CopyCurrent(k, file)
    BY <1>1, <2>1, <2>4 DEF CopyCurrent, Relying, LockedPhases, RoomPhases
  <2>6. k.pc \notin LockedPhases BY <2>1 DEF LockedPhases
  <2> QED BY <1>1, <2>1, <2>2, <2>5, <2>6, MoveInv DEF Decisions
<1>2. ASSUME NEW id \in {"pending", "joined"}, Connect(c, p, s, id) PROVE IInv'
  <2>1. /\ [Absent EXCEPT !.id = id] \in Connection
        /\ [Absent EXCEPT !.id = id].id = id
    BY DEF Connection, Decisions
  <2> QED BY <1>1, <1>2, <2>1 DEF Connect
<1>3. CASE Import(c, p, s)
  <2> DEFINE made == [Absent EXCEPT !.id = "joined", !.hello = "imported"]
  <2>1. made \in Connection /\ made.id = "joined" BY DEF Connection, Decisions
  <2> QED BY <1>1, <1>3, <2>1 DEF Import
<1> QED BY <1>2, <1>3

-----------------------------------------------------------------------------
(***************************************************************************)
(* Steps that save nothing.                                                *)
(***************************************************************************)
LEMMA FreeSteps ==
  ASSUME IInv, NEW c \in Calls,
         \/ BindSkip(c) \/ BindRefused(c) \/ Poll(c) \/ PrepareFails(c)
         \/ CreateLost(c) \/ JoinFails(c)
  PROVE  IInv'
<1> USE CallFacts
<1> USE DEF At, server
<1>1. CASE BindSkip(c)
  <2>1. PICK phase \in {"polling", "preparing"} : BoundTo(c) = Forgets(c, phase)
    BY DEF BoundTo
  <2>2. file.id # "none" BY <1>1 DEF BindSkip, CopyCurrent
  <2>3. calls' = [calls EXCEPT ![c] = Forgets(c, phase)] BY <1>1, <2>1 DEF BindSkip
  <2>4. PICK k : k = Forgets(c, phase) OBVIOUS
  <2>5. k \in Call /\ k.pc \notin LockedPhases /\ CopyCurrent(k, file)
    BY <2>2, <2>4, ForgetsFacts
  <2> QED BY <1>1, <2>3, <2>4, <2>5, MoveInv DEF BindSkip
<1>2. CASE BindRefused(c) BY <1>2, EndInv DEF BindRefused
<1>3. CASE CreateLost(c) BY <1>3, EndInv DEF CreateLost
<1>4. CASE JoinFails(c) BY <1>4, EndInv DEF JoinFails
<1>5. CASE PrepareFails(c) BY <1>5, EndInv DEF PrepareFails
<1>6. CASE Poll(c)
  <2>1. calls[c].pc = "polling" /\ UNCHANGED <<file, server>> BY <1>6 DEF Poll
  <2>2. CASE Ends(c) BY <2>1, <2>2, EndInv
  <2>3. CASE calls' = [calls EXCEPT ![c].pc = "polled", ![c].answer = decision]
    <3> DEFINE k == [calls[c] EXCEPT !.pc = "polled", !.answer = decision]
    <3>1. k \in Call /\ k.pc = "polled" /\ k.late = calls[c].late
      BY DEF Call, Phases
    <3>2. calls' = [calls EXCEPT ![c] = k] BY <2>3 DEF IInv, TypeOK, Call
    <3> HIDE DEF k
    <3>3. k.pc \notin LockedPhases BY <3>1 DEF LockedPhases
    <3>4. CopyCurrent(k, file)
      BY <2>1, <3>1 DEF CopyCurrent, Relying, LockedPhases, RoomPhases
    <3> QED BY <2>1, <3>1, <3>2, <3>3, <3>4, MoveInv
  <2> QED BY <1>6, <2>2, <2>3 DEF Poll
<1> QED BY <1>1, <1>2, <1>3, <1>4, <1>5, <1>6

(* Loads under the mutex. *)
LEMMA LoadSteps ==
  ASSUME IInv, NEW c \in Calls, BindLoad(c) \/ RefreshLoad(c) \/ PrepareLoad(c)
  PROVE  IInv'
<1> USE CallFacts
<1>0. {"bind", "refresh", "prepare"} \subseteq Phases
  BY DEF Phases, Relying, LockedPhases
<1>1. /\ calls[c].pc \in {"binding", "polled", "preparing"} /\ Free(calls[c].proc)
      /\ UNCHANGED <<file, decision, announced, rooms, minted, foreign>>
  BY DEF BindLoad, RefreshLoad, PrepareLoad, At, Locks, server
<1>2. file.id # "none" /\ ~ calls[c].late
  BY <1>1 DEF CopyCurrent, Relying, LockedPhases, RoomPhases
<1>3. CASE BindLoad(c)
  <2>1. CASE file.bound \in {None, calls[c].arg}
    <3>1. Goes(c, "bind", file) /\ calls[c].pc = "binding" /\ calls[c].arg # None
      BY <1>3, <2>1 DEF BindLoad, At
    <3>2. calls[c].arg \in Sessions BY <3>1 DEF CopyCurrent
    <3>3. ASSUME NEW k \in Call, k.pc = "bind", k.copy = file, ~ k.late,
                 k.arg = calls[c].arg
          PROVE  CopyCurrent(k, file)
      BY <1>2, <2>1, <3>2, <3>3 DEF CopyCurrent, Relying, LockedPhases
    <3> QED BY <1>0, <1>1, <1>2, <3>1, <3>3, GoInv
  <2>2. CASE file.bound \notin {None, calls[c].arg}
    BY <1>1, <1>3, <2>2, EndInv DEF BindLoad
  <2> QED BY <2>1, <2>2
<1>4. CASE RefreshLoad(c)
  <2>1. CASE file.id = "joined"
    <3>1. calls' = [calls EXCEPT ![c] = Forgets(c, "preparing")]
      BY <1>4, <2>1 DEF RefreshLoad
    <3> QED BY <1>1, <1>2, <3>1, ForgetsFacts, MoveInv
  <2>2. CASE file.id # "joined"
    <3> DEFINE copy == [file EXCEPT !.id = calls[c].answer]
    <3>1. Goes(c, "refresh", copy) BY <1>4, <2>2 DEF RefreshLoad
    <3>2. copy \in Connection /\ copy.id # "none" BY DEF Connection, Call, Decisions
    <3>3. ASSUME NEW k \in Call, k.pc = "refresh", k.copy = copy, ~ k.late,
                 k.answer = calls[c].answer
          PROVE  CopyCurrent(k, file)
      <4>1. k.copy.id # "none" BY <3>2, <3>3
      <4>2. k.copy = [file EXCEPT !.id = k.answer] BY <3>3
      <4> HIDE DEF copy
      <4> QED BY <1>2, <2>2, <3>3, <4>1, <4>2 DEF CopyCurrent, Relying, LockedPhases, RoomPhases
    <3> HIDE DEF copy
    <3> QED BY <1>0, <1>1, <1>2, <3>1, <3>2, <3>3, GoInv
  <2> QED BY <2>1, <2>2
<1>5. CASE PrepareLoad(c)
  <2>1. Goes(c, "prepare", file) BY <1>5 DEF PrepareLoad
  <2>2. ASSUME NEW k \in Call, k.pc = "prepare", k.copy = file, ~ k.late
        PROVE  CopyCurrent(k, file)
    BY <1>2, <2>2 DEF CopyCurrent, Relying, LockedPhases
  <2> QED BY <1>0, <1>1, <1>2, <2>1, <2>2, GoInv
<1> QED BY <1>3, <1>4, <1>5

-----------------------------------------------------------------------------
(***************************************************************************)
(* Steps that save.                                                        *)
(***************************************************************************)
(* The call saves and ends. *)
LEMMA LastSaveInv ==
  ASSUME IInv, NEW c \in Calls, NEW connection \in Connection,
         Saves(c, connection, Idle), calls[c].pc \in Relying,
         connection.id # "none",
         decision' \in Decisions, announced' \in {"no", "posted", "known"},
         rooms' \subseteq Rooms, minted' \subseteq Rooms, foreign' \subseteq Rooms
  PROVE  IInv'
BY IdleFacts, SaveInv

(* The call saves and goes on with what it saved. *)
LEMMA SavedInv ==
  ASSUME IInv, NEW c \in Calls, NEW connection \in Connection,
         NEW phase \in {"sharing", "binding", "prepare", "post"},
         Saves(c, connection, Saved(c, phase, connection)), calls[c].pc \in Relying,
         connection.id # "none",
         phase \in {"sharing", "binding"} => calls[c].arg \in Sessions \cup {None},
         phase = "prepare" => calls[c].pc = "prepare",
         phase = "post" => connection.creating \in Rooms,
         decision' \in Decisions, announced' \in {"no", "posted", "known"},
         rooms' \subseteq Rooms, minted' \subseteq Rooms, foreign' \subseteq Rooms
  PROVE  IInv'
<1> USE CallFacts
<1>1. phase \in Phases BY DEF Phases, Relying, LockedPhases, RoomPhases
<1> DEFINE k == Saved(c, phase, connection)
<1>2. calls[c] \in Call OBVIOUS
<1>3. /\ k \in Call /\ k.pc = phase /\ k.copy = connection /\ k.late = FALSE
      /\ k.proc = calls[c].proc /\ k.arg = calls[c].arg
  BY <1>1, <1>2 DEF Saved, Call
<1>6. Saves(c, connection, k) OBVIOUS
<1> HIDE DEF k
<1>4. CopyCurrent(k, connection)
  BY <1>3 DEF CopyCurrent, RoomPhases
<1>5. k.pc \notin LockedPhases \/ calls[c].pc \in LockedPhases
  BY <1>3 DEF LockedPhases
<1> QED BY <1>3, <1>4, <1>5, <1>6, SaveInv

LEMMA ConnectSteps ==
  ASSUME IInv, NEW c \in Calls, ConnectSave(c) \/ ConnectShare(c)
  PROVE  IInv'
<1> USE CallFacts
<1>1. /\ calls[c].pc \in {"connected", "sharing"}
      /\ UNCHANGED <<decision, announced, rooms, minted, foreign>>
  BY DEF ConnectSave, ConnectShare, At, server
<1>2. /\ calls[c].pc \in Relying /\ Copy(c).id # "none"
      /\ calls[c].arg \in Sessions \cup {None}
  BY <1>1 DEF CopyCurrent, Relying
<1>3. CASE ConnectSave(c)
  <2>1. PICK phase \in {"sharing", "binding"} :
          Saves(c, Copy(c), Saved(c, phase, Copy(c)))
    BY <1>3 DEF ConnectSave
  <2> QED BY <1>1, <1>2, <2>1, SavedInv
<1>4. CASE ConnectShare(c)
  <2>1. CASE Ends(c) /\ UNCHANGED file BY <1>1, <2>1, EndInv
  <2> DEFINE shared == [Copy(c) EXCEPT !.share = TRUE]
  <2>2. CASE Saves(c, shared, Saved(c, "binding", shared))
    <3>1. shared \in Connection /\ shared.id # "none" BY <1>2 DEF Connection
    <3> HIDE DEF shared
    <3> QED BY <1>1, <1>2, <2>2, <3>1, SavedInv
  <2> QED BY <1>4, <2>1, <2>2 DEF ConnectShare
<1> QED BY <1>3, <1>4

(* The call saves and will load the connection again. *)
LEMMA ForgetInv ==
  ASSUME IInv, NEW c \in Calls, NEW connection \in Connection,
         NEW phase \in {"polling", "preparing"},
         Saves(c, connection, Forgets(c, phase)), calls[c].pc \in Relying,
         connection.id # "none", UNCHANGED server
  PROVE  IInv'
<1> USE CallFacts
<1>1. PICK k : k = Forgets(c, phase) OBVIOUS
<1>2. k \in Call /\ k.pc \notin LockedPhases /\ CopyCurrent(k, connection)
  BY <1>1, ForgetsFacts
<1> QED BY <1>1, <1>2, SaveInv DEF server

LEMMA LockedSaveSteps ==
  ASSUME IInv, NEW c \in Calls,
         \/ BindSave(c) \/ RefreshSave(c) \/ PrepareShare(c) \/ PrepareClaim(c)
         \/ PrepareSave(c) \/ AckSave(c)
  PROVE  IInv'
<1> USE CallFacts
<1>1. calls[c].pc \in LockedPhases
  BY DEF BindSave, RefreshSave, PrepareShare, PrepareClaim, PrepareSave, AckSave,
         Preparing, At, LockedPhases
<1>2. calls[c].pc \in Relying /\ Copy(c).id # "none" BY <1>1 DEF CopyCurrent, Relying
<1>3. CASE BindSave(c)
  <2> DEFINE bound == [Copy(c) EXCEPT !.bound = calls[c].arg]
  <2>1. /\ calls[c].pc = "bind" /\ Saves(c, bound, BoundTo(c)) /\ UNCHANGED server
    BY <1>3 DEF BindSave, At
  <2>2. PICK phase \in {"polling", "preparing"} : BoundTo(c) = Forgets(c, phase)
    BY DEF BoundTo
  <2>3. calls[c].arg \in Sessions BY <2>1 DEF CopyCurrent
  <2>4. bound \in Connection /\ bound.id # "none" BY <1>2, <2>3 DEF Connection
  <2> HIDE DEF bound
  <2> QED BY <1>2, <2>1, <2>2, <2>4, ForgetInv
<1>4. CASE RefreshSave(c)
  <2>1. CASE Copy(c).id = "joined"
    BY <1>2, <1>4, <2>1, ForgetInv DEF RefreshSave
  <2>2. CASE Copy(c).id # "joined"
    BY <1>2, <1>4, <2>2, LastSaveInv DEF RefreshSave, server
  <2> QED BY <2>1, <2>2
<1>5. CASE PrepareShare(c)
  <2> DEFINE shared == [Copy(c) EXCEPT !.share = TRUE]
  <2>1. /\ calls[c].pc = "prepare" /\ Saves(c, shared, Saved(c, "prepare", shared))
        /\ UNCHANGED server
    BY <1>5 DEF PrepareShare, Preparing, At
  <2>2. shared \in Connection /\ shared.id # "none" BY <1>2 DEF Connection
  <2> HIDE DEF shared
  <2> QED BY <1>2, <2>1, <2>2, SavedInv DEF server
<1>6. CASE PrepareClaim(c)
  BY <1>2, <1>6, SavedInv DEF PrepareClaim, Preparing, At, server
<1>7. CASE PrepareSave(c)
  BY <1>2, <1>7, LastSaveInv DEF PrepareSave
<1>8. CASE AckSave(c)
  <2> DEFINE paired == [Copy(c) EXCEPT !.paired = @ \cup {calls[c].arg}]
  <2>1. calls[c].pc = "ack" /\ Saves(c, paired, Idle) /\ UNCHANGED server
    BY <1>8 DEF AckSave, At
  <2>2. calls[c].arg \in Peers BY <2>1 DEF CopyCurrent
  <2>3. paired \in Connection /\ paired.id # "none" BY <1>2, <2>2 DEF Connection
  <2> HIDE DEF paired
  <2> QED BY <1>2, <2>1, <2>3, LastSaveInv DEF server
<1> QED BY <1>3, <1>4, <1>5, <1>6, <1>7, <1>8

LEMMA HelloStep ==
  ASSUME IInv, NEW c \in Calls, NEW answered \in BOOLEAN, PrepareHello(c, answered)
  PROVE  IInv'
<1> USE CallFacts
<1> DEFINE told == [Copy(c) EXCEPT !.hello = "own"]
<1>1. /\ calls[c].pc = "prepare" /\ Copy(c).hello = "none"
      /\ announced' \in {"no", "posted", "known"}
      /\ UNCHANGED <<file, decision, rooms, minted, foreign>>
      /\ Goes(c, "prepared", told) \/ Ends(c)
  BY DEF PrepareHello, Preparing, At
<1>2. CASE Ends(c) BY <1>1, <1>2, EndInv
<1>3. CASE Goes(c, "prepared", told)
  <2>1. told \in Connection /\ told.id = Copy(c).id BY DEF Connection
  <2>2. /\ Copy(c).id # "none" /\ file.id # "none"
        /\ ~ calls[c].late => Copy(c) = file
    BY <1>1 DEF CopyCurrent, Relying, LockedPhases
  <2>3. ~ calls[c].late => told = [file EXCEPT !.hello = "own"] BY <2>2
  <2> HIDE DEF told
  <2>4. ASSUME NEW k \in Call, k.pc = "prepared", k.copy = told, k.late = calls[c].late
        PROVE  CopyCurrent(k, file)
    BY <1>1, <2>1, <2>2, <2>3, <2>4 DEF CopyCurrent, Relying, LockedPhases, RoomPhases
  <2>5. "prepared" \in Phases /\ calls[c].pc \in LockedPhases
    BY <1>1 DEF Phases, Relying, LockedPhases
  <2> QED BY <1>1, <1>3, <2>1, <2>4, <2>5, GoInv
<1> QED BY <1>1, <1>2, <1>3

LEMMA RoomSteps ==
  ASSUME IInv, NEW c \in Calls,
         \/ \E r \in Rooms : CreateMint(c, r)
         \/ \E b \in BOOLEAN : CreateRetry(c, b) \/ CreatePost(c, b)
         \/ CreateRejected(c) \/ CreateRoute(c) \/ JoinSave(c)
  PROVE  IInv'
<1> USE CallFacts
<1>1. /\ calls[c].pc \in RoomPhases
      /\ UNCHANGED <<decision, announced>>
  BY DEF CreateMint, CreateRetry, CreatePost, CreateRejected, CreateRoute, JoinSave,
         At, RoomPhases, server
<1>2. /\ calls[c].pc \in Relying /\ Copy(c).id # "none" /\ file.id # "none"
      /\ ~ calls[c].late => Copy(c) = file
      /\ "post" \in Phases \ LockedPhases /\ "route" \in Phases \ LockedPhases
  BY <1>1 DEF CopyCurrent, Relying, RoomPhases, LockedPhases, Phases
<1>3. ASSUME NEW r \in Rooms, CreateMint(c, r) PROVE IInv'
  <2> DEFINE drafted == [Copy(c) EXCEPT !.creating = r]
  <2>1. /\ Saves(c, drafted, Saved(c, "post", drafted))
        /\ minted' = minted \cup {r} /\ UNCHANGED <<rooms, foreign>>
    BY <1>3 DEF CreateMint
  <2>2. drafted \in Connection /\ drafted.id # "none" /\ drafted.creating = r
    BY <1>2 DEF Connection
  <2> HIDE DEF drafted
  <2> QED BY <1>1, <1>2, <2>1, <2>2, SavedInv
<1>4. ASSUME NEW phase \in {"post", "route"}, Copy(c).creating \in Rooms,
             Goes(c, phase, Copy(c)), file' = file, rooms' \subseteq Rooms,
             minted' = minted, foreign' = foreign
      PROVE  IInv'
  <2>1. ASSUME NEW k \in Call, k.pc = phase, k.copy = Copy(c), k.late = calls[c].late
        PROVE  CopyCurrent(k, file)
    BY <1>2, <1>4, <2>1 DEF CopyCurrent, Relying, LockedPhases, RoomPhases
  <2> QED BY <1>1, <1>2, <1>4, <2>1, GoInv
<1>5. ASSUME NEW b \in BOOLEAN, CreateRetry(c, b) PROVE IInv'
  <2>1. /\ Copy(c).creating \in Rooms /\ UNCHANGED <<file, rooms, minted, foreign>>
        /\ Goes(c, "post", Copy(c)) \/ Ends(c)
    BY <1>5 DEF CreateRetry, server, Connection
  <2> QED BY <1>1, <1>4, <2>1, EndInv
<1>6. ASSUME NEW b \in BOOLEAN, CreatePost(c, b) PROVE IInv'
  <2>1. Copy(c).creating \in Rooms BY <1>6 DEF CreatePost, At, CopyCurrent
  <2>2. /\ rooms' \subseteq Rooms /\ UNCHANGED <<file, minted, foreign>>
        /\ Goes(c, "route", Copy(c)) \/ Ends(c)
    BY <1>6, <2>1 DEF CreatePost
  <2> QED BY <1>1, <1>4, <2>1, <2>2, EndInv
<1>7. ASSUME NEW left \in Connection, left.id = Copy(c).id, Saves(c, left, Idle),
             UNCHANGED <<rooms, minted, foreign>>
      PROVE  IInv'
  BY <1>1, <1>2, <1>7, LastSaveInv
<1>8. CASE CreateRejected(c)
  <2> DEFINE left == [Copy(c) EXCEPT !.creating = None]
  <2>1. left \in Connection /\ left.id = Copy(c).id BY DEF Connection
  <2>2. Saves(c, left, Idle) /\ UNCHANGED <<rooms, minted, foreign>>
    BY <1>8 DEF CreateRejected, server
  <2> HIDE DEF left
  <2> QED BY <1>7, <2>1, <2>2
<1>9. CASE CreateRoute(c)
  <2> DEFINE left == [Copy(c) EXCEPT !.creating = None,
                                     !.routes = @ \cup {Copy(c).creating}]
  <2>1. Copy(c).creating \in Rooms BY <1>9 DEF CreateRoute, At, CopyCurrent
  <2>2. left \in Connection /\ left.id = Copy(c).id BY <2>1 DEF Connection
  <2>3. Saves(c, left, Idle) /\ UNCHANGED <<rooms, minted, foreign>>
    BY <1>9 DEF CreateRoute, server
  <2> HIDE DEF left
  <2> QED BY <1>7, <2>2, <2>3
<1>10. CASE JoinSave(c)
  <2> DEFINE left == [Copy(c) EXCEPT !.routes = @ \cup {calls[c].arg}]
  <2>1. calls[c].arg \in Rooms BY <1>10 DEF JoinSave, At, CopyCurrent
  <2>2. left \in Connection /\ left.id = Copy(c).id BY <2>1 DEF Connection
  <2>3. Saves(c, left, Idle) /\ UNCHANGED <<rooms, minted, foreign>>
    BY <1>10 DEF JoinSave, server
  <2> HIDE DEF left
  <2> QED BY <1>7, <2>2, <2>3
<1> QED BY <1>3, <1>5, <1>6, <1>8, <1>9, <1>10

LEMMA OtherSteps ==
  ASSUME IInv,
         \/ \E d \in {"joined", "denied"} : Decide(d)
         \/ \E p \in Procs : Crash(p)
         \/ UNCHANGED vars
  PROVE  IInv'
<1> USE IdleFacts
<1>1. ASSUME NEW p \in Procs, Crash(p) PROVE IInv'
  <2>1. /\ calls' = [c \in Calls |-> IF calls[c].proc = p THEN Idle ELSE calls[c]]
        /\ UNCHANGED <<file, decision, announced, rooms, minted, foreign>>
    BY <1>1 DEF Crash, server
  <2>2. \A c \in Calls : calls'[c] = Idle \/ calls'[c] = calls[c] BY <2>1
  <2>3. calls' \in [Calls -> Call] BY <2>1 DEF IInv, TypeOK
  <2>4. TypeOK' BY <2>1, <2>3 DEF IInv, TypeOK
  <2>5. MutexHeld' BY <2>2 DEF IInv, MutexHeld
  <2>6. \A c \in Calls : CopyCurrent(calls'[c], file') BY <2>1, <2>2 DEF IInv
  <2> QED BY <2>1, <2>4, <2>5, <2>6 DEF IInv, CopyCurrent
<1>2. CASE (\E d \in {"joined", "denied"} : Decide(d)) \/ UNCHANGED vars
  <2>1. /\ UNCHANGED <<file, calls, announced, rooms, minted, foreign>>
        /\ decision' \in Decisions
    BY <1>2 DEF Decide, vars, IInv, TypeOK, Decisions
  <2> QED BY <2>1 DEF IInv, TypeOK, MutexHeld, CopyCurrent
<1> QED BY <1>1, <1>2

LEMMA NextInv == IInv /\ [Next]_vars => IInv'
<1> SUFFICES ASSUME IInv, [Next]_vars PROVE IInv' OBVIOUS
<1>1. ASSUME NEW c \in Calls, Setup(c) PROVE IInv'
  BY <1>1, StartSteps, MakeSteps, FreeSteps, LoadSteps, ConnectSteps,
     LockedSaveSteps, HelloStep DEF Setup
<1>2. ASSUME NEW c \in Calls, RoomTool(c) PROVE IInv'
  BY <1>2, StartSteps, FreeSteps, RoomSteps DEF RoomTool
<1>3. ASSUME NEW c \in Calls, NEW p \in Procs, NEW peer \in Peers, AckLoad(c, p, peer)
      PROVE  IInv'
  BY <1>3, StartSteps
<1>4. ASSUME NEW c \in Calls, AckSave(c) PROVE IInv' BY <1>4, LockedSaveSteps
<1>5. CASE \/ \E d \in {"joined", "denied"} : Decide(d)
           \/ \E p \in Procs : Crash(p)
           \/ UNCHANGED vars
  BY <1>5, OtherSteps
<1> QED BY <1>1, <1>2, <1>3, <1>4, <1>5 DEF Next

-----------------------------------------------------------------------------
(***************************************************************************)
(* What a step may do to the saved connection.                             *)
(***************************************************************************)

(* The steps of a call that save. *)
SavingStep(c) ==
  \/ ConnectSave(c) \/ (ConnectShare(c) /\ file' # file)
  \/ BindSave(c) \/ RefreshSave(c)
  \/ PrepareShare(c) \/ PrepareClaim(c) \/ PrepareSave(c) \/ AckSave(c)
  \/ \E r \in Rooms : CreateMint(c, r)
  \/ CreateRejected(c) \/ CreateRoute(c) \/ JoinSave(c)

(* After its save a call is no longer behind. *)
LEMMA LateSaver ==
  ASSUME IInv, NEW c \in Calls, SavingStep(c)
  PROVE  /\ calls'[c].late = FALSE
         /\ calls[c].late => Overtaken
         /\ \E connection, k : Saves(c, connection, k)
<1> USE CallFacts, IdleFacts
<1>1. ASSUME NEW connection, NEW k, Saves(c, connection, k), k.late = FALSE
      PROVE  /\ calls'[c].late = FALSE
             /\ calls[c].late => Overtaken
             /\ \E co, l : Saves(c, co, l)
  <2>1. calls'[c] = k BY <1>1 DEF Saves
  <2> QED BY <1>1, <2>1 DEF Overtaken
<1>2. \A phase, copy : Saved(c, phase, copy).late = FALSE BY DEF Saved, Call
<1>3. \A phase : Forgets(c, phase).late = FALSE BY DEF Forgets, Idle
<1>4. CASE ConnectSave(c) BY <1>1, <1>2, <1>4 DEF ConnectSave
<1>5. CASE ConnectShare(c) /\ file' # file BY <1>1, <1>2, <1>5 DEF ConnectShare
<1>6. CASE BindSave(c) BY <1>1, <1>3, <1>6 DEF BindSave, BoundTo
<1>7. CASE RefreshSave(c)
  <2>1. PICK k \in {Forgets(c, "preparing"), Idle} : Saves(c, Copy(c), k)
    BY <1>7 DEF RefreshSave
  <2> QED BY <1>1, <1>3, <2>1
<1>8. CASE PrepareShare(c) BY <1>1, <1>2, <1>8 DEF PrepareShare
<1>9. CASE PrepareClaim(c) BY <1>1, <1>2, <1>9 DEF PrepareClaim
<1>10. CASE PrepareSave(c) BY <1>1, <1>10 DEF PrepareSave
<1>11. CASE AckSave(c) BY <1>1, <1>11 DEF AckSave
<1>12. ASSUME NEW r \in Rooms, CreateMint(c, r)
       PROVE  /\ calls'[c].late = FALSE
              /\ calls[c].late => Overtaken
              /\ \E co, l : Saves(c, co, l)
  BY <1>1, <1>2, <1>12 DEF CreateMint
<1>13. CASE CreateRejected(c) BY <1>1, <1>13 DEF CreateRejected
<1>14. CASE CreateRoute(c) BY <1>1, <1>14 DEF CreateRoute
<1>15. CASE JoinSave(c) BY <1>1, <1>15 DEF JoinSave
<1> QED BY <1>4, <1>5, <1>6, <1>7, <1>8, <1>9, <1>10, <1>11, <1>12, <1>13, <1>14, <1>15
  DEF SavingStep

LEMMA SavingSteps ==
  ASSUME [Next]_vars
  PROVE  file' = file \/ \E c \in Calls : SavingStep(c)
<1>1. ASSUME NEW c \in Calls, Setup(c) PROVE file' = file \/ SavingStep(c)
  BY <1>1
  DEF Setup, Resume, Connect, Import, Makes, ResumePending, BindSkip, BindRefused,
      BindLoad, Poll, RefreshLoad, PrepareLoad, PrepareFails, PrepareHello, SavingStep,
      ConnectShare
<1>2. ASSUME NEW c \in Calls, RoomTool(c) PROVE file' = file \/ SavingStep(c)
  BY <1>2
  DEF RoomTool, CreateLoad, CreateLost, JoinLoad, CreateRetry, CreatePost, JoinFails,
      SavingStep
<1> QED BY <1>1, <1>2 DEF Next, vars, AckLoad, Decide, Crash, SavingStep

(* Although every save replaces the whole file, what a call that was not     *)
(* overtaken changes is one field (or the two of a room's creation).         *)
SavedChange ==
  \/ file = Absent
  \/ file' = file
  \/ file' = [file EXCEPT !.share = TRUE]
  \/ \E s \in Sessions :
       file.bound \in {None, s} /\ file' = [file EXCEPT !.bound = s]
  \/ \E a \in Decisions :
       file.id # "joined" /\ file' = [file EXCEPT !.id = a]
  \/ file.hello = "none" /\ file' = [file EXCEPT !.hello = "own"]
  \/ \E p \in Peers : file' = [file EXCEPT !.paired = @ \cup {p}]
  \/ \E r \in Rooms \cup {None} : file' = [file EXCEPT !.creating = r]
  \/ \E r \in Rooms : file' = [file EXCEPT !.creating = None, !.routes = @ \cup {r}]
  \/ \E r \in Rooms : file' = [file EXCEPT !.routes = @ \cup {r}]

LEMMA SaveStep ==
  ASSUME IInv, NEW c \in Calls, ~ calls[c].late, SavingStep(c)
  PROVE  SavedChange
<1> USE ConnectionAssumption, CallFacts
<1> USE DEF At, Saves, Preparing
<1>1. CASE ConnectSave(c) BY <1>1 DEF ConnectSave, CopyCurrent, SavedChange
<1>2. CASE ConnectShare(c) /\ file' # file
  <2>1. Copy(c) = file BY <1>2 DEF ConnectShare, CopyCurrent
  <2> QED BY <1>2, <2>1 DEF ConnectShare, SavedChange
<1>3. CASE BindSave(c)
  <2>1. Copy(c) = file /\ calls[c].arg \in Sessions /\ file.bound \in {None, calls[c].arg}
    BY <1>3 DEF BindSave, CopyCurrent
  <2> QED BY <1>3, <2>1 DEF BindSave, SavedChange
<1>4. CASE RefreshSave(c)
  <2>1. /\ file.id # "joined" /\ Copy(c) = [file EXCEPT !.id = calls[c].answer]
        /\ calls[c].answer \in Decisions
    BY <1>4 DEF RefreshSave, CopyCurrent, Call
  <2> QED BY <1>4, <2>1 DEF RefreshSave, SavedChange
<1>5. CASE PrepareShare(c)
  <2>1. Copy(c) = file BY <1>5 DEF PrepareShare, CopyCurrent
  <2> QED BY <1>5, <2>1 DEF PrepareShare, SavedChange
<1>6. CASE PrepareClaim(c) BY <1>6 DEF PrepareClaim, CopyCurrent, SavedChange
<1>7. CASE PrepareSave(c)
  <2>1. CASE calls[c].pc = "prepare"
    BY <1>7, <2>1 DEF PrepareSave, CopyCurrent, SavedChange
  <2>2. CASE calls[c].pc = "prepared"
    BY <1>7, <2>2 DEF PrepareSave, CopyCurrent, SavedChange
  <2> QED BY <1>7, <2>1, <2>2 DEF PrepareSave
<1>8. CASE AckSave(c)
  <2>1. Copy(c) = file /\ calls[c].arg \in Peers BY <1>8 DEF AckSave, CopyCurrent
  <2> QED BY <1>8, <2>1 DEF AckSave, SavedChange
<1>9. ASSUME NEW r \in Rooms, CreateMint(c, r) PROVE SavedChange
  <2>1. Copy(c) = file BY <1>9 DEF CreateMint, CopyCurrent, RoomPhases
  <2> QED BY <1>9, <2>1 DEF CreateMint, SavedChange
<1>10. CASE CreateRejected(c)
  <2>1. Copy(c) = file BY <1>10 DEF CreateRejected, CopyCurrent, RoomPhases
  <2> QED BY <1>10, <2>1 DEF CreateRejected, SavedChange
<1>11. CASE CreateRoute(c)
  <2>1. Copy(c) = file /\ file.creating \in Rooms
    BY <1>11 DEF CreateRoute, CopyCurrent, RoomPhases
  <2> QED BY <1>11, <2>1 DEF CreateRoute, SavedChange
<1>12. CASE JoinSave(c)
  <2>1. Copy(c) = file /\ calls[c].arg \in Rooms
    BY <1>12 DEF JoinSave, CopyCurrent, RoomPhases
  <2> QED BY <1>12, <2>1 DEF JoinSave, SavedChange
<1> QED BY <1>1, <1>2, <1>3, <1>4, <1>5, <1>6, <1>7, <1>8, <1>9, <1>10, <1>11, <1>12
  DEF SavingStep

LEMMA ChangeKeeps ==
  ASSUME IInv, SavedChange
  PROVE  /\ file.id = "joined" => file'.id = "joined"
         /\ file.bound # None => file'.bound = file.bound
         /\ file.paired \subseteq file'.paired
         /\ file.routes \subseteq file'.routes
         /\ file.hello # "none" => file'.hello = file.hello
         /\ file.share => file'.share
<1>1. file \in Connection BY DEF IInv, TypeOK
<1>2. CASE file' = file BY <1>2
<1>3. CASE file = Absent BY <1>3 DEF Absent
<1>4. CASE file' = [file EXCEPT !.share = TRUE] BY <1>1, <1>4 DEF Connection
<1>5. ASSUME NEW s \in Sessions, file.bound \in {None, s},
             file' = [file EXCEPT !.bound = s]
      PROVE  file.bound # None => file'.bound = file.bound
  BY <1>1, <1>5 DEF Connection
<1>6. ASSUME NEW s \in Sessions, file' = [file EXCEPT !.bound = s]
      PROVE  /\ file'.id = file.id /\ file'.paired = file.paired
             /\ file'.routes = file.routes /\ file'.hello = file.hello
             /\ file'.share = file.share
  BY <1>1, <1>6 DEF Connection
<1>7. ASSUME NEW a \in Decisions, file' = [file EXCEPT !.id = a]
      PROVE  /\ file'.id # "none" /\ file'.paired = file.paired
             /\ file'.routes = file.routes /\ file'.hello = file.hello
             /\ file'.share = file.share /\ file'.bound = file.bound
  BY <1>1, <1>7 DEF Connection, Decisions
<1>8. CASE file.hello = "none" /\ file' = [file EXCEPT !.hello = "own"]
  BY <1>1, <1>8 DEF Connection
<1>9. ASSUME NEW p \in Peers, file' = [file EXCEPT !.paired = @ \cup {p}]
      PROVE  /\ file'.id = file.id /\ file.paired \subseteq file'.paired
             /\ file'.routes = file.routes /\ file'.hello = file.hello
             /\ file'.share = file.share /\ file'.bound = file.bound
  BY <1>1, <1>9 DEF Connection
<1>10. ASSUME NEW r \in Rooms \cup {None},
              \/ file' = [file EXCEPT !.creating = r]
              \/ file' = [file EXCEPT !.creating = None, !.routes = @ \cup {r}]
              \/ file' = [file EXCEPT !.routes = @ \cup {r}]
      PROVE  /\ file'.id = file.id /\ file'.paired = file.paired
             /\ file.routes \subseteq file'.routes /\ file'.hello = file.hello
             /\ file'.share = file.share /\ file'.bound = file.bound
  BY <1>1, <1>10 DEF Connection
<1> QED
  BY <1>2, <1>3, <1>4, <1>5, <1>6, <1>7, <1>8, <1>9, <1>10 DEF SavedChange

LEMMA StepKeeps ==
  ASSUME IInv, [Next]_vars
  PROVE  \/ Overtaken
         \/ /\ file.id = "joined" => file'.id = "joined"
            /\ file.bound # None => file'.bound = file.bound
            /\ file.paired \subseteq file'.paired
            /\ file.routes \subseteq file'.routes
            /\ file.hello # "none" => file'.hello = file.hello
            /\ file.share => file'.share
<1>1. CASE file' = file BY <1>1
<1>2. ASSUME NEW c \in Calls, SavingStep(c), ~ Overtaken PROVE SavedChange
  BY <1>2, LateSaver, SaveStep
<1> QED BY <1>1, <1>2, SavingSteps, ChangeKeeps

LEMMA StaysSaved ==
  ASSUME IInv, [Next]_vars, file.id # "none"
  PROVE  file'.id # "none"
<1>1. IInv' BY NextInv
<1>2. CASE file' = file BY <1>2
<1>3. ASSUME NEW c \in Calls, SavingStep(c) PROVE file'.id # "none"
  <2>1. calls[c].pc \in Relying
    BY <1>3 DEF SavingStep, ConnectSave, ConnectShare, BindSave, RefreshSave, PrepareShare,
      PrepareClaim, PrepareSave, AckSave, CreateMint, CreateRejected, CreateRoute, JoinSave,
      Preparing, At, Relying, LockedPhases, RoomPhases
  <2>2. Copy(c).id # "none" /\ Copy(c) \in Connection BY <2>1, CallFacts DEF CopyCurrent
  <2>3. file'.id = Copy(c).id
    BY <1>3, <2>2 DEF SavingStep, ConnectSave, ConnectShare, BindSave, RefreshSave,
      PrepareShare, PrepareClaim, PrepareSave, AckSave, CreateMint, CreateRejected,
      CreateRoute, JoinSave, Saves, Connection
  <2> QED BY <2>2, <2>3
<1> QED BY <1>2, <1>3, SavingSteps

-----------------------------------------------------------------------------
(***************************************************************************)
(* Rooms within reach.                                                     *)
(***************************************************************************)

(* The calls about to save a route stay so. *)
RoutesWait ==
  \A d \in Calls : At(d, "route") =>
    calls'[d].pc = "route" /\ calls'[d].copy = calls[d].copy

LEMMA StepKinds ==
  ASSUME IInv, [Next]_vars
  PROVE  \/ \E c \in Calls : SavingStep(c)
         \/ \E c \in Calls, b \in BOOLEAN : CreatePost(c, b)
         \/ \E p \in Procs : Crash(p)
         \/ file' = file /\ rooms' = rooms /\ RoutesWait
<1> USE CallFacts
<1> USE DEF At
<1>1. ASSUME NEW c \in Calls, NEW k, calls[c].pc # "route",
             calls' = [calls EXCEPT ![c] = k]
      PROVE  RoutesWait
  BY <1>1 DEF RoutesWait, IInv, TypeOK
<1>2. ASSUME NEW c \in Calls, calls[c].pc # "route", Ends(c) PROVE RoutesWait
  BY <1>1, <1>2 DEF Ends
<1>3. ASSUME NEW c \in Calls, calls[c].pc # "route",
             NEW phase \in Phases, NEW copy \in Connection, Goes(c, phase, copy)
      PROVE  RoutesWait
  BY <1>1, <1>3, GoesFacts
<1>4. ASSUME NEW c \in Calls,
             \/ \E p, s : Resume(c, p, s) \/ Import(c, p, s)
             \/ \E p, s, id : Connect(c, p, s, id)
             \/ \E p : ResumePending(c, p) \/ CreateLoad(c, p)
             \/ \E p, r : JoinLoad(c, p, r) \/ AckLoad(c, p, r)
      PROVE  file' = file /\ rooms' = rooms /\ RoutesWait
  <2>1. /\ calls[c].pc = "idle" /\ file' = file /\ rooms' = rooms
        /\ \E k : calls' = [calls EXCEPT ![c] = k]
    BY <1>4 DEF Resume, Import, Connect, Makes, ResumePending, CreateLoad, JoinLoad,
      AckLoad, Starts, server
  <2> QED BY <1>1, <2>1
<1>5. ASSUME NEW c \in Calls,
             \/ BindSkip(c) \/ BindRefused(c) \/ BindLoad(c) \/ RefreshLoad(c)
             \/ PrepareLoad(c) \/ PrepareFails(c) \/ Poll(c)
             \/ CreateLost(c) \/ JoinFails(c)
             \/ \E b \in BOOLEAN : PrepareHello(c, b) \/ CreateRetry(c, b)
      PROVE  file' = file /\ rooms' = rooms /\ RoutesWait
  <2>1. calls[c].pc # "route" /\ file' = file /\ rooms' = rooms
    BY <1>5 DEF BindSkip, BindRefused, BindLoad, RefreshLoad, PrepareLoad, PrepareFails,
      Poll, CreateLost, JoinFails, PrepareHello, CreateRetry, Preparing, server
  <2>2. \E k : calls' = [calls EXCEPT ![c] = k]
    <3>1. Ends(c) => \E k : calls' = [calls EXCEPT ![c] = k] BY DEF Ends
    <3>2. ASSUME NEW phase, NEW copy, Goes(c, phase, copy)
          PROVE  \E k : calls' = [calls EXCEPT ![c] = k]
      BY <3>2 DEF Goes, IInv, TypeOK, Call
    <3>3. Poll(c) => \E k : calls' = [calls EXCEPT ![c] = k]
      BY <3>1 DEF Poll, IInv, TypeOK, Call
    <3>4. RefreshLoad(c) => \E k : calls' = [calls EXCEPT ![c] = k]
      BY <3>2 DEF RefreshLoad
    <3>5. PrepareHello(c, TRUE) \/ PrepareHello(c, FALSE) =>
            \E k : calls' = [calls EXCEPT ![c] = k]
      BY <3>1, <3>2 DEF PrepareHello
    <3> QED BY <1>5, <3>1, <3>2, <3>3, <3>4, <3>5 DEF BindSkip, BindRefused, BindLoad,
      PrepareLoad, PrepareFails, CreateLost, JoinFails, CreateRetry
  <2> QED BY <1>1, <2>1, <2>2
<1>6. ASSUME NEW c \in Calls, ConnectShare(c), ~ SavingStep(c)
      PROVE  file' = file /\ rooms' = rooms /\ RoutesWait
  <2>1. /\ calls[c].pc = "sharing" /\ file' = file /\ rooms' = rooms
        /\ Ends(c) \/ \E connection, k : Saves(c, connection, k)
    BY <1>6 DEF ConnectShare, SavingStep, server
  <2>2. ASSUME NEW connection, NEW k, Saves(c, connection, k) PROVE RoutesWait
    BY <2>1, <2>2, Others DEF RoutesWait
  <2> QED BY <1>2, <2>1, <2>2
<1>7. ASSUME NEW c \in Calls, Setup(c), ~ SavingStep(c)
      PROVE  file' = file /\ rooms' = rooms /\ RoutesWait
  BY <1>4, <1>5, <1>6, <1>7 DEF Setup, SavingStep
<1>8. ASSUME NEW c \in Calls, RoomTool(c), ~ SavingStep(c),
             \A b \in BOOLEAN : ~ CreatePost(c, b)
      PROVE  file' = file /\ rooms' = rooms /\ RoutesWait
  BY <1>4, <1>5, <1>8 DEF RoomTool, SavingStep
<1>9. CASE (\E d \in {"joined", "denied"} : Decide(d)) \/ UNCHANGED vars
  BY <1>9 DEF Decide, vars, RoutesWait
<1>10. ASSUME NEW c \in Calls, AckSave(c) PROVE SavingStep(c) BY <1>10 DEF SavingStep
<1> QED BY <1>4, <1>7, <1>8, <1>9, <1>10 DEF Next

(* Only a creation that begins, is rejected or gets its route touches the    *)
(* saved creation.                                                           *)
LEMMA CreatingKept ==
  ASSUME IInv, NEW c \in Calls, ~ calls[c].late, SavingStep(c)
  PROVE  /\ rooms' = rooms
         /\ \/ file.creating = None \/ file'.creating = file.creating
            \/ CreateRejected(c) \/ CreateRoute(c)
         /\ calls[c].pc = "route" => CreateRoute(c)
<1> USE CallFacts
<1> USE DEF At, Saves, Preparing
<1>1. rooms' = rooms
  BY DEF SavingStep, ConnectSave, ConnectShare, BindSave, RefreshSave, PrepareShare,
    PrepareClaim, PrepareSave, AckSave, CreateMint, CreateRejected, CreateRoute, JoinSave,
    server
<1>2. calls[c].pc = "route" => CreateRoute(c)
  BY DEF SavingStep, ConnectSave, ConnectShare, BindSave, RefreshSave, PrepareShare,
    PrepareClaim, PrepareSave, AckSave, CreateMint, CreateRejected, JoinSave
<1>3. ASSUME ConnectSave(c) PROVE file.creating = None
  <2>1. file = Absent BY <1>3 DEF ConnectSave, CopyCurrent
  <2> QED BY <2>1 DEF Absent
<1>4. ASSUME \/ ConnectShare(c) \/ BindSave(c) \/ PrepareShare(c) \/ PrepareClaim(c)
             \/ AckSave(c) \/ JoinSave(c) \/ RefreshSave(c) \/ PrepareSave(c)
      PROVE  file'.creating = file.creating
  <2>1. Copy(c).creating = file.creating
    <3>1. calls[c].pc \in {"sharing", "bind", "prepare", "ack", "join", "refresh", "prepared"}
      BY <1>4 DEF ConnectShare, BindSave, PrepareShare, PrepareClaim, AckSave, JoinSave,
        RefreshSave, PrepareSave
    <3>2. CASE calls[c].pc \in {"sharing", "bind", "prepare", "ack", "join"}
      BY <3>2 DEF CopyCurrent, RoomPhases
    <3>3. CASE calls[c].pc = "refresh"
      <4>1. Copy(c) = [file EXCEPT !.id = calls[c].answer] BY <3>3 DEF CopyCurrent
      <4> QED BY <4>1 DEF Connection
    <3>4. CASE calls[c].pc = "prepared"
      <4>1. Copy(c) = [file EXCEPT !.hello = "own"] BY <3>4 DEF CopyCurrent
      <4> QED BY <4>1 DEF Connection
    <3> QED BY <3>1, <3>2, <3>3, <3>4
  <2> QED BY <1>4, <2>1 DEF ConnectShare, BindSave, PrepareShare, PrepareClaim, AckSave,
    JoinSave, RefreshSave, PrepareSave, Connection
<1>5. ASSUME NEW r \in Rooms, CreateMint(c, r) PROVE file.creating = None
  BY <1>5 DEF CreateMint, CopyCurrent, RoomPhases
<1> QED BY <1>1, <1>2, <1>3, <1>4, <1>5 DEF SavingStep

LEMMA ReachKept ==
  ASSUME IInv, [Next]_vars, ~ Overtaken, NEW r \in rooms', ~ Refused(r),
         r \in rooms => Reachable(r)
  PROVE  Reachable(r)'
<1> USE ConnectionAssumption, CallFacts
<1> USE DEF At, Copy
<1>0. r \in Rooms /\ r # None
  <2>1. IInv' BY NextInv
  <2> QED BY <2>1 DEF IInv, TypeOK
<1>1. ASSUME NEW d \in Calls, calls'[d].pc = "route", calls'[d].copy.creating = r
      PROVE  Reachable(r)'
  BY <1>1 DEF Reachable
<1>2. r \in file'.routes \/ r = file'.creating => Reachable(r)' BY DEF Reachable
<1>3. CASE file' = file /\ rooms' = rooms /\ RoutesWait
  BY <1>1, <1>2, <1>3 DEF Reachable, RoutesWait
<1>4. ASSUME NEW c \in Calls, NEW b \in BOOLEAN, CreatePost(c, b) PROVE Reachable(r)'
  <2>1. /\ calls[c].pc = "post" /\ file' = file /\ rooms' = rooms \cup {calls[c].copy.creating}
        /\ Goes(c, "route", Copy(c)) \/ Ends(c)
    BY <1>4 DEF CreatePost
  <2>2. \A d \in Calls \ {c} : calls'[d] = calls[d]
    BY <2>1 DEF Goes, Ends, IInv, TypeOK
  <2>3. CASE r \in rooms BY <1>1, <1>2, <2>1, <2>2, <2>3 DEF Reachable
  <2>4. CASE r = calls[c].copy.creating
    <3>1. CASE Ends(c)
      <4>1. calls'[c] = Idle /\ Idle.late = FALSE
        BY <3>1, IdleFacts DEF Ends, IInv, TypeOK
      <4>2. ~ calls[c].late BY <4>1 DEF Overtaken
      <4>3. calls[c].copy = file BY <2>1, <4>2 DEF CopyCurrent, RoomPhases
      <4> QED BY <1>2, <2>1, <2>4, <4>3
    <3>2. CASE Goes(c, "route", Copy(c))
      <4>1. calls'[c].pc = "route" /\ calls'[c].copy = Copy(c)
        BY <3>2 DEF Goes, IInv, TypeOK, Call
      <4> QED BY <1>1, <2>4, <4>1
    <3> QED BY <2>1, <3>1, <3>2
  <2> QED BY <2>1, <2>3, <2>4
<1>5. ASSUME NEW p \in Procs, Crash(p) PROVE Reachable(r)'
  <2>1. /\ calls' = [c \in Calls |-> IF calls[c].proc = p THEN Idle ELSE calls[c]]
        /\ file' = file /\ rooms' = rooms
    BY <1>5 DEF Crash, server
  <2>2. ASSUME NEW d \in Calls, calls[d].pc = "route", calls[d].copy.creating = r
        PROVE  Reachable(r)'
    <3>1. CASE calls'[d] = calls[d] BY <1>1, <2>2, <3>1
    <3>2. CASE calls'[d] = Idle
      <4>1. ~ calls[d].late BY <3>2, IdleFacts DEF Overtaken
      <4>2. calls[d].copy = file BY <2>2, <4>1 DEF CopyCurrent, RoomPhases
      <4> QED BY <1>2, <2>1, <2>2, <4>2
    <3> QED BY <2>1, <3>1, <3>2
  <2> QED BY <1>2, <2>1, <2>2 DEF Reachable
<1>6. ASSUME NEW c \in Calls, SavingStep(c) PROVE Reachable(r)'
  <2>1. ~ calls[c].late BY <1>6, LateSaver
  <2>2. /\ rooms' = rooms
        /\ \/ file.creating = None \/ file'.creating = file.creating
           \/ CreateRejected(c) \/ CreateRoute(c)
        /\ calls[c].pc = "route" => CreateRoute(c)
    BY <1>6, <2>1, CreatingKept
  <2>3. file.routes \subseteq file'.routes BY StepKeeps
  <2>4. \A d \in Calls \ {c} : calls'[d].pc = calls[d].pc /\ calls'[d].copy = calls[d].copy
    BY <1>6, LateSaver, Others
  <2>5. CreateRoute(c) => calls[c].copy = file /\ file.creating \in file'.routes
    <3> SUFFICES ASSUME CreateRoute(c)
                 PROVE  calls[c].copy = file /\ file.creating \in file'.routes
      OBVIOUS
    <3>1. calls[c].copy = file BY <2>1 DEF CreateRoute, CopyCurrent, RoomPhases
    <3> QED BY <3>1 DEF CreateRoute, Saves, Connection
  <2>6. CreateRejected(c) => file.creating # r
    <3> SUFFICES ASSUME CreateRejected(c), file.creating = r PROVE FALSE OBVIOUS
    <3>1. calls[c].pc = "post" /\ file' = [Copy(c) EXCEPT !.creating = None]
      BY DEF CreateRejected, Saves
    <3>2. calls[c].copy = file BY <2>1, <3>1 DEF CopyCurrent, RoomPhases
    <3> QED BY <3>1, <3>2 DEF Refused
  <2>7. CASE r \in file.routes BY <1>2, <2>3, <2>7
  <2>8. CASE r = file.creating BY <1>0, <1>2, <2>2, <2>5, <2>6, <2>8
  <2>9. ASSUME NEW d \in Calls, calls[d].pc = "route", calls[d].copy.creating = r
        PROVE  Reachable(r)'
    <3>1. CASE d = c BY <1>2, <2>2, <2>5, <2>9, <3>1
    <3>2. CASE d # c BY <1>1, <2>4, <2>9, <3>2
    <3> QED BY <3>1, <3>2
  <2> QED BY <2>2, <2>7, <2>8, <2>9 DEF Reachable
<1> QED BY <1>3, <1>4, <1>5, <1>6, StepKinds

-----------------------------------------------------------------------------
(***************************************************************************)
(* The theorems.                                                           *)
(***************************************************************************)

(* The inductive invariant: a call that is going to save the whole file has  *)
(* a copy that differs from it in its own change only, unless a room tool or *)
(* another process has saved since it was loaded (save, under the broker's   *)
(* mutex or without it).                                                     *)
THEOREM Invariance == Spec => []IInv
BY InitInv, NextInv, PTL DEF Spec

(* The file, the calls and the server's record stay well typed.              *)
THEOREM TypeCorrect == Spec => []TypeOK
<1>1. IInv => TypeOK BY DEF IInv
<1> QED BY <1>1, Invariance, PTL

(* createLocalEncryptedRoom saves the identity before it asks the server: a  *)
(* room the server made goes out of reach only where an overtaken call saves *)
(* or ends, or where its creation is answered with HTTP 4xx.                 *)
THEOREM RoomKept == Spec => CreatedRoomKept
<1>1. ASSUME IInv, [Next]_vars
      PROVE  [\A r \in rooms' :
                \/ Reachable(r)'
                \/ r \in rooms /\ ~ Reachable(r)
                \/ Overtaken
                \/ Refused(r)]_vars
  BY <1>1, ReachKept
<1> QED BY <1>1, Invariance, PTL DEF Spec, CreatedRoomKept

(* refreshJoin: the saved receipt or credential is never lost, and a         *)
(* credential falls back to a receipt only where an overtaken call saves.    *)
THEOREM Identity == Spec => IdentityKept
<1>1. ASSUME IInv, [Next]_vars
      PROVE  [/\ file.id # "none" => file'.id # "none"
              /\ file.id = "joined" => file'.id = "joined" \/ Overtaken]_vars
  BY <1>1, StepKeeps, StaysSaved
<1> QED BY <1>1, Invariance, PTL DEF Spec, IdentityKept

(* bindHook and bindCodex: the session that bound the connection keeps it,   *)
(* unless an overtaken call saves.                                           *)
THEOREM Binding == Spec => BindingStable
<1>1. ASSUME IInv, [Next]_vars
      PROVE  [file.bound # None => file'.bound = file.bound \/ Overtaken]_vars
  BY <1>1, StepKeeps
<1> QED BY <1>1, Invariance, PTL DEF Spec, BindingStable

(* A save undoes what another call saved (paired peers, routes, the share    *)
(* link, the announcement) only if a room tool or another process overtook   *)
(* it (save, prepare, connectionEvent).                                      *)
THEOREM Kept == Spec => NothingForgotten
<1>1. ASSUME IInv, [Next]_vars
      PROVE  [\/ /\ file.paired \subseteq file'.paired
                 /\ file.routes \subseteq file'.routes
                 /\ file.hello # "none" => file'.hello = file.hello
                 /\ file.share => file'.share
              \/ Overtaken]_vars
  BY <1>1, StepKeeps
<1> QED BY <1>1, Invariance, PTL DEF Spec, NothingForgotten
=============================================================================
