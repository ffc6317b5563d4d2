----------------------------- MODULE Connection -----------------------------
(***************************************************************************)
(* The saved connection of one handle and the calls that work on it:       *)
(* cmd/tincan/plugin.go (save, load, connect, prepare, importDirect and the *)
(* tincan_connect handler), join_approval.go, bindHook (harness.go),        *)
(* bindCodex (plugin_codex.go), the pairing receipt of connectionEvent      *)
(* (plugin_background.go) and the two tools that add encrypted rooms        *)
(* (room_encryption.go, room_crypto_routes.go).                             *)
(*                                                                         *)
(* A save writes the whole file.  Most callers hold their broker's mutex    *)
(* from their load to their save; the room tools load when the tool is      *)
(* called and save without it, and a host may run several MCP processes,    *)
(* each with a mutex of its own, on the same vault (plugin_inbox_owner.go). *)
(* A step ends at each load, save and request, and a process can die after  *)
(* any of them.                                                             *)
(***************************************************************************)
EXTENDS Naturals

CONSTANTS
  Procs,    \* MCP processes that share the vault
  Calls,    \* concurrent calls of all processes: tools and background loops
  Sessions, \* harness sessions or Codex threads that claim the connection
  Peers,    \* peers that acknowledge the announcement
  Rooms,    \* encrypted rooms
  None

ASSUME ConnectionAssumption ==
  None \notin Procs \cup Sessions \cup Peers \cup Rooms

VARIABLES
  file,      \* the saved connection
  calls,     \* each call: where it is, its process, session or peer, its copy
  decision,  \* server: the join request
  announced, \* server: the announcement is in the channel; known: its answer has
             \* been saved, so that a stream loop may have started with it
  rooms,     \* server: encrypted rooms created by this connection
  minted,    \* room identities made so far
  foreign    \* server: encrypted rooms that others created

vars == <<file, calls, decision, announced, rooms, minted, foreign>>
server == <<decision, announced, rooms, minted, foreign>>

Decisions == {"pending", "denied", "joined"}

(* pluginConnection; id stands for Token and PendingJoin, bound for HookHost, *)
(* HookSessionID and CodexThreadID, routes for the rooms of CryptoRooms: a    *)
(* room that is joined again gets another key path.                           *)
Connection ==
  [id : Decisions \cup {"none"}, bound : Sessions \cup {None},
   share : BOOLEAN, hello : {"none", "own", "imported"},
   paired : SUBSET Peers, routes : SUBSET Rooms, creating : Rooms \cup {None}]

(* Phases of a call: it holds the mutex of its process, or it is a room tool. *)
LockedPhases == {"bind", "refresh", "prepare", "prepared", "ack"}
RoomPhases == {"create", "post", "route", "join"}

(* The call will save a copy it loaded or made before. *)
Relying == LockedPhases \cup RoomPhases \cup {"connected", "sharing"}

Phases == Relying \cup {"idle", "binding", "polling", "polled", "preparing"}

(* fresh: the call made the connection and nobody else has its handle yet.   *)
(* late is a history variable: since the call took its copy, a call that     *)
(* does not share its mutex has saved.                                       *)
Call ==
  [pc : Phases, proc : Procs \cup {None}, fresh : BOOLEAN,
   arg : Sessions \cup Peers \cup Rooms \cup {None},
   answer : Decisions, copy : Connection, late : BOOLEAN]

Absent ==
  [id |-> "none", bound |-> None, share |-> FALSE, hello |-> "none",
   paired |-> {}, routes |-> {}, creating |-> None]

Idle ==
  [pc |-> "idle", proc |-> None, fresh |-> FALSE, arg |-> None,
   answer |-> "pending", copy |-> Absent, late |-> FALSE]

TypeOK ==
  /\ file \in Connection
  /\ calls \in [Calls -> Call]
  /\ decision \in Decisions
  /\ announced \in {"no", "posted", "known"}
  /\ rooms \subseteq Rooms /\ minted \subseteq Rooms /\ foreign \subseteq Rooms

Init ==
  /\ file = Absent
  /\ calls = [c \in Calls |-> Idle]
  /\ decision = "pending" /\ announced = "no" /\ rooms = {} /\ minted = {}
  /\ foreign \in SUBSET Rooms

-----------------------------------------------------------------------------
At(c, phase) == calls[c].pc = phase
Copy(c) == calls[c].copy

(* The mutex of the call's process. *)
Free(p) == \A d \in Calls : calls[d].proc = p => calls[d].pc \notin LockedPhases
Locks(c) == Free(calls[c].proc)

Goes(c, phase, copy) ==
  calls' = [calls EXCEPT ![c].pc = phase, ![c].copy = copy]

Ends(c) == calls' = [calls EXCEPT ![c] = Idle]

(* Call c saves while d is going to: the mutex of their process, when both   *)
(* hold it, is to prevent that.                                              *)
Overtakes(c, d) ==
  /\ calls[d].pc \in Relying
  /\ ~ /\ calls[c].proc = calls[d].proc
       /\ {calls[c].pc, calls[d].pc} \subseteq LockedPhases

(* save: the file is replaced as a whole; the call goes on as k. *)
Saves(c, connection, k) ==
  /\ file' = connection
  /\ calls' = [d \in Calls |->
       IF d = c THEN k
       ELSE [calls[d] EXCEPT !.late = calls[d].late \/ Overtakes(c, d)]]

Saved(c, phase, copy) ==
  [calls[c] EXCEPT !.pc = phase, !.copy = copy, !.late = FALSE]

(* The call goes on without its copy: it will load the connection again. *)
Forgets(c, phase) == [Idle EXCEPT !.pc = phase, !.proc = calls[c].proc]

(* A call on the saved connection. *)
Starts(c, p, phase, arg, copy) ==
  /\ At(c, "idle") /\ file.id # "none"
  /\ \A d \in Calls : ~ calls[d].fresh
  /\ calls' = [calls EXCEPT ![c] =
       [pc |-> phase, proc |-> p, fresh |-> FALSE, arg |-> arg,
        answer |-> "pending", copy |-> copy, late |-> FALSE]]

-----------------------------------------------------------------------------
(***************************************************************************)
(* connect and importDirect: the handle is new, no other call knows it.    *)
(***************************************************************************)
Makes(c, p, s, connection) ==
  /\ file.id = "none" /\ \A d \in Calls : At(d, "idle")
  /\ calls' = [calls EXCEPT ![c] =
       [pc |-> "connected", proc |-> p, fresh |-> TRUE, arg |-> s,
        answer |-> "pending", copy |-> connection, late |-> FALSE]]
  /\ decision' = connection.id
  /\ UNCHANGED <<file, announced, rooms, minted, foreign>>

Connect(c, p, s, id) == Makes(c, p, s, [Absent EXCEPT !.id = id])

(* An identity that already has its credential and its introduction. *)
Import(c, p, s) ==
  Makes(c, p, s, [Absent EXCEPT !.id = "joined", !.hello = "imported"])

(* "Persist credentials before MLS initialization". *)
ConnectSave(c) ==
  /\ At(c, "connected")
  /\ Saves(c, Copy(c),
       Saved(c, IF Copy(c).id = "joined" /\ Copy(c).hello = "none"
                THEN "sharing" ELSE "binding", Copy(c)))
  /\ UNCHANGED server

ConnectShare(c) ==
  LET shared == [Copy(c) EXCEPT !.share = TRUE] IN
  /\ At(c, "sharing")
  /\ \/ Saves(c, shared, Saved(c, "binding", shared))
     \/ Ends(c) /\ UNCHANGED file
  /\ UNCHANGED server

(* tincan_connect with a handle. *)
Resume(c, p, s) ==
  /\ Starts(c, p, "binding", s, file)
  /\ UNCHANGED <<file, server>>

(* The loop of startPendingJoin, which binds no session. *)
ResumePending(c, p) ==
  /\ file.id # "joined" /\ Starts(c, p, "polling", None, Absent)
  /\ UNCHANGED <<file, server>>

-----------------------------------------------------------------------------
(***************************************************************************)
(* bindHook and bindCodex; a receipt is then exchanged, a joined connection *)
(* prepared.                                                                *)
(***************************************************************************)
BoundTo(c) == Forgets(c, IF Copy(c).id = "joined" THEN "preparing" ELSE "polling")

BindSkip(c) ==
  /\ At(c, "binding") /\ calls[c].arg = None
  /\ calls' = [calls EXCEPT ![c] = BoundTo(c)]
  /\ UNCHANGED <<file, server>>

(* tincan_connect and bindCodex look at the copy before they take the mutex. *)
BindRefused(c) ==
  /\ At(c, "binding") /\ calls[c].arg # None
  /\ Copy(c).bound \notin {None, calls[c].arg}
  /\ Ends(c)
  /\ UNCHANGED <<file, server>>

(* Mutant of BindLoad: only the copy of the call is checked. *)
BindLoadUnchecked(c) ==
  /\ At(c, "binding") /\ calls[c].arg # None /\ Locks(c)
  /\ IF Copy(c).bound \in {None, calls[c].arg} THEN Goes(c, "bind", file) ELSE Ends(c)
  /\ UNCHANGED <<file, server>>

BindLoad(c) ==
  /\ At(c, "binding") /\ calls[c].arg # None /\ Locks(c)
  /\ IF file.bound \in {None, calls[c].arg} THEN Goes(c, "bind", file) ELSE Ends(c)
  /\ UNCHANGED <<file, server>>

BindSave(c) ==
  /\ At(c, "bind")
  /\ Saves(c, [Copy(c) EXCEPT !.bound = calls[c].arg], BoundTo(c))
  /\ UNCHANGED server

-----------------------------------------------------------------------------
(***************************************************************************)
(* refreshJoin: the server is asked before the mutex is taken.             *)
(***************************************************************************)
Decide(d) ==
  /\ decision = "pending" /\ file.id # "none"
  /\ decision' = d
  /\ UNCHANGED <<file, calls, announced, rooms, minted, foreign>>

Poll(c) ==
  /\ At(c, "polling")
  /\ \/ calls' = [calls EXCEPT ![c].pc = "polled", ![c].answer = decision]
     \/ Ends(c)
  /\ UNCHANGED <<file, server>>

(* Mutant of RefreshLoad: the answer is applied to any saved connection. *)
RefreshLoadAlways(c) ==
  /\ At(c, "polled") /\ Locks(c)
  /\ Goes(c, "refresh", [file EXCEPT !.id = calls[c].answer])
  /\ UNCHANGED <<file, server>>

RefreshLoad(c) ==
  /\ At(c, "polled") /\ Locks(c)
  /\ IF file.id = "joined"
     THEN calls' = [calls EXCEPT ![c] = Forgets(c, "preparing")]
     ELSE Goes(c, "refresh", [file EXCEPT !.id = calls[c].answer])
  /\ UNCHANGED <<file, server>>

RefreshSave(c) ==
  /\ At(c, "refresh")
  /\ Saves(c, Copy(c),
       IF Copy(c).id = "joined" THEN Forgets(c, "preparing") ELSE Idle)
  /\ UNCHANGED server

-----------------------------------------------------------------------------
(***************************************************************************)
(* prepare holds the mutex over its requests, which need the credential.   *)
(***************************************************************************)
PrepareLoad(c) ==
  /\ At(c, "preparing") /\ Locks(c)
  /\ Goes(c, "prepare", file)
  /\ UNCHANGED <<file, server>>

PrepareFails(c) ==
  /\ At(c, "prepare")
  /\ Ends(c)
  /\ UNCHANGED <<file, server>>

Preparing(c) == At(c, "prepare") /\ Copy(c).id = "joined"

(* The share link is requested when there is none, or it has expired. *)
PrepareShare(c) ==
  LET shared == [Copy(c) EXCEPT !.share = TRUE] IN
  /\ Preparing(c)
  /\ Saves(c, shared, Saved(c, "prepare", shared))
  /\ UNCHANGED server

(* The claim link, requested where the workspace is not claimed, is not      *)
(* modelled; its save is.                                                    *)
PrepareClaim(c) ==
  /\ Preparing(c) /\ Copy(c).share
  /\ Saves(c, Copy(c), Saved(c, "prepare", Copy(c)))
  /\ UNCHANGED server

(* The announcement, which the server keeps once per idempotency key; its    *)
(* answer arrives or is lost.                                                *)
PrepareHello(c, answered) ==
  /\ Preparing(c) /\ Copy(c).share /\ Copy(c).hello = "none"
  /\ announced' = IF announced = "no" THEN "posted" ELSE announced
  /\ IF answered
     THEN Goes(c, "prepared", [Copy(c) EXCEPT !.hello = "own"])
     ELSE Ends(c)
  /\ UNCHANGED <<file, decision, rooms, minted, foreign>>

PrepareSave(c) ==
  /\ At(c, "prepared") \/ (Preparing(c) /\ Copy(c).share /\ Copy(c).hello # "none")
  /\ Saves(c, Copy(c), Idle)
  /\ announced' = IF Copy(c).hello = "own" THEN "known" ELSE announced
  /\ UNCHANGED <<decision, rooms, minted, foreign>>

-----------------------------------------------------------------------------
(***************************************************************************)
(* connectionEvent: a peer acknowledged the announcement.  The stream loop, *)
(* of whichever process owns the inbox, compares it with the announcement   *)
(* it started with and not with the file.                                   *)
(***************************************************************************)
(* Mutant of AckLoad: the connection is loaded before the mutex is taken. *)
AckLoadUnlocked(c, p, peer) ==
  /\ announced = "known"
  /\ Starts(c, p, "ack", peer, file)
  /\ UNCHANGED <<file, server>>

AckLoad(c, p, peer) ==
  /\ announced = "known" /\ Free(p)
  /\ Starts(c, p, "ack", peer, file)
  /\ UNCHANGED <<file, server>>

AckSave(c) ==
  /\ At(c, "ack")
  /\ Saves(c, [Copy(c) EXCEPT !.paired = @ \cup {calls[c].arg}], Idle)
  /\ UNCHANGED server

-----------------------------------------------------------------------------
(***************************************************************************)
(* createLocalEncryptedRoom.                                               *)
(***************************************************************************)
CreateLoad(c, p) ==
  /\ Starts(c, p, "create", None, file)
  /\ UNCHANGED <<file, server>>

(* Mutant of CreateMint: the identity is saved with the route only. *)
CreateMintUnsaved(c, r) ==
  /\ At(c, "create") /\ Copy(c).creating = None /\ r \notin minted \cup foreign
  /\ Goes(c, "post", [Copy(c) EXCEPT !.creating = r])
  /\ minted' = minted \cup {r}
  /\ UNCHANGED <<file, decision, announced, rooms, foreign>>

(* "Save the creation identity before HTTP so uncertain responses are       *)
(* retryable."                                                              *)
CreateMint(c, r) ==
  LET drafted == [Copy(c) EXCEPT !.creating = r] IN
  /\ At(c, "create") /\ Copy(c).creating = None /\ r \notin minted \cup foreign
  /\ Saves(c, drafted, Saved(c, "post", drafted))
  /\ minted' = minted \cup {r}
  /\ UNCHANGED <<decision, announced, rooms, foreign>>

(* A creation that was not finished, asked for again or by another name. *)
CreateRetry(c, sameName) ==
  /\ At(c, "create") /\ Copy(c).creating # None
  /\ IF sameName THEN Goes(c, "post", Copy(c)) ELSE Ends(c)
  /\ UNCHANGED <<file, server>>

CreatePost(c, answered) ==
  /\ At(c, "post") /\ Copy(c).id = "joined"
  /\ rooms' = rooms \cup {Copy(c).creating}
  /\ IF answered THEN Goes(c, "route", Copy(c)) ELSE Ends(c)
  /\ UNCHANGED <<file, decision, announced, minted, foreign>>

CreateLost(c) ==
  /\ At(c, "post")
  /\ Ends(c)
  /\ UNCHANGED <<file, server>>

(* HTTP 4xx, a rejected credential, a timeout or a rate limit included: the  *)
(* creation is dropped although an earlier request may have made the room.   *)
CreateRejected(c) ==
  /\ At(c, "post")
  /\ Saves(c, [Copy(c) EXCEPT !.creating = None], Idle)
  /\ UNCHANGED server

(* "Save the route before initialization so interrupted setup resumes the   *)
(* same group."                                                             *)
CreateRoute(c) ==
  /\ At(c, "route")
  /\ Saves(c, [Copy(c) EXCEPT !.creating = None,
                               !.routes = @ \cup {Copy(c).creating}], Idle)
  /\ UNCHANGED server

-----------------------------------------------------------------------------
(***************************************************************************)
(* joinIndependentRoom, for a room that may have a route already.          *)
(***************************************************************************)
JoinLoad(c, p, r) ==
  /\ file.id = "joined" /\ r \in foreign \cup rooms
  /\ Starts(c, p, "join", r, file)
  /\ UNCHANGED <<file, server>>

JoinFails(c) ==
  /\ At(c, "join")
  /\ Ends(c)
  /\ UNCHANGED <<file, server>>

JoinSave(c) ==
  /\ At(c, "join")
  /\ Saves(c, [Copy(c) EXCEPT !.routes = @ \cup {calls[c].arg}], Idle)
  /\ UNCHANGED server

-----------------------------------------------------------------------------
(* The process p dies with its calls. *)
Crash(p) ==
  /\ \E c \in Calls : calls[c].proc = p
  /\ calls' = [c \in Calls |-> IF calls[c].proc = p THEN Idle ELSE calls[c]]
  /\ UNCHANGED <<file, server>>

Setup(c) ==
  \/ \E p \in Procs, s \in Sessions \cup {None} :
       \/ Resume(c, p, s)
       \/ \E id \in {"pending", "joined"} : Connect(c, p, s, id)
       \/ Import(c, p, s)
  \/ \E p \in Procs : ResumePending(c, p)
  \/ ConnectSave(c) \/ ConnectShare(c)
  \/ BindSkip(c) \/ BindRefused(c) \/ BindLoad(c) \/ BindSave(c)
  \/ Poll(c) \/ RefreshLoad(c) \/ RefreshSave(c)
  \/ PrepareLoad(c) \/ PrepareFails(c) \/ PrepareShare(c) \/ PrepareClaim(c)
  \/ \E answered \in BOOLEAN : PrepareHello(c, answered)
  \/ PrepareSave(c)

RoomTool(c) ==
  \/ \E p \in Procs : CreateLoad(c, p) \/ \E r \in Rooms : JoinLoad(c, p, r)
  \/ \E r \in Rooms : CreateMint(c, r)
  \/ \E b \in BOOLEAN : CreateRetry(c, b) \/ CreatePost(c, b)
  \/ CreateLost(c) \/ CreateRejected(c) \/ CreateRoute(c)
  \/ JoinFails(c) \/ JoinSave(c)

Next ==
  \/ \E c \in Calls :
       \/ Setup(c) \/ RoomTool(c)
       \/ \E p \in Procs, peer \in Peers : AckLoad(c, p, peer)
       \/ AckSave(c)
  \/ \E d \in {"joined", "denied"} : Decide(d)
  \/ \E p \in Procs : Crash(p)

Spec == Init /\ [][Next]_vars

-----------------------------------------------------------------------------
(***************************************************************************)
(* Properties.  What one call saved can be undone by another: by a room     *)
(* tool, which takes no mutex, or from another process, which has another.  *)
(* The properties say that this is the only way: a call that no such call   *)
(* has overtaken undoes nothing.                                             *)
(***************************************************************************)
(* An overtaken call saves (or ends) in this step.                           *)
Overtaken == \E c \in Calls : calls[c].late /\ ~ calls'[c].late

(* "Private vaults persist receipts so a restart cannot redeem a second     *)
(* invite" (refreshJoin): the saved connection never loses its receipt or    *)
(* credential, and a credential falls back to a receipt only where an        *)
(* overtaken call saves; calls of one process that exchange the receipt side *)
(* by side do not undo each other.                                           *)
IdentityKept ==
  [][/\ file.id # "none" => file'.id # "none"
     /\ file.id = "joined" => file'.id = "joined" \/ Overtaken]_vars

(* The session that bound the connection keeps it (bindHook, bindCodex check *)
(* under the mutex), unless an overtaken call saves: two processes that bind *)
(* at once, or a room tool that loaded the connection before it was bound.   *)
BindingStable ==
  [][file.bound # None => file'.bound = file.bound \/ Overtaken]_vars

(* A paired peer, a room's route, the share link and the announcement are    *)
(* forgotten only where an overtaken call saves: calls that hold the mutex   *)
(* of one process do not undo each other, nor does a call that ran alone     *)
(* (save, prepare, connectionEvent, createLocalEncryptedRoom).               *)
NothingForgotten ==
  [][\/ /\ file.paired \subseteq file'.paired
        /\ file.routes \subseteq file'.routes
        /\ file.hello # "none" => file'.hello = file.hello
        /\ file.share => file'.share
     \/ Overtaken]_vars

(* The room r can be used or resumed: it has a saved route, it is the saved  *)
(* creation, or a call is about to save its route.                           *)
Reachable(r) ==
  \/ r \in file.routes \/ r = file.creating
  \/ \E c \in Calls : At(c, "route") /\ Copy(c).creating = r

(* The server answers the creation of r with HTTP 4xx.                       *)
Refused(r) ==
  \E c \in Calls :
    /\ At(c, "post") /\ Copy(c).creating = r
    /\ file' = [Copy(c) EXCEPT !.creating = None]

(* "Save the creation identity before HTTP": whatever answer is lost and     *)
(* wherever a process dies, a room the server made stays within reach, but   *)
(* for the two ways createLocalEncryptedRoom loses one: an overtaken call,   *)
(* and HTTP 4xx to the retry of a creation that had succeeded.               *)
CreatedRoomKept ==
  [][\A r \in rooms' :
       \/ Reachable(r)'
       \/ r \in rooms /\ ~ Reachable(r)
       \/ Overtaken
       \/ Refused(r)]_vars


-----------------------------------------------------------------------------
(***************************************************************************)
(* The inductive invariant of the proofs.                                  *)
(***************************************************************************)
(* The calls that hold a mutex are calls of different processes.             *)
MutexHeld ==
  \A c, d \in Calls :
    /\ c # d /\ calls[c].proc = calls[d].proc
    /\ calls[c].pc \in LockedPhases
    => calls[d].pc \notin LockedPhases

(* What a call knows: the copy it is going to save is a connection with its  *)
(* own change, and unless it has been overtaken the rest of it is the file f. *)
CopyCurrent(k, f) ==
  /\ k.late => k.pc \in Relying
  /\ k.pc \in Relying \cup {"binding"} => k.copy.id # "none"
  /\ k.pc \notin {"idle", "connected"} => f.id # "none"
  /\ k.pc \in {"connected", "sharing", "binding"} => k.arg \in Sessions \cup {None}
  /\ k.pc = "bind" => k.arg \in Sessions /\ k.copy.bound \in {None, k.arg}
  /\ k.pc = "ack" => k.arg \in Peers
  /\ k.pc = "join" => k.arg \in Rooms
  /\ k.pc \in {"post", "route"} => k.copy.creating \in Rooms
  /\ ~ k.late =>
       /\ k.pc = "connected" => f = Absent
       /\ k.pc \in {"sharing", "bind", "prepare", "ack"} \cup RoomPhases => k.copy = f
       /\ k.pc = "refresh" => f.id # "joined" /\ k.copy = [f EXCEPT !.id = k.answer]
       /\ k.pc = "prepared" => f.hello = "none" /\ k.copy = [f EXCEPT !.hello = "own"]

IInv ==
  /\ TypeOK
  /\ file.id = "none" => file = Absent
  /\ MutexHeld
  /\ \A c \in Calls : CopyCurrent(calls[c], file)
=============================================================================
