# TLA+ verification of the Tincan plugin

This directory is a TLA+ development of the local runtime in `cmd/tincan`: the
process that connects an agent to a Tincan server, receives its events, hands
them to workers, asks the user for permission and posts the replies. Modules
are checked with TLC on small instances and, where it matters, proved with
TLAPS for every instance. All paths below are relative to `src/`.

## 1. Inventory of the system

| Part | State | Operations | What is hard |
|---|---|---|---|
| Commitment controller (`inbox.go`, `inbox_requests.go`, `inbox_claim.go`) | the inbox file: cursor, one request per event (status, claim, reply, question, plan, attempt), standing policy | ingest, next, claim, release, ack, reply, outcome, decision, policy, plan, deliverReply, open/close | workers outlive the process; late tokens; post and acknowledgement are two steps; restart in every gap |
| Event stream (`inbox_stream.go`) | cursor, transport mode | SSE, JSON batches, reconnect, replay | duplicates after a reconnect, control events handled before the cursor is saved |
| Notification and waiting (`inbox_dispatch.go`, `inbox_wait.go`) | wake-up channel, notice keys already sent, the one waiter | dispatchChanges, waitMention, signalUpdate, runOutbox | lost wake-ups, stale questions, reported-before-received |
| Owner bridge (`plugin_inbox_owner.go`), broker (`plugin.go`, `plugin_background.go`) | lock file, owner file, open inboxes, saved connections | getInbox, publish, forward, close, connect, prepare | two processes, a save after the lock is gone, lost updates of a saved connection |
| Pairing and joins (`join_approval.go`, `plugin_background.go`) | pending join, paired peers | connectionEvent, refreshJoin, startPendingJoin | crash between the hello and the saved peer |
| Codex delivery (`codex_queue.go`, `plugin_delivery.go`, `plugin_codex.go`, `harness.go`) | queue receipt, binding, delivery state | queueCodex, deliverCodex, bindCodex, bindHook | subprocess with an unknown result |
| Claude wake, hooks (`claude_wake.go`, `plugin_hook.go`) | wake file, hook state per session | waitClaudeWake, runHook | once-only reports to a session that may be gone |
| Worker, listener (`worker.go`, `listen.go`) | the current turn | claim, turn, outcome | a turn that fails, notices that are not work |
| Encryption (`encryption*.go`, `room_*.go`, `crypto/mls`, `internal/e2ee`) | MLS state, roster epoch, journal, send outbox, admissions, archive | ensureMLS, syncMLS, changeMLSRoster, cryptoSend, reserveAdmission, decryptInboxEvent | crash between commit and merge, rollback by the server, replay, one invitation used twice |
| Command line, API client, SDK, native plugins | none of their own | formatting, HTTP | out of scope |

The stream calls `ingest`; notification reads the same state and wakes hosts,
hooks and workers; they come back through the MCP tools (`inbox_claim_mcp.go`,
`inbox_requests_mcp.go`, `inbox_mcp.go`, `plugin.go`) to claim, report and
acknowledge; `runOutbox` posts the saved replies. All of it shares one file per
agent, guarded by a kernel lock, and one mutex. The controller is therefore the
core. The other parts meet it at three places: the stream hands it events
(`EventStream`), its saves wake the parts that tell the host (`Delivery`), and
the connection it runs on is a saved file of its own (`Connection`). Under
them, and apart from them, lie the encrypted groups (`SecureGroup`) and who is
let into them (`Admission`).

Correctness of the parts, in a line each: *controller*: one execution per
request, exclusive resources, dependencies first, nothing unapproved, one
reply, nothing lost in a restart; *stream*: every event reaches the controller
once and in order; *notification*: everything that needs attention is
announced; *owner*: one process writes the inbox at a time; *connection*: what
one call saved no other call of its process undoes, and an identity is never
lost; *pairing*: no pairing event is passed before it is acknowledged or its peer
saved; *Codex*: a notice whose submission is uncertain is not submitted again; *encryption*: a device never locks itself out of its
group, no key is used twice, a message is stored once, history survives;
*admission*: one invitation admits one device, and nobody returns by himself.

## 2. Modules

| Module | Models | Contents |
|---|---|---|
| `Inbox` | `inbox.go`, `inbox_requests.go`, `inbox_claim.go`, their tools | the commitment controller |
| `EventLog` | | abstract specification: a log processed once and in order |
| `EventStream` | `inbox_stream.go`, `decryptInboxEvent`, `connectionEvent` | how events reach the inbox; implements `EventLog` |
| `Delivery` | `inbox_dispatch.go`, `inbox_wait.go`, `plugin_delivery.go`, `codex_queue.go` | how the host hears of work |
| `Connection` | `plugin.go`, `join_approval.go`, `harness.go`, `plugin_codex.go`, `room_encryption.go`, `room_crypto_routes.go` | concurrent calls on one saved connection |
| `SecureGroup` | `encryption.go`, `encryption_mls.go`, `encryption_history.go`, `encryption_room_policy.go`, `crypto/mls`, `internal/e2ee` | several devices, one journal: rosters, sending, history |
| `Admission` | `encryption_admission.go`, `encryptionManageMode`, `internal/e2ee/admission.go` | invitations and the creator's record of admissions |
| `MC...` | | small instances for TLC |
| `InboxProofs`, `EventStreamProofs`, `DeliveryProofs`, `ConnectionProofs`, `SecureGroupProofs`, `AdmissionProofs` | | theorems about the module they are named after |

Each module holds the state, one action per operation or per stretch between
two saves or calls, the properties, and the mutated operators ("Mutant of ...")
used to test the properties.

### `Inbox`: correspondence with the code

One variable per piece of state: `after` is the cursor, `req[s]` the request of
event `s` ("absent" if there is none), `maxWorkers` the policy, `allowed` the
sender allowlist the inbox was opened with, `up` whether a process holds the
lock, `posting` the request whose reply holds `replyMu`. Outside the process
are `sent` and `srv` (what was put on the wire and what the server stored under
the idempotency key) and `live`, the executions that are *really* under way in
workers. `ungranted` is history: the questions for approval the user has not
approved.

Every operation of the code locks the mutex, works on a copy and makes it
visible after the file is renamed, so each is one action, and the same
variables stand for memory and disk. A failed save changes nothing, a stutter;
the exception is the end of a post, where the post happened and the save may
still fail (`DeliverDone`, `DeliverError`, parameter `saved`).

| Code | Action |
|---|---|
| `ingest`, `accepts` | `Ingest`, `Accepts` |
| revalidation in `next` | `Revalidate` |
| `claim`, `eligible` | `Claim`, `Eligible`, `Conflict` |
| `release`, `ack`/`ackLocked`, `reply`, `outcome` | `Release`, `Ack`, `Reply`, `Outcome` |
| `decision` | `Presented`, `Resolve` (approve, decline, answer), `Recover` (resume, cancel) |
| `policy`, `plan` | `Policy`, `Plan` (`PlanOK` is the depth-first search, `Reached` what it visits) |
| `deliverReplyContext`, called by reply, next and `runOutbox` | `DeliverStart`, then `DeliverDone` or `DeliverError` |
| `close` or a crash; `openInboxIdentity` | `Crash`; `Open` |
| external | `ServerStore` (one message per key, however late a post arrives), `WorkerStops` |

Abstractions. A claim token is the number of the attempt it was drawn for and a
question id the attempt that asked: the code draws fresh random values, the
model fresh numbers. Any token ever handed out may be presented at any time, so
lost answers, retries and workers that wake up after a recovery are all
included. Texts, names and resource keys are model values. A worker that
reports an outcome other than `needs_recovery`, releases, replies or
acknowledges has stopped, as the tools demand; a controller that says
`worker_stopped` tells the truth. The `Decision` that resume and cancel record
is their free-text source, taken to be different from the word "decline".
Left out because no property speaks of them: the order of the queue, revision
counters, `LastClaim` (which only makes a repeated call answer as before), and
the continuation text with its size limits. The default is `workspacePeers =
false`; with it set, `allowed` is simply all senders.

### `EventStream` and `EventLog`

`after` and `inbox` are the saved inbox file, `received` the replay records,
`paired` the saved peers; `acked` and `admitted` are what the server and the
group were told; `pos`, `pc` and `batch` are the connection.

| Code | Action |
|---|---|
| `stream`, `consumeSSE`, `consumeBatch`, the idle timeout | `Start`, `Open`, `OpenSilent`, `Stall`, `EndBatch`, `Drop` |
| `acceptStreamEvent`: the cursor test, `decryptInboxEvent` | `Seen`, `Verify` (`Fresh`, `Readable`), `AdmitJoin`, `ReviewJoin` |
| `connectionEvent` | `AckHello`, `SavePeer`, `TellPeer`, `NoControl` |
| `ingest` as the stream sees it | `Ingest`, `IngestInvalid` |

The server may repeat events before the cursor at every reconnect. `EventLog`
has none of this: one step processes one event. The refinement mapping is the
identity on `log`, `after` and `inbox`, and every step between an event's
verification and its ingestion is a stutter.

`TellPeer` ends `connectionEvent`: the notification of the host may fail, which
closes the connection, or end well, and it ends well also where nobody was told
(no notifier on a host other than Codex, `plugin_background.go` line 147; no
task, no push due or a push that failed, `plugin_delivery.go` lines 80 and 129).
So no property speaks of the host having been told; see section 5.

### `Delivery`

The inbox is reduced to what a notice depends on: the status, attempt and
pending question of each request, the revision, which ready requests are
eligible and which events are still accepted. Every operation that saves is an
action, with the status changes it makes and whether it raises the revision:
`Revising` lists the changes that do (outcome, release, acknowledgement,
decision), `Quiet` those that do not. Which of the ready requests are eligible
is left open, since dependencies, resources and limits are `Inbox`'s. `changed`
and `woken` say whether the channel that the dispatcher, or the listener, holds
has been closed.

| Code | Action |
|---|---|
| `save`, `signalUpdate` | `Save`, `Signal` |
| `ingest`, `claim`, `next` | `Receive`, `Skip`, `Claim`, `Revalidate` |
| `outcome`, `release`, `ack`, `reply`, `decision`, `deliverReplyContext` | `Change`, `Present` |
| `policy`, `plan`, annotations; clarifications | `Revise`; `Skip` |
| `dispatchChanges` | `Snapshot`, `Offer`, `Rest`, `Wake` (`Key` is the notice key) |
| `deliverCodex`, `deliver`, `fallbackDelivery` | `DeliverKnown`, `DeliverUnqueued` |
| `queueCodex`, `codexQueueCommand` | `QueueAttempt`, `QueueUncertain`, `QueueAccepted` |
| `waitMention` | `Listen`, `WaitWakes` (`Look`: `Hear` or `Sleep`), `WaitEnds` |
| `openInboxIdentity` | `Restart` |

Whether a push is due and whether the queue is tried without one depends on
`deliveryState`, that is on the clock and on probes of the host; it is left
open. `watched` is history: it follows one invocation of the queue command, any
of them, and says whether it is known to have succeeded, whether a submission of
another notice came after it, and whether the same one was submitted again. A
host is never both Codex and one with listeners in the instances: the two share
nothing but the inbox, which neither changes.

### `Connection`

`file` is the saved connection; a call has a process, a program counter and its
own copy. `save` replaces the file as a whole, so what matters is what other
calls save between a call's load and its save. Three things are as in the code:

- the mutex belongs to the broker of one process (`plugin.go`, line 75), and a
  host may run several processes on one vault (`plugin_inbox_owner.go`, line 22);
  `tincan_connect` and the room tools run in every one of them, since only the
  inbox tools are forwarded to the owner (line 42);
- `BindLoad` to `BindSave`, `RefreshLoad` to `RefreshSave`, `PrepareLoad` to
  `PrepareSave` and `AckLoad` to `AckSave` hold it; the room tools
  (`CreateLoad` ..., `JoinLoad` ...) never take it;
- any 4xx answer drops a saved creation (`CreateRejected`).

`late` is history: since a call took its copy, a call that does not share its
mutex has saved. Everything the properties say is about calls that are not late;
section 5 says what a late one can undo. `id` is the receipt or the credential,
`bound` the session or task, `hello` the announcement, `routes` and `creating`
the rooms; a room that is joined again gets another key path, which the set of
routed rooms does not show. A handle is known to its maker only until it is
bound (`fresh`). `AckLoad` lets any process handle an acknowledgement once the
announcement is saved: the stream loop compares with the copy it started with.
The claim link, the text of the announcement and the connection of `tincan
worker` are left out; the hook and session files only read the connection.

### `SecureGroup`

`commits` and `envs` are every roster and envelope ever made; an index stands
for its hash, so keys, signatures and hashes are perfect. `journal` is the
server's order. Each device has a saved state (`disk`) and the copy of the
running operation (`mem`): `withCrypto` saves the copy whenever an operation
ends, failed or not (`Finish`), and `privateJSON` saves in between (`Save`).

| Code | Action |
|---|---|
| `ensureCrypto`, `ensureMLS` | `Begin`, `StatusOK`, `StatusFails`, `CreateGroup`, `PostRoster` and its outcomes, `Check` |
| `syncMLS`, `consumeMLSKey`, `archivePut` | `SyncRow`, `SyncFails`, `SyncDone` (`RosterRowOK`, `EnvelopeRowOK`, `Archived`, `Quarantined`) |
| `changeMLSRoster` and its callers | `Change`; `Admit`, `Revoke`, `Rotate`, `RegisterRoom`, `RoomMember` |
| `cryptoRoster` | `RosterAccepted`, `Observed`; the server may answer with any roster it ever published |
| `sealMLS`, `cryptoSend`, `cryptoUpload` | `Send`, `Upload` (`Seal`), `Retry`, `PostEnvelope`, `SendEnds`, `SendConflict` |
| `openMLSPayload`, `backupHistory`, `restoreHistory` | `Opens`, `Backup`, `Restore` |

The group is a workspace's, with one room in it that has members of its own;
`RoomKeys = {}` makes it a room's own group. Not modelled: protocol 1, opaque
journal rows, the private vault group and the resynchronisation
`openMLSPayload` starts when a key is missing. A device that belongs to no
roster yet may import a backup: `restoreHistory` asks for a workspace only, and
every device of the model has one.

### `Admission`

The creator's side only: `disk` holds `AutomaticInvites`, `AdmissionInvites`,
`AdmittedDevices`, `CommittedAdmissions` and `PendingRoster`. The relay shows
any request (`Shown`): any id, device, room and invitation. It cannot make a
proof for a device that does not hold the secret (`Proves`). `staged` records
every commit with what authorised it. A manual admission means that the owner
compared the fingerprint (`verified`).

### What the modules share

They are checked apart, each with what it needs of the others: `Inbox` takes
any event of the log in order, valid or not, which is what `EventStream`
delivers; `Delivery` takes any change of a request that `Inbox` makes, with the
eligible requests left open;
`EventStream` takes an event as readable or not, which is what `SecureGroup`
decides; a device enters a roster in `SecureGroup` only by `Admit`, and
`Admission` says on whose decision. A removed device that is admitted again under
its old state stops at the roster that removed it, as `syncMLS` does.

## 3. Runs

| Run | Instance | Shows |
|---|---|---|
| `inbox_core` | two messages, two workers, two attempts each, two texts, all outcomes, plans that share a resource or depend on each other | all safety properties of the controller, and its inductive invariant |
| `inbox_notices` | two notices of one request, the second correlated with the message that follows, its classification, a review of the same suggestion, an admission notice; limit 1 may be set | notices are never reviewed twice at once; a correlated message never becomes work; dismissing a notice never ends a running execution |
| `inbox_delivery` | two replies, one of them possibly a refusal | every saved reply is delivered |
| `inbox_private` | one private notice, suspended for approval | finding 1 |
| `group_safety` | the creator, who uploads to the room, and another device, which sends; three rosters, three envelopes | no key, commit, message or history is lost or used twice |
| `group_race` | the same, four rosters | finding 2 |
| `stream` | three events of six kinds, two failures or crashes | refinement of `EventLog`, control before cursor, every event processed |
| `admission` | two devices that both hold one invitation, two request ids, two rooms, three commits | single use, no automatic readmission, disabled invitations stay void |
| `connection` | two processes, two calls, two sessions, a peer, a room to create and join again, or one of somebody else to join | only an overtaken call undoes what was saved, and only it or a 4xx answer loses a room |
| `connection_race` | one process, two calls, two rooms to create | finding 3 |
| `delivery` | a message and an admission notice, one execution, one restart; Codex, a host with a listener, or one that is only notified | no lost wake-up; an uncertain submission comes again only after another took its receipt |
| `delivery_receipt` | one message | finding 4 |

Safety of the controller: `SavedStateValid` (what is saved can be opened
again), `ClaimDiscipline` (status, claim and reply agree), `ExecutionOwned` (a
real execution owns the claim: at most one per request), `ExclusiveExecution`
(executions share no resource or notice), `DependenciesFinished`,
`PlansAcyclic` (checking what one request reaches keeps the whole graph free of
cycles: in every set of requests one waits for no other of the set), `PermissionGate` (nothing executes while a question for approval is
not approved), `SingleReply`, `PostedBeforeDone`, `ReviewedOnce`; steps:
`FinishedIsFinal`, `NoSilentRetry`. Announcements, automated messages and
messages of one's own are in no instance; the proofs of section 4 cover them,
since they hold for every event stream.

Safety of the groups: `OwnEnvelopeKnown` (a device never meets an envelope of
its own that it has forgotten), `NoGenerationReuse`, `SendOnce` (of the
envelopes of one key at most one can be stored, whatever the server does),
`CommitRecoverable` (a published roster the creator has not merged is the one
it staged), `HistoryComplete` (what is behind the saved cursor can be opened),
`NoRollback`. Admission: `OneDevicePerInvite`, `NoAutomaticReadmission`,
`MembersCommitted`, `DisabledInvitesStayVoid`. Connection: `IdentityKept`,
`BindingStable`, `NothingForgotten`, `CreatedRoomKept`. Stream:
`ImplementsEventLog`, `ControlBeforeCursor`, `EveryEventProcessed`. Delivery:
`NoticeOffered`, `ListenerWakes`, `UncertainNotRepeated`.

Bounds. `Inbox`: `N` events and `MaxAttempts` claims per request. Two requests
are what conflicts, dependency cycles and competing replies need; two attempts
give a stale token next to a current one; crashes, failed posts and failed
saves are not bounded. `SecureGroup`: `MaxCommits` rosters and `MaxEnvelopes`
envelopes; three rosters give a founding, a change and a change that the other
device misses, three envelopes a message, its rebuilt form and another sender's
upload. Only the devices in `Importers` import a backup. `EventStream`:
`MaxEvents` and `MaxFaults`; three events are a message, its replay and a
control event, two faults a broken connection and a crash. `Admission`:
`MaxStaged` commits; three are an admission, a revocation and the attempt to
return. `Delivery`: `MaxAttempts` executions of each request, `MaxRevision` (1,
and 2 for the host that is only notified, where a question is also presented)
and `MaxCrashes`; submissions are not bounded. A repeated submission needs one restart; that the first notice is
submitted again after the second, where the receipt has been replaced, happens
in the instance. `Connection` needs no counter; two calls are one that saves
between the load and the save of another, in one process or in two.
Symmetry is used where only safety and step properties are checked.
Deadlock is checked except in `stream` and `delivery` (and its finding), where
a system with nothing left to do rests.

Fairness. `inbox_delivery`: `runOutbox` walks over *all* saved replies in every
round and retries after a back-off for as long as the process lives: strong
fairness of starting a post and of its success for each request, since crashes
and other posts may disable them in between. A post that is on the wire for ever
reaches the server, and a crashed process is started again: weak fairness of
`ServerStore` and `Open`. Nothing is assumed of workers or users. `stream`: weak
fairness of the loop as a whole; failures come to an end, but SSE connections
may be silent whenever one is opened, so only the fall-back to bounded reads
makes progress sure. `delivery`: weak fairness of the dispatcher, of a waiting
call and of a restart, each a goroutine or a supervisor that runs as long as it
can; every call it makes has a timeout. No listener has to start and no wait has
to run out, so a listener that sleeps through a save would be found.

Each property is paired in `PROJECT.json` with a mutant, an operator marked
"Mutant of ...", that changes one definition the way a bug would and must make
TLC report the property.

## 4. Proofs

Every invariant and every step property that a passing run checks is a theorem,
and so is the refinement of `EventLog` (its initial states and steps; its
fairness is what `EveryEventProcessed` checks). The theorems hold for every value of the
constants that the module's named assumptions admit (types of the constants,
and that a nil value is none of the values it stands beside), so for any number
of events, devices, processes, calls, rosters or crashes; the counters that
bound the runs are arbitrary naturals. No theorem has a further hypothesis.

| Property | Theorem |
|---|---|
| `Inbox`: `SavedStateValid`, `ClaimDiscipline`, `ExecutionOwned`, `ExclusiveExecution` | `StateReopens`, `ClaimsConsistent`, `OneExecution`, `Exclusive` |
| `DependenciesFinished`, `PlansAcyclic`, `PermissionGate`, `SingleReply` | `Ordered`, `NoCircularWait`, `Gated`, `OneReply` |
| `PostedBeforeDone`, `ReviewedOnce`, `FinishedIsFinal`, `NoSilentRetry` | `PostedFirst`, `NoSecondReview`, `FinishedStays`, `RetryIsDeliberate` |
| `EventStream`: `ControlBeforeCursor`, `ImplementsEventLog` | `ControlFirst`, `Refinement` |
| `Delivery`: `UncertainNotRepeated` | `NotRepeated` |
| `Connection`: `CreatedRoomKept`, `IdentityKept`, `BindingStable`, `NothingForgotten` | `RoomKept`, `Identity`, `Binding`, `Kept` |
| `SecureGroup`: `OwnEnvelopeKnown`, `NoGenerationReuse`, `SendOnce` | `OwnKnown`, `GenerationsApart`, `SentOnce` |
| `CommitRecoverable`, `HistoryComplete`, `NoRollback` | `Recoverable`, `HistoryKept`, `RollbackRefused` |
| `Admission`: `OneDevicePerInvite`, `NoAutomaticReadmission`, `MembersCommitted`, `DisabledInvitesStayVoid` | `OneDevice`, `NoReadmission`, `RosterRecorded`, `StayVoid` |

Each module also proves its inductive invariant (`Inductive`, elsewhere
`Invariance`) and its type invariant (`TypeCorrect`). All are laid out alike:
facts about the records, one lemma per action or group of actions that the
action preserves `IInv`, a lemma for `Next`, then the theorems; a step property
follows from `IInv` and the step. TLC was run on `IInv` of every module on the
instance of its safety run (for `Inbox`, `inbox_core` lists it).

### `Inbox`

The properties speak of executions, but it is the claim that the
code guards, and a claim outlives its execution (crash, `needs_recovery`, a
reply that waits). So `IInv` restates exclusion and dependencies for every
*claimed* request (`ClaimedExclusive`, `ClaimedAfterDependencies`) and adds
`ExecutionOwned` and `ClaimDiscipline` to get back to executions. Approval
needs that an ungranted question is still the request's question and that the
request is unclaimed (`UngrantedUnclaimed`). The single reply needs that
whatever was put on the wire is still the saved reply or is already stored and
acknowledged (`SentIsSaved`), and that a post in progress is of something sent
(`StoredWasSent`). `NoticeKeepsKey` ties a review to its suggestion. Two general
lemmas, `UpdateInv` for a step that rewrites one request and `SweepInv` for a
step over all of them, say when such a step preserves `IInv`. The step
properties rest on `NextSteady`: every step except a receipt and a fresh claim
starts no attempt and leaves finished work alone.

`NoCircularWait` is inductive over `IInv` by itself. Only `plan` adds a
dependency (`NextPlans`). If a new plan of `s` closed a circle, the circle would
hold `s` and one of its new dependencies `d`; what `d` reaches of the circle is
again a circle, and it does not hold `s`, which the search refused, so it was
one of the old plans. `Reached` is defined as the least closed set rather than
as the rounds of a search, which is the same set and needs no induction.

### `EventStream`

`RecordsFirst`: a replay record names the first event of its payload, is at most
one event ahead of the saved cursor, and every readable payload behind the
cursor has one. This is what makes the test of `decryptInboxEvent` right when
the process died between saving the record and saving the cursor: the record
then names the very event that comes again. `Established` says what the steps
taken for the event under decision have shown. `Refinement` maps `Ingest` and
`IngestInvalid` to the abstract step and every other step to a stutter or to the
log's growth.

### `Delivery`

`AttemptRecorded`: as long as the result of the invocation that is followed is
unknown and no other notice was submitted since, the saved receipt is of that
invocation, so the queue is not reached with the same notice. `NoticesReal` gives
the keys of the notices their type. `ReceiptAssumption` says that the nil value
is neither a receipt nor a history.

### `Connection`

`CopyCurrent`: the copy of a call that is going to save is the file but for the
call's own change, unless the call is `late`. It is inductive because a save
makes every other call late that does not hold the mutex of the same process
(`Overtakes`), and two calls that do cannot both be between load and save
(`MutexHeld`). The step properties follow: a save by a call that is not late
changes only what the call is about. So the proofs need no assumption on which
calls run side by side; the assumption has become part of what is stated.

### `SecureGroup`

The invariant relates five things: the rosters ever made, the journal, the
envelopes, each device's saved state and the copy of its running operation.

- A roster is in the journal at most once and a device moves its group only
  along journal rows it has passed, so no group state is entered twice; in the
  present one every sealed generation is at most the saved counter. Hence
  `NoGenerationReuse` (`SealedApart`).
- `EnvelopeSound`: an envelope is in its sender's saved state from the moment it
  exists, and of the envelopes of one key all but the one in the outbox are
  `Dead`: not stored, and under a roster that is no longer the current one, which
  the server refuses. Hence `OwnEnvelopeKnown` and `SendOnce`. That a roster,
  once superseded, is never current again needs that epochs of published rosters
  differ and that there is a newest one (`RostersSound`).
- `PostedKnown`: a roster that was posted was refused, is staged in the
  creator's saved state, or has been merged. Hence `CommitRecoverable`.
- `StateSound` keeps archive, quarantine and cursor together
  (`HistoryComplete`), and `CopySound` says how far a copy may be ahead of the
  disk: only in the roster observed, which is not older than the saved one
  (`NoRollback`), and in the outbox slot of a dead envelope that is being
  replaced.

`SyncCanContinue`, which `group_race` refutes, is not among the theorems.

### `Admission`

`RequestReserved` (an automatic admission under way holds the reservation of its
invitation), `InvitesSpent` (an invitation that was used is reserved for its
device or one the owner verified, or is void or expired) and `CommitsRecorded`
(every staged admission is in the saved record). That the working copy equals
the saved state between steps is part of the invariant: each operation saves
before the next.

### Model-checked only

Liveness under fairness is out of the prover's reach: `SavedReplyDelivered`,
`EveryEventProcessed`, `NoticeOffered` and `ListenerWakes` stay with TLC, as do
the four findings, which are counterexamples.

## 5. What the checks do not say

`MaxWorkers` limits how many requests have status running. After a restart the
interrupted ones are `needs_recovery`, keep their claims and may really go on,
but do not count, so more workers than the limit may execute; no property
claims otherwise. A dependent of failed, declined or cancelled work stays
blocked until the controller plans it again. An acknowledged cancelled
connection notice becomes completed; only completed and declined are final.

What a call that was overtaken may undo (`Connection`). A room tool that loaded
the connection before a peer was recorded, a session bound or a receipt
exchanged, and saves after it, takes that back; so does a call of another
process, whose mutex is another. Two processes that bind two sessions at once
both succeed, and the second has the connection. `BindingStable`, `IdentityKept`
and `NothingForgotten` say that there is no other way. A room is also lost without any second call: the
answer to its creation is lost and the retry meets a 4xx answer that is not about
the room, such as 401, 408 or 429 (`CreateRejected`, `room_encryption.go`, line
100).

The comment "The event cursor is advanced only after notification succeeds"
(`plugin_background.go`, line 132) does not hold: without a notifier, and in
every case in which `deliverCodex` falls back to the durable inbox, the cursor
passes a pairing event of which the host was told nothing. The peer itself is
saved, and the host finds it with `tincan_status`.

"Retrying an uncertain subprocess result would duplicate it"
(`codex_queue.go`, line 116): the receipt that prevents it has one place per
connection, so with two notices of which the first is uncertain, the second
submitted after it, and the process restarted, the first is submitted again.
`UncertainNotRepeated` says that nothing else leads to a second submission.

A listener may be told of a question whose request has been resumed or cancelled
since (`Hear`). An event that can never be verified blocks the stream. A
room policy that cannot be loaded while a group is created leaves a group
without a staged roster, which no later call completes (`CreateGroup` with
policy "unavailable"). `SecureGroup` does not promise that what a device sends
can be read by everybody: a device that has just stored a newer roster than its
group stands at (finding 2) may label a message with it, and the others put the
message under quarantine.

## 6. Findings

1. `inbox_private`: `decision` "decline" saves "I cannot proceed with this
   request." as a reply to any suspended request (`cmd/tincan/inbox_requests.go`,
   line 402), although `reply` refuses to answer private notices
   (`cmd/tincan/inbox.go`, line 396, "do not reply to a private notice") and the
   instructions and the skill forbid it. A worker that suspends a collaboration
   or semantic notice for approval and a user who declines put such a reply on
   the wire; if the server rejects it the outbox retries for ever.
2. `group_race`: `cryptoRoster` stores the roster it is shown as the active one
   (`cmd/tincan/encryption.go`, line 411) even if it was published after the
   device read the journal. `ensureMLS` fails with "retry before sending", but
   the state is saved, and each retry finds the roster's own journal row to be a
   "fork or gap". The device is stuck.
3. `connection_race`: the room tools load the connection when they are called
   (`cmd/tincan/plugin.go`, line 780) and save that copy without the mutex. Beside
   another call, or beside each other, one save undoes the other; in the trace two
   creations run side by side and the room that exists on the server has lost its
   saved identity and keys.
4. `delivery_receipt`: the receipt of an accepted submission is written without
   the notice key (`cmd/tincan/codex_queue.go`, line 128), so that after a restart
   it does not match and the same notice is queued again. The test that says
   otherwise uses a payload without a key.

## 7. Not modelled

- Of the owner bridge (`plugin_inbox_owner.go`), the lock and endpoint files and
  the forwarding: the kernel lock gives one owner, which is the process of
  `Inbox`, and the inbox tools, `tincan_status` and `tincan_pairing_wait` are
  forwarded to it. Connecting and the room tools are not; they run in every
  process, as `Connection` has it. That `close` gives up the lock while a handler
  may still save is listed as a hazard.
- The worker loop, Claude's wake file and the hooks: sequential clients of the
  operations of `Inbox`, which takes them as the most general worker.
- The continuation text (annotations, clarifications, its 65536-byte limit).
- Presence, sidecar, command line, API client, transports to Codex, SDKs,
  native plugins and skills: input and output without protocol state.
- Sharing history through the server with a device that joins.
- In the modelled parts, what sections 2 and 5 name.

## 8. Plan

Every safety property of the runs is proved. What is left:

1. A composition of `EventStream` with the receipt of `Inbox`: that `Inbox!Ingest`
   is what the stream's `Ingest` and `IngestInvalid` do to it.

Liveness stays with TLC.
