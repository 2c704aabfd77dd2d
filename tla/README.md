# Verification of the InDesign MCP bridge

TLA+ models of `sol-indesign-mcp`, model-checked with TLC and for the most part
proved with TLAPS. Paths below are relative to the repository.

## The system

A language-model client calls MCP tools. The MCP server (Node) sends each call
over a loopback bridge to a plugin that runs inside Adobe InDesign (UXP); the
plugin reads and changes documents through the DOM.

| Component | Source | State | Operations |
| --- | --- | --- | --- |
| Bridge server | `apps/mcp-server/src/bridge/server.ts` | connections, the active session, pending requests, failures of the last minute, outbound queues of HTTP sessions | open, hello, authenticate, frame, poll, close; request, abort, deadline; heartbeat, prune |
| MCP tools | `apps/mcp-server/src/mcp/register-tools.ts` | none between calls | one handler per tool: validate, `request`, map the outcome |
| Bridge client | `apps/indesign-uxp/src/bridge/client.ts`, `handshake-state.ts` | generation, transport, phase, timers, failures | start, stop, connect, frame, session closed, reconnect, heartbeat |
| Transports | `http-poll-transport.ts`, `websocket-transport.ts` | open or closed, poll loop | connect, send, close |
| Request queue and router | `queue/serial-request-queue.ts`, `bridge/router.ts` | pending entries, the active id, a cancellation flag | enqueue, cancel, drain |
| Identity and revisions | `adapter/identity.ts`, `document-session-state.ts`, `revision-store.ts` | UUID per native id, revision per instance (session and store), labels in documents | documentRef, assert, reserve, commit, roll back, resolve |
| Adapter | `adapter/indesign-adapter.ts`, `execution-context.ts`, `operations.ts`, `undo-*.ts` | the Undo-proof candidate, capabilities | list, snapshot, inspect, create, applyOperations, export, preflight |
| Panel | `main.ts` | the above, created again at a reload | initialize, pair, connect |
| Libraries | `packages/*` | trackers and queues of the domain package | schemas, HMAC, redaction, path rules, domain helpers |

**Interaction.** A tool awaits `BridgeServer.request`, which sends a frame to
the active session and keeps a pending entry. `BridgeClient` hands the request
to the router, the router to the queue, and the queue runs the adapter, which
checks and moves revisions. The response travels back the same way. Heartbeats,
cancellations and status events share the transport with requests.

**What is hard.** The server awaits HTTP bodies between looking a session up and
using it; sessions, polls, deadlines, aborts and heartbeats interleave; frames
may be lost. The client awaits tokens, snapshots and closing transports, each
time with state it has read before. The queue is cancelled and timed out while
its loop is suspended in a task. The adapter awaits between checking a revision
and reserving it and again while InDesign runs the batch; the person at the
keyboard may close, copy, undo and redo; the panel may be reloaded; the store
may fail.

**What makes each component correct.**

* Bridge server: one healthy session at a time, only with the right token, under
  bounded authentication; no caller waits on a session that is gone; each request is
  settled exactly once and handed over at most once.
* Queue: first in, first out, one task at a time, and "try again" is said only of work
  that was never begun.
* Revisions: a reference handed out before a change is never accepted again; a revision
  moves only by its own reservation.
* Client: Disconnect is final; as long as a connection is wanted something leads to the
  next attempt; an attempt that was given up gets nothing; the panel shows the session
  it has.
* Operations: the report of a batch says what was changed; an alias stands for the object
  the plan means; what a person has edited is left alone, as far as its fingerprint shows
  the edit.
* Files and preferences: InDesign is left as it was found; no file is replaced unasked.
* Tools: a repeated call is applied once, and an answer that invites a repetition says
  what may have been done already.
* Undo proof: the grouping of a batch is never claimed of a host that records a part of
  the batch outside its label.

## Modules

| Module | Models | Kind |
| --- | --- | --- |
| `DocumentRevision` | identity, revisions, reservations, store, `document.create`, `document.applyOperations` around its operations | component |
| `RequestQueue` | `SerialRequestQueue`, and the depth that the router reports; implements `RequestContract` | component, refinement |
| `RequestContract` | what the plugin promises to the callers of requests | abstract specification |
| `BridgeServer` | the loopback bridge of the server | component |
| `BridgeClient` | the bridge client of the plugin, its handshake and its transports; implements `ConnectionContract` | component, refinement |
| `ConnectionContract` | what the panel promises about its connection | abstract specification |
| `OperationBatch` | validation and execution of the operations of a batch, its aliases and its report | component |
| `FileExports` | preview, copy, export and preflight; the workspace folder; the preference guard | component |
| `ToolCalls` | tool calls from end to end: tools, bridge, queue, tasks. `EXTENDS FileExports`, whose steps it takes while a file task is active | composition |
| `UndoProof` | the proof that the host groups a batch into one step of its undo history | component |
| `*_proofs` | theorems of the module they extend | proofs |
| `MC*` | TLC instances: `EXTENDS` the component, adds symmetry and stacking orders | instances |

A definition marked "Mutant" is a plausible bug of a definition near it; no other
definition uses it. With the mutant in its place TLC finds the property violated that
`PROJECT.json` names beside it.

How far a module abstracts the data is said at its head. In general: an action is one
stretch of code between two awaits, with all that it calls; what is suspended at an
await is part of the state; whatever a person, the host or the network may do happens
between any two actions.

### DocumentRevision

| Variable | Code |
| --- | --- |
| `status`, `label`, `redoLabel` | the host: open documents, their UUID label, and what Redo would bring back |
| `uuidOf`, `sessionRevision` | the two maps of `DocumentSessionState` |
| `stored` | `DocumentRevisionStore`, keyed by UUID and native id |
| `phase`, `request`, `reservation`, `progress`, `report` | locals of `#applyOperations`, up to its awaits |
| `created` | UUIDs that `createUuid` has returned: it does not repeat one |
| `spent` | history: the highest revision of an instance at which a batch has changed its document |

A batch is `BeginBatch` (resolve and assert), `EndBatchEarly` (every exit before the
reservation), `ReserveRevision`, `ExecuteBatch` (the callback of `doScript`), and one of
the `Finish` actions. Between them a person may open, close, copy, edit, undo and redo,
and `PanelReload` may take the session away. Between the reservation and the callback
no action of a person falls: that code does not await, and `doScript` runs the function
before it returns. The queue runs one request at a time, so no second batch overlaps
(`RequestQueue`, theorem `HostRunsOneTask`). What an operation does to the document is
abstracted to three facts (`Progress`): `mutationStarted` was raised, the document
changed, all operations completed. `OperationBatch` is the detail.

### RequestQueue

| Variable | Code |
| --- | --- |
| `pending`, `active`, `cancelRequested` | `#pending`, `#activeId`, `#activeCancellationRequested` |
| `outcome` | what the promise of a request has settled to |
| `host` | what has become of the task itself |
| `expired` | `Date.now() >= deadlineAt` |
| `reportedDepth` | `queueDepth` in the last status reply |
| `cancelReply`, `arrival`, `accepted` | history |

`Drain` is the loop from one await to the next: it drops expired heads and starts the
first request in time. `#draining` is not a variable: the loop is suspended exactly
while a request is active, which `Draining` says. `RequestContract` knows only `state`,
per request: new, waiting, running, done, refused. `CallerState` maps the queue to it,
and `KeepsContract` is the refinement with its liveness.

### BridgeServer

The record `server` holds the fields of the class; handlers that call each other
(`#closeConnection`, `#pruneExpiredConnections`, `#send`, `#processIncoming`) are
functions from one such record to the next, so an action is the handler with all it
calls.

| Field or variable | Code |
| --- | --- |
| `connections`, `active` | `#connections`, `#active` |
| `conn` | `ConnectionState`; of the clock it keeps whether the challenge has expired and whether the last frame is too long ago |
| `socket` | `readyState` of a WebSocket; `none` for HTTP |
| `recent` | length of `#authFailureTimes` |
| `outcome` | `#pending` (the waiting ones) and how the others were settled |
| `seen` | frames that the plugin has and has not answered |
| `stage` | a connection before, at and after its hello (`#preHelloSockets`, `#pendingHttpSessionBodies`) |
| `reading` | HTTP frames whose session was looked up and whose body is awaited |
| `left` | the plugin has gone, with or without a word |
| `handed`, `sentTo` | history |

The environment is a plugin of this bridge: it answers each challenge and each request
once and sends events when it is authenticated. A stranger is one with another token.
A poll's reply and an HTTP body may be lost.

### BridgeClient

| Variable | Code |
| --- | --- |
| `desired`, `manualDisconnect`, `wsFailures`, `transport`, `generation` | the fields of those names; `generation` is the attempt it belongs to |
| `handshake`, `challengeCount` | `BridgeHandshakeState` |
| `shown` | `#state`: phase and the flag `authenticated` |
| `readingToken`, `restarting`, `cached` | `#connectionStartInProgress`, `#restartInProgress`, `#cachedHelloSnapshot` |
| `reconnectTimer`, `authTimer`, `heartbeatTimer` | timers that are set |
| `attempt[a].stage`, `.closing` | what of the attempt is suspended: the snapshot, `connect`, and who awaits the close of its transport |
| `attempt[a].kind`, `.link` | the transport and whether it is open |
| `attempt[a].peer`, `.working` | the server at the other end, and a request that runs in the plugin |
| `tokenless` | history: the last attempt found no token, or could not read it |

An attempt goes on after it was given up: its snapshot becomes ready, its transport
opens, frames arrive. A continuation whose promise is settled (`Due`) runs before any
other event, as microtasks do. The set `Attempts` bounds how many are alive at the same
time; an attempt that is over may be used again, so the run goes on for ever.
`ConnectionContract` knows only how the panel stands: off, waiting, trying, online.

### OperationBatch

| Variable | Code |
| --- | --- |
| `plan`, `planned` | the prepared operations, and the `aliases` of `prepareOperations` |
| `aliases`, `progress` | the `aliases` of `executePreparedOperations`, `ExecutionProgress` |
| `seen` | the objects as the caller has seen them, which is what fingerprints are made of |
| `object`, `order`, `pages`, `named` | the document: objects, stacking orders, the order of pages, a layer found by its name |
| `altered` | objects whose name, bounds or visibility are not what the caller saw |
| `report` | what the caller is told |
| `changed`, `edited` | history: the batch has changed the document; what a person has changed, and whether the fingerprint shows it |

`Validate` adds one operation to the plan after the checks of `prepareOperations`;
`Execute` makes its checks again and carries the operation out, in one step or with a
fault of the host before, in the middle of or after its changes. An object that
operation k creates is object k. Colors and styles are one kind of resource; operations
that change one item in place are one, `edit_item`.

A target is an alias, a reference with or without a fingerprint, or, for a layer, a name.
`AsSeen` is the comparison of fingerprints in `resolveObject`: kind, lock, and whether
name, bounds or visibility have changed (`altered`). Text, fill, style and the layer of an
item are no part of it, in the code as in the model. The batch alters what its own later
operations may compare: `ensure_layer` locks or shows a layer, `edit_item` moves an item
and with it, possibly, the bounds of the groups around it and of the items in it (`Kin`),
and a page put after another gives those behind it new names (`Behind`).

### FileExports

| Variable | Code |
| --- | --- |
| `authorized` | `WorkspaceManager` has a folder |
| `folder`, `files` | what is below the workspace folder: the folder of the paths, and each file (`kind`, and the revision it shows) |
| `settings`, `task.guard` | preferences of the application, and what `snapshotPreferences` has read |
| `process` | the preflight process |
| `revision` | of the document, as `#documentAtRevision` compares it |
| `task.stage`, `.job`, `.result` | the await at which the task is suspended, its input, its end |
| `disturbed` | history: settings that a task could not give back |

The stages of a task are the awaits of `resolveOutput` (look up the folder, make it,
look up the entry, create the file), the export itself, the reading of a preview, and
the size. A preview takes its guard before `resolveOutput`, an export after.

### ToolCalls

| Variable | Code |
| --- | --- |
| `call` | a tool call and its try, as `executeBridgeTool` and the pending entry of the bridge see it |
| `online` | a session is authenticated |
| `queue`, `active` | requests that wait in the plugin, and the one whose task runs |
| `applied`, `changed` | history: batches and requests that have changed something |

A caller repeats a call, with the same input, when the answer offers it. Each try is a
request of its own, and an earlier try may still wait or run. The deadline of the
server, an abort and a lost connection race the answer; a cancellation may take the
request out of the queue, come too late, or get lost. A panel reload loses the queue.
File tasks take the steps of `FileExports`; a batch compares the revision with the
document as `DocumentRevision` does, and moves it when it was applied, or when its
reservation could not be taken back. The host may throw an error of any kind in a task
(`HostErrors`); an `AbortError` is answered as a cancellation that can be repeated.
`BridgeServer`, `RequestQueue` and `DocumentRevision` appear by what they guarantee, which is
proved of each of them.

### UndoProof

The state of a document is its undo history, `undo` and `redo`; an object is there when
a step that is not undone has added it and no later one removed it. `Apply` is the end
of a batch that leaves a candidate, `Verify` the comparison a snapshot makes. The host
records a batch as one step (`whole`) or as a step for each operation, of which each one
(`each`), only the last or only the first has the label. The approved batch of the code has
two shapes, which the model takes as one.

## Runs

| Run | Shows | Bounds |
| --- | --- | --- |
| `revision` | `TypeOK`, `NoStaleReference`, `AcceptedStaysFresh`, `RevisionSteps`, `ChangesNeverSilent` | 2 documents, 2 UUIDs, 2 revisions, both store faults: a copy with the UUID of its original, a lost identity, and the limit |
| `queue` | `TypeOK`, `FifoOrder`, `RetryableNeverRan`, `CancelHitsItsTarget`, `KeepsContract` | 4 requests, one of status; 3 places: one active, two waiting, one refused |
| `queue_depth` | `ReportsQueueDepth` fails | 3 requests, one of status |
| `bridge_sessions` | `TypeOK`, `AuthenticationBounded`, `ActiveIsReachable`, `OnlyPairedActive`, `WaitsOnActiveSession`, `HealthySessionKept`, `SettledOnce` | 3 connections (HTTP, WebSocket, stranger), 2 under authentication, 1 failure of each and in all, 1 request, 1 frame in a queue; constraint `OneBody`: one HTTP body of a connection is read at a time |
| `bridge_delivery` | `NoSleepingPoll`, `HandedOverInOrder`, `EndedSessionAnswers` | one HTTP session, 2 requests, one too large for a poll, 3 frames in the queue, any number of bodies |
| `client` | `TypeOK`, `DisconnectHolds`, `NeverStranded`, `ClaimsOnlyProved`, `AbandonedGetsNothing`, `KeepsContract` | 2 attempts alive at a time, missing token, faults of the storage, a server that hangs |
| `client_shown` | `ShowsItsSession` fails | 2 attempts, no faults |
| `batch` | `TypeOK`, `UnchangedAsReported`, `AliasesHold`, `ReportedReferencesHold`, `CarefulPlanRuns`, `NoticedEditUntouched`, `GroupsAreExact` | 2 operations, 2 aliases; an item beside a group of two, 2 pages, a layer; references with fingerprint; one item may be locked; host faults, or one edit by a person (of an item, a member of the group, a page or the layer) |
| `batch_validated` | `ValidatedPlanRuns` fails | 3 operations on 2 items, a page and a layer that may be locked; no faults, no person |
| `exports` | `ExportTypeOK`, `HostLeftAsFound`, `FilesKept` | 2 paths, 2 preferences, previews of 2 attempts, 1 revision |
| `tools` | `BatchAppliedOnce`, `OkIsWritten`, `AdmitsChanges` | 2 calls of 2 tries (status, create, apply, plain export), 1 path, 3 revisions, so that both batches can be applied, or one of them twice if the comparison of revisions allowed it; no preferences |
| `undo` | `ProofIsSound` | 2 documents, 2 batches, 5 steps in all histories |

The capacities of the code (100 queue places, 256 pending requests, 512 frames, 3 and 10
failures, 6 attempts of a preview, 100 operations) are constants; small values reach
every limit. Where a bound could hide a case there is a theorem below that holds for all
values; the properties without one are listed there too. In `OperationBatch` two
operations are enough for one to disturb the other: a layer that is locked, a page that is
renumbered, a group whose bounds follow a member. A person and a fault of the host do not
come in the same behaviour of the run (`BothTroubles`), and references without a
fingerprint are left to the theorems (`Checks`).

The instances but those of `BridgeServer` do not check deadlock: there every request has
been served, every revision or try used, or nobody wants to be connected. `BridgeServer`
never stops, since its heartbeat goes on.

### Properties

* `NoStaleReference`: when no batch is under way, the revision that would be accepted is
  greater than any at which the document has been changed. `AcceptedStaysFresh`: the same
  for a batch that has been accepted and not run.
* `RevisionSteps`: a revision moves only by its own reservation, never back.
* `ChangesNeverSilent`: a batch that ends with a report of no change has made none, or has
  moved the revision of its document, so that every reference from before it is refused.
* `FifoOrder`, `RetryableNeverRan`, `CancelHitsItsTarget`: order, and answers and
  cancellations that match what has become of the work.
* `WaitsOnActiveSession`, `SettledOnce`, `EndedSessionAnswers`: no caller is forgotten,
  none is answered twice, and none waits for its deadline (up to minutes) on a plugin
  that has gone.
* `HealthySessionKept`, `ActiveIsReachable`: the active session goes only for a reason.
  `ActiveIsReachable` allows one case: an HTTP session that its plugin has ended while
  its authentication was being read becomes active without being registered.
* `AuthenticationBounded`, `OnlyPairedActive`: limits and tokens.
* `NoSleepingPoll`, `HandedOverInOrder`: delivery over HTTP.
* `DisconnectHolds`, `NeverStranded`, `ClaimsOnlyProved`, `AbandonedGetsNothing`: the
  client through every order of closes, failures, buttons and timers.
* `UnchangedAsReported`, `AliasesHold`, `ReportedReferencesHold`: a batch that stops
  anywhere reports what it did, and what its names stand for.
* `CarefulPlanRuns`: of the batches that pass the validation, those can be executed that
  make no group and in which no operation names, with a fingerprint, what an earlier one
  disturbs. A plan that locks a layer and then moves an item to it is careful when it names
  the layer by its name or its alias, and not when it names it by a reference with its
  fingerprint.
* `NoticedEditUntouched`: what a person has changed or deleted is left alone by the batch if
  its fingerprint shows it and no operation names it without one; an alias that reaches it
  does not help. `GroupsAreExact`: a group holds its two targets and no bystander, and
  neither was locked.
* `HostLeftAsFound`, `FilesKept`: preferences, preflight processes and files of people.
* `BatchAppliedOnce`, `OkIsWritten`, `AdmitsChanges`: what the answers to repeated calls
  say, against what was done. `BatchAppliedOnce` rests on the comparison of revisions
  alone, also for a batch that was applied and answered like a failure. `AdmitsChanges`
  leaves out the answers to a lost connection and to an `AbortError` of the host, which say
  nothing of what was done (see "Observations").
* `ProofIsSound`: the capability is claimed only of a host of kind `whole` or `each`, and so
  never of one that leaves a part of the batch without its label. That the batch is one
  step is not claimed: see "Observations".

### Fairness

* `RequestQueue`: weak fairness of the end of a task. The code awaits the task without a
  timeout, so it relies on InDesign to return from each DOM call.
* `BridgeServer`: weak fairness of the heartbeat interval, which Node fires, and of
  `GoesStale` for a plugin that has gone: the clock moves and, but for bodies already
  being read, no frame of it refreshes `lastHeartbeatAt`. Nothing is assumed of plugins,
  polls, responses or deadlines.
* `BridgeClient`: weak fairness of what the event loop of the plugin owes (`Progress`: due
  continuations, timers, the end of a close that has happened), of a transport that the
  client has closed, the authentication timer, snapshots, failing connections and tasks,
  and of frames to an attempt that was given up. Nothing is assumed of the server: it may
  hang, and then the timers end the attempt.

The other modules state no liveness.

## Proofs

Assumptions: the named `ASSUME` of each module (constants are sets, bounds are natural
numbers, `None` and the like are no elements of them) and nothing else. TLC evaluates
them in the runs. The code justifies them by its types: an absent value is `undefined` or
`null`, never one of the values it stands beside, and an object that a batch makes is not
one that was there before.

`DocumentRevision_proofs`. The invariant `RevisionInv` is inductive. Its heart is
`SpentIsBehind`: every revision at which a document was changed is below the revision
its instance will have at least (`Guaranteed`: the store, or the previous revision while
a reservation may still be rolled back), or belongs to a UUID that the document has lost
for good (`Abandoned`). `NoStaleReference` alone is not inductive: it says nothing of the
store, from which a reload takes the revision, nor of UUIDs that a Redo may bring back.
`ChangesNeverSilent` follows with `NothingReported`: a batch under way has no report yet.

`RequestQueue_proofs`. `QueueInv` says that waiting requests are the queued and the active
one, each once, that the queue is sorted by arrival and behind all that has been started,
and that the cancellation flag is that of the active request. `DrainInv` proves the loop
once, for both actions that run it. `ContractKept` proves that every step of the queue is
a step of `RequestContract` or a stutter.

`BridgeServer_proofs`. The handlers are functions on the record `server`, so the lemmas
are about these functions. `Evolves` says what closing, pruning and sending may do to each
field; it is transitive, so a chain of calls needs no argument of its own. `Handles` adds
what a frame may do. `ServerInv` is inductive over the steps built from them; it ties the
pending requests to the active session and the waiting polls to empty queues. Two more
invariants rest on it:

* `Ordered` follows each request from the caller to the plugin: a waiting one has been
  handed over or stands, once, in the queue of its session, and no other queue has it.
  `HandedOverInOrder` alone is not inductive, for it does not say that the queue holds a
  request once, nor that a request which is about to be sent is in no queue yet.
* `Reach` says that a connection whose answer to its challenge may still win the session
  (`Awaited`: in a body being read, or to come over an open socket) is registered, or was
  ended by its own plugin. Every other way to close a connection takes the answer with it
  or finds the challenge expired. It is needed because the body of an HTTP frame is read
  after its session was looked up: `ActiveIsReachable` holds of the active session only
  because it held of every session that could become active. The active session is
  authenticated, so pruning cannot take it; with this `HealthySessionKept` follows step
  by step.

`OperationBatch_proofs`. `BatchInv` has three parts. `PlanSound` is what the validation has
learned of each operation. `DocumentSound` is about the document: which objects can be there
(`ObjectsSound`), that an edit which shows goes on to show (`EditShows`), and that without a
person and without groups whatever differs from what the caller saw was disturbed by an
operation that has been executed (`Calm`). `AliasesSound` is what the names of the batch stand
for. `AliasesHold` alone is not inductive: without `PlanSound` an operation could bind a name
to another kind of object than was planned, and without `DocumentSound` an item could change
under a name through a second reference to it. `NoticedEditsStand` needs `EditShows`, for the
batch itself could make an edited object look again as it did, and `AliasSound`, for a name
could lead to it. `OperationStep` is proved once, for an operation that is executed and for
one in which the host fails on the way. `CarefulPlansRun` follows from `Calm` and shows where
the finding `batch_validated` ends, for batches of any length.

`BridgeClient_proofs`. `Summary` reduces the handlers to a few kinds of steps, by what
they do to the transport in use, the timers and who awaits a close. `ClientInv` is
inductive over these kinds. Its core is that an attempt whose close is awaited is not in
use, so that the end of one attempt does not take away what leads to the next.
`ContractKept` is the safety half of the refinement.

`FileExports_proofs`. `HostInv`: while no guard is at work every preference that nobody
disturbed has the value a person has chosen, and the snapshot of a guard at work has that
value; a preflight process belongs to a running task. `FilesKept` follows step by step.

`ToolCalls_proofs` builds on the types of `FileExports_proofs`. `CallInv` says where a
request can be (`LiveKnown`, `QueuedOnce`), that what the task has done is in the history
(`TaskOwned`), that a retry is offered only when the request has changed nothing or the
answer says so (`LiveAdmitted`), and that a batch which was applied has left the revision
its caller named (`BatchesPast`): a second try finds another. `OkIsWritten` needs
`WrittenInv` on top. Alone it is not inductive: an earlier try of the call may still wait
in the plugin (`TriesInOrder`, `SucceededLast`: the tries of a call run in their order,
and the last has succeeded), and another task may be about to write at the same path
(`NoneBeneath`: a task that was not to overwrite found no reported file there).

`UndoProof_proofs`. Undo and redo are one `History`, along which a person moves without a
change to it. `Grounded`: on a host of kind `last`, the shape of the proving batch was
added before the labelled step and not removed up to it. So a labelled step on top of
`redo` stands behind a shape that is still there, and the verification must fail. A host
of kind `first` never leaves an approved candidate. Nothing is said of a host of kind `each`.

| Module | Theorem | States |
| --- | --- | --- |
| `DocumentRevision` | `RevisionInvariant`, `TypeCorrect` | `[]RevisionInv`, `[]TypeOK` |
| | `StaleReferencesRefused`, `AcceptedBatchesFresh`, `ReservationsStand`, `RevisionsStep`, `ChangesAreNeverSilent` | `[]NoStaleReference`, `[]AcceptedStaysFresh`, `[]ReservationStands`, `RevisionSteps`, `ChangesNeverSilent` |
| `RequestQueue` | `QueueInvariant`, `TypeCorrect` | `[]QueueInv`, `[]TypeOK` |
| | `ServedInOrder`, `HostRunsOneTask`, `RetryIsSafe`, `CancellationsHit`, `StartedInTime` | `[]FifoOrder`, `[]OneAtATime`, `[]RetryableNeverRan`, `[]CancelHitsItsTarget`, `StartsInTime` |
| | `ContractKept` | `Contract!Safety` |
| `BridgeServer` | `ServerTypes`, `RequestsWaitOnActive`, `AuthenticationStaysBounded`, `ActiveIsPaired`, `PollsDoNotSleep`, `SettledIsFinal` | `[]TypeOK`, `[]WaitsOnActiveSession`, `[]AuthenticationBounded`, `[]OnlyPairedActive`, `[]NoSleepingPoll`, `SettledOnce` |
| | `HandedInOrder`, `ActiveCanBeReached`, `HealthyStays` | `[]HandedOverInOrder`, `[]ActiveIsReachable`, `HealthySessionKept` |
| `BridgeClient` | `ClientTypes`, `DisconnectIsKept`, `ClientIsNeverStranded`, `ClaimsAreProved`, `AbandonedGetNothing` | `[]TypeOK`, `[]DisconnectHolds`, `[]NeverStranded`, `[]ClaimsOnlyProved`, `AbandonedGetsNothing` |
| | `ContractKept` | `Contract!Safety` |
| `FileExports` | `ExportTypes`, `HostIsLeftAsFound`, `FilesAreKept` | `[]ExportTypeOK`, `[]HostLeftAsFound`, `FilesKept` |
| `OperationBatch` | `BatchInvariant`, `BatchTypes` | `[]BatchInv`, `[]TypeOK` |
| | `UnchangedIsTrue`, `AliasesAreKept`, `ReferencesAreKept`, `NoticedEditsStand`, `GroupsHoldTheirTargets`, `CarefulPlansRun` | `[]UnchangedAsReported`, `[]AliasesHold`, `[]ReportedReferencesHold`, `NoticedEditUntouched`, `GroupsAreExact`, `[]CarefulPlanRuns` |
| `ToolCalls` | `CallTypes`, `BatchesApplyOnce`, `ChangesAreAdmitted`, `SuccessesAreWritten` | `[]TypeOK`, `[]BatchAppliedOnce`, `[]AdmitsChanges`, `[]OkIsWritten` |
| `UndoProof` | `ProofSound` | `[]ProofIsSound` |

`RevisionInv`, `ReservationStands`, `QueueInv`, `OneAtATime`, `StartsInTime`, `BatchInv`,
`ToolCalls!TypeOK`, and the lemmas' `Ordered`, `Reach` and `WrittenInv` are proved and not
among the properties of the runs; TLC has found each of them to hold on the instances of
the runs before they were proved.

**Only model-checked**: the liveness halves of both refinements and `EndedSessionAnswers`,
for liveness under fairness is out of the prover's reach. Every invariant and every action
property that a run checks and finds true is also a theorem.

## Findings

* `queue_depth`: `router.ts:33` subtracts the status request from a depth which, by then,
  no longer counts it.
* `client_shown`: `client.ts:311`, and the end of `stop`, write `offline` after an awaited
  close, over the state of a session that has authenticated meanwhile.
* `batch_validated`: the validation looks at the document before the batch, the execution
  at the document the batch has changed, so some batches pass a dry run and stop half way.

## Observations

Behaviour met while modelling that no document plainly contradicts, kept here for a reader:

* `BRIDGE_OFFLINE`, the answer to calls that wait when their session ends, offers a retry
  and does not say that the operation may have been completed, as `TIMEOUT` does. A batch or
  an export is protected by its revision; a repeated `create_document` makes two documents.
* After a batch has changed the document, `documentRef` reads the revision store
  (`indesign-adapter.ts:520`); when the read throws, that error takes the place of the
  report. The revision has been committed by then, which is what `ChangesNeverSilent` asks.
* A token that cannot be read leaves a client without a further attempt; the user has to
  press Connect (`README.md:173` says that a loaded panel "keeps reconnecting", and nothing of
  the token). This is the case `tokenless` of `NeverStranded`.
* Over HTTP the poll loop awaits each frame, so a heartbeat waits behind a running
  request and a live session may end as stale (`http-poll-transport.ts:199`).
* The guard of a preview takes its snapshot before it awaits the output file: a preference
  that a person sets meanwhile is put back to its old value (`indesign-adapter.ts:611`).
* A Clear of the workspace is undone by a restoration of the stored one that ends after it.
* A host that puts the label of the batch on each of several steps passes the verification
  of the Undo proof once all of those steps are undone: the first of them is then on top of
  the redo history, and every created object is missing (`indesign-adapter.ts:555`). TLC
  finds this on the instance of `undo` when `each` is taken out of `ProofIsSound`.
* An edit of text, fill, style or layer between the snapshot and the batch leaves the
  fingerprint as it was (`identity.ts:429`), and the batch overwrites it. The documents say
  as much: "Manual edits are not exhaustively detected" (`docs/adr/0004-object-identity-and-undo.md:78`,
  also lines 41 and 80, `README.md:306` and `352`, `SECURITY.md:62`). `NoticedEditUntouched` is
  therefore about edits that the fingerprint shows.
* A batch in which `ensure_layer` locks a layer and `move_item_to_layer` names it by the
  reference of a snapshot passes the validation and stops with `STALE_OBJECT`: the batch has
  changed the fingerprint itself. It is one of the batches that `batch_validated` is about.
* An `AbortError` of the host inside a task is answered `CANCELLED`, "before it started", with
  the offer of a retry (`core/errors.ts:60`), although a file may have been written by then.

## Bounds of the models

* A host restart that uses native ids again is not modelled, nor is a reference without a
  native id after a document was reopened (its revisions start at 1 again). The person's
  edits move no revision, as in the code.
* `SerialRequestQueue.#notify`, which writes to the panel, is assumed not to throw.
* Bridge server: frames that are no bridge frames (the socket is closed with 1007 or
  1009), byte budgets (they appear as `Oversized` and `MaxOutbound`), protocol mismatch,
  status texts and shutdown are left out. A nonce is fresh for each challenge and a digest
  proves the token.
* Bridge client: status events and diagnostics, single failed polls and the bounds on
  bodies are left out.
* Operations: a group has two targets; a person deletes only what is in no group, and no
  pages; a new page is a spread of its own; the layer of a group's members stays theirs; what
  has been altered does not get its old fingerprint back; persistent UUIDs of objects
  (`identity.ts:263`) are left out.
* File exports: all paths are in one folder; the rules for paths are left out.
* `MaxSteps`, `MaxRevision`, `MaxTries` and `MaxAttempts` (where it is not the constant of
  the code) bound the runs.

## Not modelled

* Domain library (`packages/domain`): `SerialQueue`, `RevisionTracker`, the operation plan
  and its preference guard are exported and tested but used by neither application. The
  plugin has its own, which are modelled.
* Plugin adapter helpers: readers of the host DOM without state of their own.
* Protocol schemas, security helpers (HMAC, redaction, path rules), configuration and
  logging: pure functions without order or interleaving, which unit tests reach.
* The stored workspace and pairing tokens, the widgets of the panel, read-only tools
  (they only forward), start-up of the server, the test kit and the scripts.
* An end-to-end composition of `BridgeServer` with `BridgeClient`: each alone has close to
  all the states that TLC can visit. Each is checked against an environment that does what
  the code of the other may do, and more; `ToolCalls` composes their guarantees.
