# A TLA+ model of GatewayControl

GatewayControl runs reverse proxies, Cloudflare tunnels and Compose stacks on
remote nodes. A *control plane* (a Fastify server, `src/server/src`, over
PostgreSQL, `src/server/migrations`) holds the desired state and a queue of
commands; on every node an *agent* (Go, `src/agent`) polls for a command,
executes it with Docker and reports its result. This directory models that
program: what the queue, the journal of the agent and the network between them
do when processes crash, writes fail and messages are lost, and what the
program promises all the same.

Contents: [the system](#the-system), [what is modelled](#the-modules),
[the abstractions](#abstractions), [the runs](#the-runs),
[the proofs](#the-proofs), [the findings](#findings), [observations](#observations),
[what is left out](#not-modelled), [the plan](#plan).

## The system

| Component | State | Operations | Hard behaviour |
|---|---|---|---|
| Command queue (`postgres-store.ts`, tables `agent_commands`, `stack_backups`, `stack_restores`, `runtime_operations`, `runtime_log_requests`, `deployment_runs`, `operational_events`) | one row per command, with status, result and lease; one operation row for most kinds | create, claim, complete, sweep stale | leases expire while work goes on; three writers of an operation row; repeated and late reports |
| Agent command loop (`agent/agent.go`) | the command in hand | deliver pending results, poll, handle, execute, save, submit | crash between any two steps; retries of what may have happened |
| Agent journal (`state/store.go`, `state.json`) | a map in memory and its file | mark running, save result, mark delivered, open | memory changes before the write; a write fails before or after the rename |
| Control client (`control/client.go`) | none | requests with status codes | lost requests, lost replies, 404 and 409 |
| Poll and result handlers (`app.ts`) | none | claim and answer, or reject in a second transaction | steps of others between the two transactions |
| Notification outbox and dispatcher (`notification-dispatcher.ts`, `notification_deliveries`) | one row per delivery, attempts, due time | enqueue with the event, claim, check, send, complete, retry, skip | at-least-once sending; crash between send and complete; the limit on attempts |
| System backup, restore, import (`system-recovery.ts`, `restore-system.ts`) | rows, plus marker, lock, dump and artifact files | create, upload, validate, stage, request apply, apply, clean up | files and rows change in separate steps; a restore brings rows back, not files |
| Recovery supervisor (`docker/recovery-supervisor.sh`, `recover.sh`) | request files | claim, recover, publish the outcome | restart in the middle of a recovery |
| Connectors (`postgres-store.ts`, `executor/connector.go`) | desired revision, token and its identity, status; a container on the node | create, update, move, verify, sync, remove | a sync or removal overtaken by a later one; Cloudflare asked between read and write |
| Routes (`postgres-store.ts`, `executor/route.go`) | desired revision, gateway, status; a file on each node | create, update, move, sync | syncs without revision; results of a gateway that is left |
| Operations (`stack_backups`, `stack_restores`, `runtime_operations`, `deployment_runs`) | one active operation per target; the deployment's current revision | admit, claim, carry out, compensate, finish, sweep | concurrent admission; a run that fails half-way |
| Agent registry (`agents`) | enrolment, credential, heartbeat, offline mark | create, enroll, heartbeat, telemetry, sweep, remove | one-time token and a lost reply; overlapping telemetry; removal against creation |
| Domain access (`app.ts`, `cloudflare-client.ts`) | desired access, known DNS records, outcome; records and tunnel rules at Cloudflare | change, reconcile, undo, verify | remote effects and local records fail separately; a revision overtaken |
| Guided operations (`app.ts`) | stage, what was made, the request | bootstrap, publish, retry, verify | made and recorded in two statements; two requests with one key |
| Migration runner, configuration, crypto, Compose policy, telemetry, web client, update scripts | see `PROJECT.json` | | sequential or pure |

They interact as follows. Handlers of the API change a row and, in the same
transaction, queue the command that carries it to an agent. The agent pulls
commands over HTTP; nothing is pushed. The poll handler claims a command, looks up
in further statements what it refers to, and answers or refuses it; a result
updates the row in the transaction that completes the command. Every end of an
operation may write an operational event, and with it, in the same transaction, a
row of the notification outbox. The dispatcher's tick, every five seconds, sweeps
offline agents and stale commands and then sends at most one notification. A
domain access relies on its route and its connector: triggers and checks refuse
changes that would take them away under an enabled one. Guided operations carry
accounts, connectors, routes and accesses from one to the next.

What makes each part correct:

* queue and loop: a command is executed at most once; it is shown succeeded only
  if its execution succeeded; its operation row agrees with it; its end is
  announced once; nothing waits for ever;
* outbox: a delivery that succeeded was accepted by Telegram; no row stops the
  line; every delivery ends;
* backup, import, restore: a listed backup has its artifact; an interrupted restore
  can be resumed, only whole ones are served and none is repeated;
* connectors and routes: what is shown active is on the node, at the revision the
  row has; what is not settled has a command that will settle it; what is left
  behind is owed a removal;
* operations: what would disturb each other is never admitted together; a
  deployment's row tells what its host runs, also after a compensation;
* registry: a token enrols one host and an enrolled host is let in; offline and
  recovered, trouble and health are announced in turn; nothing refers to a removed
  agent;
* domain access: what is shown active is reachable, what is shown disabled has left
  nothing, and nobody else's record or rule is touched;
* guided operations: nothing is made twice, and a retry finds what was made.

The hazards behind these properties are listed with their lines in
`PROJECT.json`.

## The modules

`CommandQueue` models the rows of one agent's commands. Each operation of
`PostgresStore` is one transaction and one atomic operator: `CreateCommand`,
`ClaimCommand`, `CompleteCommand`, `FailStaleCommands`, and `LeaseExpires` for the
passing of `lease_expires_at`. `operation` is the status of the row that the
command carries out (a backup, a restore, a runtime action, a log request, a
deployment run), `events` counts the operational events that announced its end.

`AgentStore` models the journal: `mem` is the map in memory, `disk` the file.
Every mutator changes `mem` and writes it as a whole; a write is done, fails
before the rename (the file is the old one) or fails after it (chmod or directory
sync: the file is the new one and the caller sees an error).

`CommandDelivery` is the composition: the loop of one agent as a program with a
place `pc` and a command in hand `cur`, over queue and journal.

| `pc` | Code | Actions |
|---|---|---|
| deliver | top of `commandLoop`, `deliverPending` | `DeliverPending`, `NothingPending` |
| poll | `FetchCommands` | `PollClaim`, `PollEmpty`, `PollLost` |
| answer | the poll handler after its claim | `AnswerCommand`, `AnswerRejected`, `PollLost` |
| handle | `handleCommand`, the look into the journal | `HandleRecorded`, `HandleInterrupted`, `HandleNew` |
| begin, executing | `executor.Execute` | `ExecuteBegin`, `ExecuteEnd` |
| save | `SaveResult` | `SaveOutcome` |
| submit | `SubmitResult` | `SubmitAccepted`, `SubmitRefused`, `SubmitLost`, `SubmitReplyLost` |
| mark | `MarkDelivered` | `RecordDelivery` |

`CrashRestart` may happen at every place. `Create`, `Expire` and `Sweep` are the
control plane's own steps. `runs` (how often the executor was started) and
`outcome` (what it returned) are observations: no guard of the queue reads them.

`CommandContract` says what all of that is for, with no queue, lease, journal or
network: an execution starts at most once, a verdict is given once, and
"succeeded" is declared only of an execution that succeeded. `CommandDelivery`
implements it under `executionOf` and `verdictOf`.

`DatabaseRollback` extends `CommandDelivery` with system recovery: `TakeBackup`
remembers the queue's rows (`pg_dump`), `Rollback` puts them back
(`pg_restore` in one transaction, the server stopped), while the agent and its
journal go on. Commands created since the snapshot are `lost`: their ids never
return. Its `Redeliver` is `HandleRecorded`, the case of `handleCommand` for a
command that the journal already has a result of. `CommandDelivery` defines that
case but leaves it out of `Loop`, where it is impossible: everything the agent has
a result for is delivered before it polls, so nothing of it is claimable
(`ReceivedOK`, checked and proved as part of `IInv`).

`NotificationOutbox` models the rows of `notification_deliveries` and the
dispatcher as a program over them. Its places are the statements of `dispatch`:
"check" (`isNotificationDeliveryEnabled`), "skip", "send" (the request to
Telegram), "complete", "retry". A statement that fails sends the tick to its
`catch`, that is to "retry", whether it took effect or not (`EndOrRetry`); a
failing retry, or a crash, leaves the row "dispatching" until it is `overdue` (two
minutes). The order of `next_attempt_at` is kept without times: `due` are the rows
whose time has come and `ahead[d]` those among them with an earlier one. A claim
takes the first eligible row or, if its increment breaks the table's CHECK, none
at all. It shares no state with the queue: the event that starts a
delivery is one that `events` counts in `CommandQueue`.

`SystemRestore` models the way a restore takes, as four programs over shared files
and rows:

| Program | State | Actions |
|---|---|---|
| `stageRestore`, a call per attempt, any number at once | `at[a]`, its `row[a]`; shared: `lock`, `marker`, `dumps` | `TakeLock` or `LockTaken`, `CopyDump` or `MarkerSeen` and `Refuse`, `Record`, `Publish`, `MarkStaged`; after a failure (`StagingFails`) `UndoMarker`, `UndoDump`, `UndoRow`, `UndoLock` |
| `requestApply` | the active row `asked`, `linking`, the spool's `pending` | `RequestApply`, `LinkRequest`, `LinkRefused`, `LinkFails` |
| `recovery-supervisor.sh` | `claimed`, `sup`, `report` | `Claim`, `BeginRecovery`, `EndRecovery`, `Archive` |
| `recover.sh` with `applyStagedSystemRestore` | `rec`, `job`, `writer` | `StopWriter`, `CheckMarker` or `CheckRefused`, `BeginRestore`, `RestoreDatabase`, `FinalizeBackup`, `ConcludeRestore`, `RemoveLock`, `RemoveMarker`, `RemoveDump`, `StartWriter` |

An attempt stands for one call with its token, its row and its dump. `marker` maps
the three file names to the attempt in them. The three ways to die are
`ServerDies` (which ends every call where it is), `RecoverFails` (any command of
`recover.sh` or of its container) and `SupervisorDies` (with the `recover.sh` it
runs, restarted with `claimed` as it was). `effect` follows what became of a dump:
"restored" by `pg_restore`, "finalized", "served" once a control plane ran on it.
The operator runs `recover.sh` by hand and starts the writer, as `README.md:286-292`
of the repository describes, and never while a marker says "applying".

`SyncQueue` is the queue as synchronisation and operations rest on it: rows of
several agents with the place (`stamp`, the `created_at`) they have in line, and for
each agent a loop reduced to what the rows can tell: asked, holding a command,
reporting. Claim (`ClaimRow`) and answer (`AnswerWith`, `Refuse`) are two steps. It is
extended by three modules, each of which adds to the queue's steps what they do to its
rows and to the hosts:

* `ConnectorSync`: `UpdateConnector(time, ...)` raises the revision, brings the pending
  sync to the place of the transaction's `time` or inserts one there, and queues a
  removal for an agent that is left. `began` remembers the times.
  `AnswerSync` passes a sync on only for the revision it was made for; `Execute` and
  `Crash` choose among the containers the swap of `executor/connector.go` can leave.
  `StartCheck` and `FinishCheck` are the verification of the token's identity, before
  and after Cloudflare is asked; its last write compares revision and token (`AsRead`).
* `RouteSync`: syncs name no revision (`QueueInternalSync`); `Undisputed` is the
  condition under which a result counts. A change is `StartUpdate`, `QueueInternalSync`
  and `FinishUpdate` (lock, insertion, commit): it holds the row's lock throughout, and
  a result that waits for the lock is written at the end of the change, but the pending
  sync that the insertion met may be claimed before the commit. `CreateAccess`,
  `SetPending`, `ReadTopology` and `MarkAccess` are a domain access that relies on the
  route, `Linked` the guard that protects it.
* `Operations`: a request to admit an operation is `Ask`, `Lock`, `Check`, `Insert`,
  for a stack, a runtime project or a deployment (`target`). For a deployment
  `Perform`, `Compensate`, `Fail` and `Crash` say what a run leaves on the `host`.

`AgentRegistry` models one `agents` row, the hosts on which its enrollment command is
run, heartbeats and telemetry as requests with a beginning and an end, the offline
sweep, the events about the agent (`presence`) and about one of its services
(`notice`), and requests that make something refer to the agent (`StartCreating`,
`FinishCreating`) against `Remove`.

`DomainAccess` models one access: its row, what it knows of its records (`known`), the
hostname's records at Cloudflare (`remote`) and the tunnel's `rules`. A reconciliation is a
program per request: `Read`, `List`, `Adopt` or `Clash`, `Drop`, `GetConfig`,
`PutConfig`, `Create`, `Outcome`, and after an error `Undo`, `RestoreConfig`, `Fail`.
`Current` is the fence that every write to the store carries. `NeighbourGets` and
`NeighbourPuts` are another access of the same tunnel, `VerifyRead` to
`VerifyInvalid` the verification of a guided publish, `Meddle` other people at
Cloudflare.

`GuidedOperations` models one guided operation as the list of things it makes
(`Steps`). A request goes through `Look`, `Make`, `Record` for each. Every statement of
these can fail, before or after it took effect (`MakeFails`, `RecordFails`,
`ReconcileFails`, `FinishFails`); the error is thrown to "catch", where the row is marked
failed (`Catch`, which may fail itself), or, for a route, out of the handler. `Continue`
is what a publish does once its route is active, `Reconciled` stands for the reconciliation
that `DomainAccess` has in detail, `Verified` and `DeadlinePasses` for its verification.

`BackupImport` models backups of this instance and of another, imports, the files in
their two places and in quarantine, and the rows, which `Restore` replaces by those in a
dump: `dump[b]` for a backup made here, any of `Elsewhere` that fits for one made on
another instance. `StartUpload` to `UploadFails` are `uploadImport`, `Claim` to
`RejectImport` `validateImport`; `Crash` includes the start-up that follows and its
clean-up of stale imports.

The modules `MC...` hold constants' values for TLC. The theorems are in eight modules:

| Module | About |
|---|---|
| `CommandDeliveryProofs` | `CommandDelivery`, `CommandContract`, `DatabaseRollback` |
| `AnnouncementProofs` | `AgentRegistry`, `NotificationOutbox` |
| `SystemRestoreProofs` | `SystemRestore` |
| `OperationsProofs` | `Operations` |
| `GuidedOperationsProofs` | `GuidedOperations` |
| `BackupImportProofs` | `BackupImport` |
| `SyncProofs` | `SyncQueue`, `ConnectorSync`, `RouteSync` |
| `DomainAccessProofs` | `DomainAccess` |

Where a proof module is about two modules, one of them names its specification apart
(`RSpec`, `RegistrySpec`, `RouteSpec`).

## Abstractions

* One agent and one loop. Commands of different agents share nothing in the
  queue: every statement of the store filters by agent.
* The poll handler claims one command (`app.ts:1759`). The order of
  `created_at` is the order of the command numbers, and the oldest claimable
  row is claimed; with one poller, SKIP LOCKED skips nothing. `SyncQueue` keeps
  `created_at` as a number, because `queueConnectorSync` moves it.
* The clock is a choice: a lease may run out at any time after the claim, a
  command may be past its window whenever the sweep runs. `MaxStale` bounds how
  many are ever swept.
* Kinds keep what the queue distinguishes: which have an operation row, which are
  swept, which are announced and when. Payloads are left out, and with them the
  several reasons for which the poll handler rejects a command: it may, or may
  not.
* A result is how the execution ended. Two results of the same command are equal
  when their payloads are; the agent journals the first and sends that again, so
  "interrupted" stands for one report per command although its timestamps would
  differ if it were produced twice (a write error in between).
* The column `attempts` of `agent_commands` is only ever read for display.
* A crash and the restart after it are one step; no other step sees the agent
  down. A request that arrives after the client gave up on it equals a lost reply
  as far as it arrives within its lease. Later arrival is not modelled.
* `purgeRuntimeLogResults` drops log text, of which the model keeps none.
  `MarkDelivered` truncates outputs, which are only sent again after the control
  plane lost its database. The agent caps its output at 20,000 bytes, so the
  handler's size limit is not reached.
* "missing" (404) needs a control plane that was restored to an earlier
  database, as in `DatabaseRollback`. There, staging, applying and restarting are
  one step. Redelivered results lack the outputs that `MarkDelivered` cut, and they are sent
  for commands in "claimed", where nothing is compared with them. Only with three faults
  does a comparison see the difference: the write of `MarkDelivered` fails, the reply to
  the redelivered result is lost, and a crash falls back to the file with the whole
  result, which is then refused (409). The model takes the two for equal.
* `SyncQueue`: the journal is reduced to the rows an agent was executing when it
  crashed (`interrupted`), which is what `handleCommand` reports as interrupted;
  that it reports the same result until it is accepted is `CommandDelivery`'s
  matter. A late result for a row that was swept is let go of here, as if the agent
  had been freed by hand: the wedge is a finding of `CommandDelivery`, and the
  modules above it look at what happens besides. In `RouteSync` and `ConnectorSync`
  the number of a revision serves as the value desired.
* Places in line: `created_at` is `now()`, the time a transaction began. Changes of one
  connector or route lock its row one after another, in whatever order they began, so a
  change takes any time that no other has (`BeginTimes`, `FreeTimes`). The removal and
  the sync of one change have the same time and are for different agents.
* Connector: the container is its revision, or 0. What the swap can leave is a choice
  of old, new and none; a failed execution's clean-up that itself fails is one of
  them. Verifications are one at a time, as many as there may be, and take any time.
  Reading the row and the first write are one step: a verification whose row changes
  between them writes nothing and ends, as if it had not begun.
* Route: a file is its revision, or 0. What a change inserts is seen by others when it
  commits. The topology of an access is read in one statement and the access
  marked in another. What the access does at Cloudflare is in `DomainAccess`.
* Operations: one target, one agent. An operation is active exactly while its command
  is open; that the rows of both agree is `OperationFollowsCommand`. Log requests
  exclude nothing and are left out.
* Registry: the statuses of a service are healthy, unhealthy, stopped and other.
  `now()` is the start of a transaction, so of overlapping posts the later to start
  is the latest. Two posts overlap at most. Telemetry clears the offline mark as in
  the code.
* Domain access: a call to Cloudflare and the fenced write that follows it are one
  step, since the call does not look at the row: a change between them is like one
  before both, and a crash between them is part of `Crash`. A record's content and
  proxy flag are `item`; one that was made by the server and changed is "changed".
  What a verification observes is any (`Observed`): `tls-observer.ts:27` rejects only
  answers of 500 and more, so a tunnel without the access's rule, one address of several
  or somebody else's record can be found valid.
  The tunnel's other accesses are one neighbour.
* Guided operations: a statement that fails may have taken effect. What is made is
  counted. The row's columns for what was made are
  `recorded`; the publish's expectations of names and hostnames are `taken`.
* Import: an artifact is an identifier and one of two checksums. Encryption, the
  format and the size limit are an unreadable artifact. A restore brings the rows
  back in one step; how is `SystemRestore`'s matter. The dump of an artifact made
  elsewhere has all rows of the instance that made it. Of those the model assumes only
  what is proved of rows here (`OfAnother`), that the backup itself is running in them,
  and that they do not speak of what has not happened here yet (`Possible`).
* Outbox: one server process, one tick at a time (`running`). What a tick does
  before its claim (sweeps, purge) is elsewhere; if that fails, the tick comes
  later. Settings and scopes are one switch, `muted`. A claim whose reply is lost
  is a claim followed by a crash. That Telegram refuses, cannot be reached, or
  accepts without an answer is not counted as a fault and is unlimited.
* Restore: all backups are older than the restores in the model, so that restoring
  one removes the rows of all (the rows would otherwise come back as they were). An
  attempt's files in its temporary directory, the checks of the archive, the
  signature of a request and the state of the backup files are left out: what fails
  there fails before anything below. A dump that is not complete counts as absent.
  The removals of the rollback succeed (if one fails, its error is swallowed and the
  file stays). Rows "publishing" and "published" are equally active. One recovery
  runs at a time (`recover.sh` takes no lock; the manual one is started when no
  request is there), and none outlives the script that started it.

## The runs

| Run | Instance | Shows |
|---|---|---|
| `delivery_safety` | two commands, six kinds, three faults, both commands may go stale | `SuccessIsReal`, `OperationFollowsCommand`, `AnnouncedOnce`, and that the loop and queue implement `CommandContract` |
| `delivery_wedge` | two backups, no faults, one goes stale, fairness | expected violation of `ReleasedForNewOperation`: see [Findings](#findings) |
| `rollback` | two backups, one fault, one stale sweep, one rollback to a snapshot of any moment, fairness | `AtMostOnceExecution` and `DurableResultIsFinal` through a rollback; `DecidedAgain`: what still exists is decided again, unless the agent owes a result that is refused |
| `outbox` | two deliveries, give up at 3, CHECK at 5, two faults, fairness | `SuccessWasReceived`, `LineIsOpen`, `EveryDeliveryEnds` |
| `restore` | two calls of `stageRestore`, three faults, fairness | `AlwaysApplicable`, `WholeRestoreOnly`, `NeverReplayed`, `RequestIsAnswered` |
| `connector_sync` | two agents, two changes begun in any order, one fault | `ActiveConnectorRuns`, `StoppedMeansGone`, `IdentityIsOfStoredToken`, `UnsettledIsQueued` |
| `route_sync` | two agents, two changes, two faults, one access | `ActiveRouteServed`, `PendingRouteIsQueued`, `ActiveAccessHasRoute` |
| `operations` | two concurrent requests, three operations, two revisions, two faults, the sweep | `NoOverlap`, `ActiveRunsCurrent`, `CompensationRestoresCurrent`, `ChangingHasRun` |
| `agent_registry` | two hosts with one token, two overlapping posts, two credentials | `RemovedIsUnreferenced`, `OneHostEnrolled`, `PresenceAnnounced`, `ServiceAnnounced` |
| `domain_access` | two requests, a neighbour, a verification, two addresses, three record ids, three revisions, two faults | `ActiveIsServed`, `DisabledIsGone`, `NeighbourKept`, `ForeignKept` |
| `guided_operations` | two requests, three faults, either kind | `MadeOnce`, `SucceededHasAll`, `Resumable`, `SucceededIsKept` |
| `backup_import` | one backup made here, one made elsewhere, two imports, three faults, dumps made elsewhere | `BackupHasArtifact`, `ImportedIsListed`, `DestinationIsListed` |

Why these bounds are enough to be interesting: two commands let one be pending
behind the other, one be redelivered while the other waits and one be swept while
the other runs. Three faults let a crash hit a command whose journal write failed
and whose reply was lost. Leases, rejections and sweeps are not counted as faults
and are unlimited (sweeps up to the number of commands). The kinds of the safety
run cover every combination of "has an operation row", "row only updated while
active", "announced by completion" and "announced by the sweep"; `runtime` differs
from `backup` only in the guard of the row update and is covered by the proofs.
The rollback run uses one rollback: a second one only repeats it from another
state, and the safety theorems do not depend on the number.

The outbox needs two deliveries, so that one waits behind the other, and limits
that leave some room between giving up and the CHECK: 3 and 5 leave two faults as
6 and 10 leave four, and the theorem `OpenLine` covers all other limits.

Two attempts of a restore let one be staged while the other is applied, refused,
rolled back or already done; three faults let a call be killed, a recovery
interrupted and its repetition interrupted again.

A connector changed twice can be moved away and back, or stopped and started, while a
command of each earlier revision is still on its way; one lost answer or crash is what
it takes to have a row claimed out of order. With three times the second change may have
begun before the first or after it. A route is created and changed twice: one sync to
queue, one that is overtaken, one that moves on. Its two faults are a lost answer and an
interrupted execution, or two of a kind. Three operations on a deployment are a run that
succeeds, one that fails and is compensated and one that is admitted meanwhile. Two
hosts and two posts are the least that can disagree. Domain access: two requests let one
supersede the other; three revisions let an access be changed twice; three ids are two
addresses and one record of somebody else's; two faults are a failed call and a failed
undoing, or a crash and a record changed by others. Two imports contend for one backup;
three faults are an interrupted import, a failed statement and a restore. In a dump made
elsewhere (`ElsewhereMC`) any one backup is running and each other unknown, made there
or imported there; one import is waiting, or imported, or there is none. Guided
operations: three faults are a record that failed, a retry of it that failed, and a
crash.

Fairness is stated where a run checks liveness. The agent's loop takes its steps as
long as the process runs (`WF_vars(Loop)`: `commandLoop` only ends with its context,
and every wait in it is a backoff or a bounded request) and leases end
(`WF_vars(Expire(c))`: time passes). The dispatcher's timer fires (`WF_vars(Tick)`:
`setInterval` of five seconds, `running` reset in `finally`) and delays pass
(`WF_vars(Time(d))`). The recovery supervisor polls every two seconds and is restarted
by systemd (`WF_vars(Supervisor)`), and `recover.sh` with what it runs goes on while it
is alive (`WF_vars(Recovery)`). Nothing is assumed of users, owners, operators, faults
or the sweep. Faults are finite (`MaxFaults`), as a process that crashes for ever makes
no progress.

The modules over `SyncQueue`, `AgentRegistry`, `DomainAccess`, `GuidedOperations`,
`BackupImport` and `SystemRestore` do not check for deadlock: revisions, operations,
attempts and imports are bounded, and when they are used up the system may stop. The
first three state progress as safety instead (`UnsettledIsQueued`,
`PendingRouteIsQueued`, `ChangingHasRun`): what is not settled has a command in the
queue, and that commands are decided is shown by `DecidedAgain`.

Several properties name an exception. Each is a case that the code does get wrong or
leaves open, described under [Observations](#observations); the exception is kept as
narrow as a history variable can make it, so that the property says what holds
besides.

What would break each property is recorded as a mutant in the module itself: a
definition next to the real one, with the bug it stands for.

## The proofs

`CommandDeliveryProofs` proves for any set of commands, any kinds, any number of
faults and stale sweeps:

* `Invariance`: `Spec => []IInv`;
* from it `RealSuccess`, `OperationAgreement` and `SingleAnnouncement`, which the run
  `delivery_safety` checks; `AtMostOnce`, which `rollback` checks; and
  `TypeCorrectness` and `DeliveryIsRecorded`, which are conjuncts of `IInv`;
* `DurableResults`, an action property of the run `rollback`, and `FinalVerdicts`, that
  a verdict once given stays;
* `Refinement`: `Spec => ImplementsContract`.

The argument. `AtMostOnceExecution` is not inductive: that a command was never
begun is known only from the journal. `IInv` adds six conjuncts. `PlaceOK` says
what the loop knows at each place, above all that at "begin" the command's record
is on *file* and was not there when the loop looked. `JournalOK` relates the two
copies of the journal: memory may be ahead of the file (a failed write), but
what was ever begun is on file, and a result on file is also in memory. So
a restart, which falls back to the file, cannot forget an execution. `DeliveryOK`
relates the journal to the queue: what either copy marks delivered is recorded
there; `ReceivedOK`, that what is recorded is never received again; `SuccessesOK`,
that a recorded success comes from a successful execution. `QueueOK`
relates status, operation row and announcements. Each action of the queue and of
the journal has a lemma saying what it does to these; the step theorem has one
case per action.

Of `DatabaseRollback` it proves `RollbackInvariance`, `RollbackAtMostOnce`,
`RollbackRealSuccess` and `RollbackDurableResults` for any number of rollbacks to
any snapshots. Its invariant
is `IInv` without `DeliveryOK` and `ReceivedOK`, which a rollback breaks, and with
`QueueOK` and `SuccessesOK` also holding for the snapshot's rows (`Snap`, the same module
instantiated with them). The conjuncts about the journal mention no row, so a
rollback cannot disturb them, and the lemmas about `CommandDelivery` are reused for
every other step. That is the design's point: at-most-once execution rests on
the agent alone.

`AnnouncementProofs` proves of the outbox `Invariance`, `ReceivedSuccess`,
`AccountedAttempts`, `OpenLine` and `FinalEnd` for any deliveries and limits. The
invariant adds to the properties that a delivery at "check" or "send" has a claim
that sent nothing yet, that one at "complete" was received, and `RowOK`: a row
"dispatching" that nobody works on has fewer attempts than `GiveUp` plus the faults
so far, since it took a fault to abandon it. `OpenLine` follows under the
hypothesis `GiveUp + MaxFaults <= CheckLimit`; with one fault more the claim itself
can fail (see [Observations](#observations)).

Of the registry it proves `RegistryInvariance`, `RegistryTypes`, `UnreferencedRemoval`,
`OneEnrollment`, `AnnouncedPresence` and `AnnouncedService` for any number of hosts and
credentials. The invariant adds `NewOK` (nothing is heard of an agent that no host has
enrolled), `HostOK` (a host that was answered holds the agent's present credential, as
only an unused token issues one), `AloneOK` (a telemetry post that overlaps no other has
read the latest status) and `GapOK` (before a gap, the last event agrees with the last
status).

`SystemRestoreProofs` proves `RestoreInvariance`, `RestoreTypes`, `RestoreResumable`,
`RestoreWhole` and `RestoreNeverReplayed` for any number of calls and faults. None of
the three properties is inductive, since the files say nothing of the database. `IInv`
ties them: `StageOK` (a call in progress holds the lock, nothing else is published and
the control plane runs), `MarkerOK` (one marker at most, with its dump, and its lock
until it is applied), `RecOK` (which marker `recover.sh` relies on at each place, and
that the writer is stopped meanwhile) and `EffectOK` (the marker's name against how far
the restore got). There is one lemma per group of actions that disturb the same parts.

`OperationsProofs` proves `Invariance`, `OperationTypes`, `OverlapExcluded`,
`ActiveIsCurrent`, `CompensationIsCurrent` and `ChangeHasRun` for any number of
requests, revisions, operations and faults. `NoOverlap` needs `AdmissionOK`: at most one
request holds the target, and one that has looked for an active operation has found
none that overlaps its own, until it inserts. From `NoOverlap` a deployment has one open
run (`OneRun`). What a deployment shows needs two more parts. `WorkOK` says of the agent
that has something to report what it has left on the host. `DepOK` says that the prior
revision recorded with the open run is still the current one, and that "active" is only
shown while nothing is open and the agent is idle (`Quiet`), so no late execution can
change the host under it. This is where one agent per target is used.

`GuidedOperationsProofs` proves `Invariance`, `GuidedTypes`, `NothingTwice`,
`SuccessIsWhole`, `RetryFinds` and `SuccessIsKept` for any requests and number of
faults. The invariant follows a request along the steps (`ProgressOK`: the steps before
its own are recorded, and what it has read of the row still holds), states the exclusion
of a bootstrap's requests (`LockOK`), that what is recorded exists (`RecordedOK`), that
only what has everything recorded is verified or succeeds (`EndOK`), and `FoundOK`,
which is `Resumable` while requests are between making and recording, or have failed
there: what is made is recorded, found by name, in `cut`, or in the hands of a request
that is about to record it.

`BackupImportProofs` proves `Invariance`, `ImportTypes`, `ListedHasArtifact`,
`ImportIsListed` and `DestinationIsFree` for any backups, imports and number of faults.
A restore replaces the rows by those of a dump and leaves the files, so the central
conjunct, `RowsOK`, is stated of a set of rows and holds both of the present ones and of
those in *every* dump, with the files of now: files of listed backups are never taken
away. A set of rows carries which of them came with a dump made elsewhere (`astray`),
and `RowsOK` demands no file of those; `OtherRows` shows that every dump made elsewhere
satisfies it, from `OfAnother` and `Possible` alone. `WorkOK` says what a request at
work on an import knows of its row and of the artifact, `MakerOK` how far a backup is,
and that a dump has its own backup as unfinished.

`SyncProofs` begins with one lemma for each step of `SyncQueue` that says what the step
does to rows and agents, under `QueueOK`: an agent that is not idle deals with a claimed
row of its own (`HandOK`). Both parts rest on them, for any number of agents.

* Connectors: `ConnectorInvariance`, `ConnectorTypeCorrect`, `ActiveConnectorsRun`,
  `StoppedConnectorsGone`, `IdentitiesOfStoredTokens`, `UnsettledConnectorsQueued`. That
  a connector is active says nothing of the rows that are still open for earlier
  revisions; the invariant has to. `RowsOK`: revision and kind of a row determine when
  it was made, so a row is known by what it is for. `InTurn`: as long as no answer is
  lost and the last change overtook none (`overtaken`), behind the sync of the present
  there is no removal of the past: a later change that began later sorts later, and one
  that began earlier is `overtaken` if a removal was still pending. `SettledOK`: once
  the status is final, no row and no agent has the sync of the present revision any
  more. `WorkOK` ties what an agent was sent and has to report to its row and its
  container, `LeavingOK` the agents that were left to the removals they are owed.
* Routes: `RouteInvariance`, `RouteTypeCorrect`, `ActiveRoutesServed`,
  `PendingRoutesQueued`, `ActiveAccessesHaveRoutes`. A route's sync names no revision,
  so the argument goes by what waits: `Ordered` says that what the gateway was sent is
  the row as it is, unless another sync is pending for it or the sync the last change
  relied on had been claimed before its commit (`missed`), and `ActiveUndisputed` that
  an active route has none pending, which is what `Undisputed` checks of a result.
  `AccessOK` is about the two transactions that protect an access: while it relies on
  the route, no change under way moves the route away.

`DomainAccessProofs` proves `AccessInvariance`, `AccessTypeCorrect`,
`ActiveAccessServed`, `DisabledAccessGone`, `NeighbourRuleKept` and the action property
`ForeignRecordsKept`, for any requests, addresses, ids, revisions and faults. An access
is shown as active or disabled by one request and undone by others, so the invariant
says of every request what it may still do:

* `LockOK`: one request holds the access, and the neighbour the tunnel only when none
  does; so every step but those of `RowStep` (changes and verifications, which take no
  lock) and the neighbour's is a step of the only holder (`HolderStep`, `BackOut`).
* `TaskOK`: a request that works for the row's present revision works for what the row
  asks for, and the configuration it has read has still the neighbour's rule.
* `Disabling`: every record with the access's marker is on the request's lists until it
  is deleted. `Enabling`: it deletes none that is as it was made, and each one wanted is
  there or still to be created, unless others changed them since it looked.
* `ServedOK`: while the access is `Trusted`, that is shown as active and not `unfounded`,
  or `provided` (an enabling reconciliation has reached its end, and none that disables
  has begun since, so that whatever a verification sees, it will be right to believe it),
  the request that holds it is `Harmless`: it enables, it has
  created nothing that it would delete again, and the configuration it would put back
  has the access's rule. `GoneOK` says the same of a disabled access: a request that
  holds it is disabling it.
* `IdsOK`: no row and no request has the id of a record that is someone else's.

`Crash` lets the call that was under way have its effect (`CallMade`), which is why
`Disabling` and `Harmless` are needed at every place and not only where a request ends.

Assumptions: the named ones only. Of `CommandQueue`, `QueueAssumption`: commands are
positive numbers, kinds are known. Of `SyncQueue`, `QueueAssumption`: there is a
revision, and faults are bounded by a number. `OutboxAssumption`: limits are numbers,
and a delivery is given up no later than the CHECK allows; no delivery stands for "none
in hand". `RestoreAssumption`: "no attempt" is not an attempt. `OperationsAssumption`: a
target belongs to one agent. `ImportAssumption`: a backup is made on this instance or on
another, and there is one. `ElsewhereAssumption`: the rows in dumps made elsewhere
satisfy `OfAnother`, whose last conjunct says what `astray` is for them, while the
others are proved of the rows here (`RowsOK`). `RegistryAssumption`: at least one
credential can be issued. `AccessAssumption`: the tunnel's name is no address, there is
a revision, and the tag "access" of the history variable `meddled` is not a request. The
others (`DeliveryAssumption`, `RollbackAssumption`, `GuidedAssumption`) say that bounds
are numbers. TLC evaluates all of them.

Every safety invariant and every action property that a passing run checks is proved, and
so is the refinement. Each inductive invariant was checked by TLC on the run's instance,
or a smaller one, before it was proved. Model-checked only: `DecidedAgain`,
`EveryDeliveryEnds` and `RequestIsAnswered`, since liveness under fairness is beyond the
prover; and what is violated.

## Findings

**A swept operation can wedge its agent.** `README.md:249` of the repository says
of an operation that stays incomplete for 24 hours that the control plane
"releases the stack for a new operation". If the agent is alive and its result
comes later (a long restore, or an agent that was suspended), `completeCommand`
answers `conflict` (`postgres-store.ts:1571`), which is HTTP 409. To
`commandLoop` a refused result is an error like a lost one: it backs off and
starts again at `deliverPending` (`agent.go:190-199`), with the same result, for
ever. It never polls again, so the new operation is never handed out, nor is
anything else. The run `delivery_wedge` shows it without any fault.

The same end can be reached sooner for connectors (their window is 30 minutes) by
an agent that executed its command and was cut off from the control plane for
longer than that.

## Observations

Met while modelling, at the line where each happens. They are not promised otherwise
by a document in a form a run could refute, or they need a fault; where a property has
an exception for one, it is named.

Queue and agent:

* *A restore can wedge an agent in the same way* as the finding above: if the agent
  owes a result when the database goes back, the command is gone (404) or pending
  again (409), and the loop retries for ever. `DecidedAgain` names this obstacle
  (`OwedAndRefused`). `README.md` asks to stop operational changes before a restore.
* The sweep fails a deployment run or a connector without any operational event,
  unlike a backup (`postgres-store.ts:1808`).

Outbox:

* `README.md:318` speaks of "a durable outbox with bounded retries". The bound of six
  is applied when a failure reaches `retryNotificationDelivery`. A dispatch cut short
  by a crash or a database error is claimed again with `attempts + 1` until
  CHECK (attempts <= 10) fails the claim itself (`postgres-store.ts:1685`); the row
  stays the earliest eligible one and nothing behind it is sent. Five such faults on
  one delivery are enough; `LineIsOpen` holds, and `OpenLine` is proved, for
  `GiveUp + MaxFaults <= CheckLimit`.

Restore:

* `README.md:292`: "A failed restore keeps the writer stopped and retains its durable
  recovery state". The marker is removed (`restore-system.ts:85`) before the dump (86)
  and the writer is started afterwards; a failure in between leaves a restored
  database, a stopped writer and nothing that another run of `recover.sh` would take up.
* The supervisor runs `recover.sh` and publishes "succeeded" for the id of the request
  without comparing it with the marker (`recovery-supervisor.sh:59`). They differ if
  the update to "staged" was committed but reported an error, and another backup is
  staged later.
* A control plane that dies while it stages leaves `restore.lock`
  (`system-recovery.ts:376`); every later call is refused until someone removes it.
* A call that takes the lock just after `RemoveLock` and is stopped before it gives it
  back leaves lock and marker of different attempts, which `recover.sh` refuses
  (`ForeignLock`, in `AlwaysApplicable`).
* A published request's row stays active; when its recovery fails before `pg_restore`,
  no further request is accepted (`postgres-store.ts:1462`).

Connectors and routes:

* A removal whose answer was lost waits for its lease, and undoes the newer deployment
  if the connector has come back by then (`connector.go:152`; exception of
  `ActiveConnectorRuns`).
* Of two overlapping changes of a connector the one that locks the row last may have
  begun first. Its sync then has the earlier `created_at`
  (`postgres-store.ts:1866`, `001_initial.sql:63`) and is handed out before the other's
  removal, which takes the container down again without comparing revisions: the
  connector is shown active and does not run (`overtaken` in `ActiveConnectorRuns`).
* While its identity is "pending" an enabled connector's sync is refused, and the
  refusal fails the connector although the verification succeeds a moment later.
* A route that changes gateways while the old one has a sync pending stays pending
  when the new one's result arrives first (`postgres-store.ts:1597`; `muted` in
  `PendingRouteIsQueued`). The agent that is left keeps its file
  (`postgres-store.ts:900`).
* A result that waits for the lock of a change in progress is written after it, since
  READ COMMITTED looks at the row again but not at the other table: the changed route
  is briefly shown active or failed (`early` in `ActiveRouteServed`).
* `ON CONFLICT DO NOTHING` takes no lock on the pending sync it meets
  (`postgres-store.ts:1883`). Claimed between the insertion and the commit, that sync is
  answered with the old row; if it succeeds after the commit the new row is shown active,
  and if it ended before, the pending row has nothing to settle it (`missed` in
  `ActiveRouteServed` and `PendingRouteIsQueued`).
* The check for dependent accesses and the creation of one are in different
  transactions that do not see each other (`postgres-store.ts:625`, 631, and
  `016_domain_access_hardening.sql:113`): an access can become active on a route that
  is being moved or disabled (`skewed` in `ActiveAccessHasRoute`).

Registry:

* Telemetry clears `offline_detected_at` without an event (`postgres-store.ts:1138`):
  an agent whose heartbeats fail and whose telemetry arrives is announced offline at
  each sweep and never recovered (`unmarked` in `PresenceAnnounced`).
* Unhealthy, then starting, then healthy: the recovery is not announced
  (`postgres-store.ts:1150`; `gap` in `ServiceAnnounced`).
* A lost reply to the enrollment leaves a host that presents a used token for ever
  (`agent.go:129`); the agent has to be removed and made anew.
* A request that found the agent enabled may commit after it was archived (`crossed` in
  `RemovedIsUnreferenced`).

Domain access and guided operations:

* A verification takes no lock, accepts any answer below 500 over a valid certificate
  (`tls-observer.ts:27`), and does not ask what became of the reconciliation: it marks an
  access active whose reconciliation is going on, failed or was cut short, also when
  nothing serves it (`unfounded` in `ActiveIsServed`).
* A valid verification of an access that was disabled meanwhile violates the table's
  CHECK (`016_domain_access_hardening.sql:76`), and the error ends the iteration over all
  operations, each time until the deadline. The deadline marks a disabled access
  "failed".
* A pending access is not taken up again by itself after a crash.
* A crash between making an account, a connector or an access and recording it makes
  every retry fail on a unique index, and so does a failure of the statement that records
  it (`app.ts:1194`, 1221, 1346) or of the second statement of
  `createPendingDomainAccess` after the first was committed (`postgres-store.ts:650`)
  (`cut` in `Resumable`).
* If the last update of a publish takes effect but reports an error, the operation is
  marked failed at the stage "pending_https_verification": nobody verifies it any more,
  and every request to go on with it is answered 202 (`app.ts:1307`).
* A publish request that is under way when the verification succeeds can take the
  operation back to an unfinished stage, with its request already cleared
  (`SucceededIsKept` allows it to no later one).

Backups and imports:

* A crash, an error or a restore between the rename of an import and its row leaves the
  destination occupied, and every later import of that backup is refused (`cut` in
  `DestinationIsListed`).
* Restoring a backup made on another host lists all backups of that instance as
  succeeded, with files that are not here (`astray` in `BackupHasArtifact`); importing one
  of them is "idempotent" and discards the uploaded artifact.
* A crash leaves its import active, which refuses all others until a start-up at least
  24 hours later (`system-recovery.ts:270`).

## Not modelled

* The migration runner (sequential, one advisory lock), the telemetry collector, the
  parsing and validation of configuration, Compose files and requests, cryptography
  and sessions, the web client, the update scripts: none has state that a step of
  another part could disturb.
* Changing, restarting and stopping managed stacks: the endpoints answer 410
  (`app.ts:1566`). Their syncs would follow `RouteSync`'s rule, without moves.
* The observation of TLS certificates, the runtime status of a connector, disk and
  container figures and listings: they only display.
* Several control planes over one database: the program is deployed as one.
* What Docker, PostgreSQL, Telegram and Cloudflare do inside: modelled as the outcomes
  their callers can see, and marked external in `PROJECT.json`.

## Plan

The order was: queue, loop and journal; rollback; outbox; restore; then the modules
over `SyncQueue`, the registry, domain access, guided operations and imports; then the
proofs, in the same order. Every module has its theorems. What is left: the stages that
lead to the three liveness properties, as far as they can be stated without fairness and
ENABLED: the guard of a step that helps holds until it is taken, and no step leads back.
