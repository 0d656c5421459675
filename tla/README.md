# DeviceOS in TLA+

DeviceOS is one Go process in front of one SQLite file: an HTTP API, WebSocket
hubs, an MQTT broker, and a set of modules that share the database. This
directory models the parts of it that keep state, checks them with TLC on small
instances, and proves the most important results with TLAPS for every instance.
Paths below are those of the repository.

Contents: [the system](#the-system) · [modules and code](#modules-and-code) ·
[runs](#runs) · [proofs](#proofs) ·
[disagreements](#where-the-code-disagrees-with-its-documentation) ·
[not modelled](#what-is-not-modelled) · [plan](#plan) · [how to run](#how-to-run)

## The system

### Components, their state and their operations

| component | state | operations | what makes it correct |
|---|---|---|---|
| `modules/commands` | table `commands`; in-memory map `pending`; WebSocket sessions | send, report a result, replay and poll in a session | no acknowledged command is lost; "delivered" is true until a client reports something else; the map agrees with the table; a connected device is served, its commands in their order |
| `modules/telemetry` | table `telemetry`; `status`, `last_seen` of devices; hub of WebSocket clients | store a reading, run the hooks, broadcast, prune | an answered reading keeps its row; `last_seen` comes from a stored reading |
| `modules/alerts` | tables `alert_rules`, `alert_events` | create, change, delete rules; evaluate a reading | no spurious, doubled or missed alert |
| `modules/devices`, `modules/fleet` | table `devices` (columns written by three modules), table `groups` | register, list, get, update, delete; tags, group; create and delete groups | an answer is true of the request's own write; a deleted device stays deleted |
| `modules/events` | hub: map of subscribers, a mutex for each | subscribe, publish, ping, asynchronous removal, stop | one writer per connection; an event reaches every subscriber that is up; Publish returns |
| `modules/ota` | tables `firmware`, `deployments`, `deployment_status`; files on disk | upload (write, INSERT, remove), deploy, device reports | file store and table agree |
| `modules/simulator` | `running`, `stopCh`, `mu`, a goroutine per start | start, stop, tick | the channel is closed once; a running simulator has a loop; a stopped one ends |
| `internal/server` with the rate limiter | a bucket per address; the listener; requests under way | start, admit or deny a request, `allow`, shutdown | never more than the rate in an interval; a request received in time is not cut off by the exit; a shutdown ends |
| `internal/db` migrations, `internal/registry`, `cmd/deviceos/start.go` | table `_migrations`, the schema | `Migrate`, `Migrator.Up/Down/DownTo`, `InitAll`, shutdown | records and schema agree; who serves is migrated; racing starts end well |
| `cmd/deviceos/backup.go` | database file, its log, `.bak`, archive, temporary files | backup, restore | only committed states are installed; nothing is lost |
| `modules/mqtt` | map `devices`, by client id; sessions of the broker | start, stop, authenticate, check a topic, store a message, disconnect | a reading is stored for an authenticated device and with its organization; the map has the connections that are there |
| `webhooks`, `tenant`, `audit`, `auth`, `dashboard`, configuration | tables of single rows, or nothing | single statements | - |

### How they interact

`cmdStart` opens the database, registers the modules in a fixed order, calls
`InitAll` (migrations) and `RegisterAllRoutes`, and serves. Handlers run in one
goroutine per request and share nothing but the database, the hubs and the map
`pending`. `telemetry.Store` calls hooks in the request's goroutine: the
evaluation of alerts and the publication on the events hub. Deleting a device
cascades, by foreign keys, into `commands` and `telemetry`. A signal makes
`cmdStart` call `StopAll`, close the database, and stop the server, in this order,
while requests go on; one of the modules that `StopAll` stops, the simulator, is
itself a client of this server. The hooks of the MQTT broker run in one goroutine
per connection, share the map `devices` and call `telemetry.Store`.

### What is hard about it

* There are almost no transactions: handlers are sequences of autocommitted
  statements, between which any other handler runs. Any statement can fail
  (`SQLITE_BUSY`): `busy_timeout` and `foreign_keys` are PRAGMAs of a
  connection, and `db.Open` sets them on one connection of a pool of 25.
* State lives twice (rows and the `pending` map, rows and files, `_migrations`
  and the schema), with crashes, failures and deletions in between.
* Goroutines meet at mutexes, channels and WebSocket connections that allow one
  writer.
* Several processes may start on one file (a restart that overlaps, a second
  container on the volume), and backup and restore touch the files of a server
  that may have crashed.

`PROJECT.json` lists the hazards one by one, each with its line and the properties
that would catch it.

## Modules and code

Every module has a header that says what is abstracted. Actions are named after
the functions they translate; an action is one statement, one critical section or
one system call, so that everything the code lets happen in between can happen.
Messages, payloads, names and wording are left out; a request's content is told
apart by the request. `Mut...` definitions are plausible bugs: with one of them in
place of the definition that follows it, TLC refutes the property it belongs to.

| module | models | state and actions |
|---|---|---|
| `CommandLedger` | what a device API promises about commands | the phase of each command |
| `Commands` | `modules/commands`, implements `CommandLedger` | `StampCommand`, `InsertCommand`, `StorePending` (handleSend); `HandleResult`; `Upgrade`, `ReplayKey`, `PollOldest`, `WriteCommand`, `MarkDelivered`, `Leave` (handleWS); `DeleteDevice`, `Crash` |
| `AlertDuty` | what alert rules promise: a kept reading is judged at one instant, by the rules armed then | the stage of each reading, what it owes, what it has raised |
| `Ingest` | `telemetry.Store` through `alerts.OnTelemetry`, rules, deletions; implements `AlertDuty` | a reading moves `insert`, `touch`, `evaluate`, `raise`, `done`; `some`/`all` record which rules were armed in its window |
| `Devices` | `modules/devices`, `modules/fleet` | one step per request, two for PUT (UPDATE, then SELECT) |
| `WsHub` | the hubs of `events` (`typed`) and of `telemetry` | locks of the hub and of each subscriber, sessions, publishers, asynchronous `Unsubscribe`, `Stop`; `raced` are the connections at which two writes have met, a write to which may succeed, be `Garbled`, fail or `Panic` |
| `Ota` | `modules/ota` | an upload's open/truncate, write, INSERT, remove; deployments and reports |
| `Simulator` | `modules/simulator` | handlers and loops around `mu` and the channel of each start |
| `RateLimiter` | `allow()` in `internal/server` | buckets with the integer division of the code, times of grants as history |
| `Server`, composes `RateLimiter` | `internal/server`, the end of `cmdStart`, the simulator as a client | `Listen`, `ListenFails`; a request is `ClientSends` or `SimulatorPosts` (limiter included) or `Deny`, then `handleHealthz`, `Execute`, `ExecuteFails`, `NextStatement`, `Finish`; `Signal`, `Cancelled`, `StopAll`, `CloseDatabase`, `StopNothing`, `Shutdown`, `Drained`, `TimedOut`, `Exit` |
| `Mqtt` | `modules/mqtt` with the broker around it | a connection moves `new`, `auth`, `accepted`, `known`, `ready`, `leaving`, `deleting`, `gone`, and through `acl` and `storing` for a message, to the topic of any device; `entry` is the map |
| `Startup` | `cmdStart`, `InitAll`, `Migrate`, `ensureMigrationTable` | processes step by step, SQLite's write lock, outdated snapshots |
| `Migrator` | `Migrator.Up/Down/DownTo` beside `Migrate` | a call is a set of places in the list, `todo`; `Apply` takes the first, `Revert` the last; each is a transaction and may fail |
| `Backup` | `cmdBackup`, `cmdRestore` beside a server | files, the log, the archive; each system call a step |

The modules `MC...` give the constants of the runs; the modules `...Proofs` hold the
theorems, `PartsProofs` those of `WsHub`, `Backup`, `Devices` and `Migrator`. Two
constants deserve a word. `FkModes` is the set of values
`foreign_keys` has on the pool's connections; the runs take both, so that every property
holds with orphans about. `Reported` is the set of statuses that clients report of commands:
the code takes any string, and the run has 'completed', 'pending' and 'delivered'. `Startup` also
contains the program's own plan of migrations (`ProgramPlan`), and `MCStartup`
assumes what the theorems need of a plan: that no name comes twice.

Crashes: a crash clears the memory of the process and leaves the database and the
files. SQLite is external: a statement and a transaction are atomic, one writer
at a time, a transaction that has read is refused when it writes after another's
commit, and a log beside a file is replayed into it.

## Runs

Each run passes; the states are those TLC finds with the given bounds.

| run | instance | what it shows |
|---|---|---|
| `Commands_delivery` | 2 commands, 1 device, 1 session | the replay map holds only stored commands of its key (`PendingMapIntegrity`); before a result is reported, "delivered" only after a write (`DeliveredWasWritten`); an answered command keeps its row (`NoAckedCommandLost`); a poll overtakes no older command of the device, whatever marks fail and results put back (`ServedInOrder`); the ledger is implemented (`LedgerRefined`); a pending command of a device that stays connected is served, unless clients put an older one back to 'pending' for ever (`PendingIsServed`); sessions of gone clients end (`BrokenSessionsEnd`) |
| `Ingest_paths` | 2 readings and a rule, or 1 reading and 2 rules; 2 conditions | alerts are sound and complete over changes of rules during the evaluation; `last_seen` is that of a stored reading; each reading is judged at one instant, by the rules armed then (`EvaluatedAtOnce`, the refinement of `AlertDuty`) |
| `Devices_rows` | 1 device, 1 group, 2 orgs, 4 requests | a PUT answered 200 was applied and shows its own or a later state (`UpdateTold`); deleted devices and groups stay deleted (`DeletedStaysDeleted`) |
| `WsHub_maps` | 2 connections, 2 publishers, both hubs | one writer per connection on the events hub (`OneWriter`), where two publishers, the ping and the removals meet; no entry without a session; an event reaches all that are up, and a broadcast of readings too, unless it writes to a connection where two writes have met (`EventReachesAll`) |
| `WsHub_live` | 1 connection, 2 publishers, both hubs | Publish returns; gone clients are forgotten |
| `Ota_uploads` | 3 uploads of 2 binaries, 1 deployment | what is registered was written; no file without a row or a recorded failure |
| `Simulator_loops` | 2 clients, 2 starts | channels are closed once, loops live while running, and once stopped for good no loop is left |
| `Server_life` | 2 addresses, rate 1, interval 2, 3 ticks; requests of none, one or two statements | at most the rate in any interval (`WindowLimited`); after an interval of silence a request passes (`SilenceIsRewarded`); the exit cuts off no request that came before the shutdown unless the 10 seconds are over (`EarlyAreServed`); a signal or a failed listener ends the process (`ShutdownEnds`) |
| `Mqtt_sessions` | 3 connections, 2 client ids, 2 devices | a reading has the organization of the device it is stored for, which is its connection's own or, with a shared client id, one that a client of this id was authenticated as (`StoredWithItsOrg`); every entry has an authenticated owner (`EntriesHaveOwners`); a session is known to the hooks unless its client id was shared (`KnownUnlessShared`) |
| `Startup_migrate` | 2 processes, 2 migrations, 3 faults, new and old tables | schema and records agree; who serves is migrated; no double record while the index was there; no gap; every start ends in serving |
| `Migrator_calls` | 3 migrations, with and without `Down`, 2 names of `Migrate` | unless `Migrate` took one of its versions the table tells what is in effect, an `Up` or `DownTo` that returns nil did what it says, and, if all have a `Down`, what is in effect is a prefix of the list |
| `Backup_files` | 3 transactions, 2 files | only committed states at the path, in `.bak` and in whole archives; one restore loses nothing - both if the server had closed the database |

### Why these bounds are enough to be interesting

Two actors are what the races need: a session that polls a row while its result is
reported or its device deleted, two uploads of
one binary (a third to overlap a failing one), two broadcasts at one connection, two
starts of the simulator (a loop meets a channel that is not its own), two processes
that miss the same migration. `Ingest_paths` has the constraint `Focus`
(`MaxActors` = 3), which bounds readings plus rules, so that two readings meet one
rule or one reading two, and it has the readings sent in the order of their timestamps
(they are stored in any order, which is what `last_seen` is about). `Server_life` covers an interval and a tick, so a bucket is
drained and refilled at every offset, and has one request of a client beside one of
the simulator; its rate of 1 keeps the run short, and the theorems are for every rate
and interval. `Commands_delivery` has one session, since its liveness needs the whole
graph; that two sessions of a device meet no other outcome is what the theorems of
`CommandsProofs`, for any number of sessions, are for. `Mqtt_sessions` has a third
connection, which can take over from the second while the first still leaves; there
are two devices so that a client id can change its device. `Startup_migrate` has faults
for both processes and one more. `Devices_rows` has a registration, two PUTs and a
deletion in any order, with readings that take no request. Three devices, commands
or addresses add nothing: the rows of different ids do not meet. Safety for all sizes
is proved for every module, below.

Symmetry is used only in runs without liveness. `CHECK_DEADLOCK FALSE` appears in
`Devices_rows`, whose requests are used up, in `Mqtt_sessions`, whose broker stops, and
in `Server_life`, whose process ends.

### Fairness

* `Commands`: the goroutine of a session runs (weak); a mark that is tried again and
  again does not fail for ever, and `select` does not ignore a closed channel for
  ever (strong; Go's `select` chooses at random among ready cases).
* `Simulator`, `WsHub`: Go's mutexes do not starve a waiter (strong fairness of lock
  steps), other steps just run. A WebSocket write is assumed to end. Nothing makes
  clients connect, hang up or publish.
* `Startup`: a process that can step does so, however often the lock was held when it
  looked (`busy_timeout`), and its supervisor starts it again (`Restart=always`,
  Docs/deployment.md:243; `restart: unless-stopped`, docker-compose.yml:20). Faults
  are bounded and never fair, except errors the database makes certain.
* `Server`: the main goroutine and the timer of the shutdown run, and the simulator's
  requests are answered (weak); `Stop` of the simulator gets its mutex (strong). Nothing
  is said of other clients, which may take longer than the 10 seconds over a body or an
  answer (`ReadTimeout` 15 s, `WriteTimeout` 30 s). The server is taken to listen on 8080,
  where the simulator posts.
* The other specifications state no fairness and check no liveness.

## Proofs

All are checked by TLAPS for arbitrary constants under the named assumptions of
the modules (finiteness where ranks are counted, disjoint ids, nonempty sets; for
`Migrator`, that a list is in the order of its versions, each with a name of its own,
as in Docs/development.md:331-347 and migrate_test.go:129-133). Each follows the
same argument: an inductive invariant `IInv` with `Init => IInv`,
`IInv /\ [Next]_vars => IInv'`, and `IInv => P`.

| module | theorems | what `IInv` adds and why |
|---|---|---|
| `CommandsProofs` | `TypeCorrect`, `MapIntegrity`, `DeliveredAfterWrite`, `AckedKept`, `NoOvertaking`, `Refinement`, `CommandsNeverGoBack` | a session past its SELECT holds a command it has written or is about to, and that overtakes none (`SessionHoldsCommand`); who was before a command has an earlier stamp and its row (`StampsAreRanks`, `RowsInOrder`); a row that has left 'pending' was written, reported or deleted (`TakenWasServed`), so that the oldest pending row has none before it that still waits; the row exists from the INSERT on (`RowFollowsSender`); a purged row's device is gone (`PurgedWithDevice`). `Refinement` maps a command to its phase by status and `completed_at` and shows each step to be one of `CommandLedger` or a stutter; `CommandsNeverGoBack` is the ledger's `NeverBack` |
| `SimulatorProofs` | `TypeCorrect`, `NeverClosedTwice`, `MutualExclusion`, `RunningHasLoop` | loops are born in order, wait on their own channel or a later one, and end only after a stop of their generation (`LoopsInOrder`): a running loop cannot have been ended by an older stop |
| `ServerProofs` | `TypeCorrect`, `Window`, `Silence` (the limiter alone); `LimiterInside`, `ServerWindow`, `ServerSilence`, `ServerInvariant`, `EarlyServed` | the grants of an address split at its last refill into what the bucket has paid for since and what is an interval or more older (`Split`). `LimiterInside` shows that each step of the server is one of the limiter or leaves it alone, so that the limiter's results hold of the server. `ServerIInv`: an early request is still under way, nothing is before the listener listens, and the main goroutine returns only when drained or timed out |
| `MqttProofs` | `TypeCorrect`, `OwnOrganization`, `CountedAreAuthenticated`, `OwnIdsAreKnown` | two connections that hold one client id are both marked as sharing it (`SharersAreMarked`), so that a deletion can only take the entry of a marked one; what `OnPublished` has loaded is the device of the topic, the connection's own or, with a shared id, one that a client of this id was authenticated as (`LoadedIsVouched`): an entry has such an owner when it is loaded, and that witness stays when the entry is replaced or deleted before `Store` (`WitnessesStay`) |
| `OtaProofs` | `TypeCorrect`, `NoEmptyRegistration`, `StoreIsAccounted` | an upload at its INSERT has written its binary (`WrittenBeforeInsert`) |
| `StartupProofs` | `TypeCorrect`, `SchemaIsRecorded`, `ServersAreMigrated`, `OneRecordEach`, `NoGap`, `LockHolderWins`, `MigrationsStay` | the migrations a process has passed are recorded; past the index step the index is there or was exposed; `maxVer` is a version that is there, or 0. Of starts that race, the one with the write lock is never refused (`LockHolderWins`): only open transactions are outdated (`StaleAreOpen`), and the holder's snapshot is not, nor has anybody recorded its migration (`HolderIsAhead`) |
| `IngestProofs` | `TypeCorrect`, `Soundness`, `Completeness`, `ShownIsStored`, `EvaluationIsAtomic`, `EndedIsSettled` | what a call has loaded was armed in its window, a rule at most once (`LoadedOnce`); an alert is there only of a call that has loaded (`RaisedAfterLoading`); a rule that was armed all the time is still ahead or has its alert, unless a step failed (`NoneForgotten`); until a call loads, the rules armed all along are armed now, and those armed now have been armed at some time (`WindowIsWatched`); a row is there only of a call past its INSERT (`RowsFollowCalls`). `EvaluationIsAtomic` is the refinement of `AlertDuty` |
| `PartsProofs`, `WsHub` | `HubTypes`, `OneWriterAtATime`, `MutexesAreGivenBack`, `SubscribersAreServed`, `EventsReachAll` | who writes to a connection of the events hub has its mutex, so that no two writes meet there (`WritersHoldMutex`); the telemetry hub sends no pings (`NoPingUntyped`); what a call has ahead of it it owes (`AheadIsOwed`), and a connection that a call owes its event is ahead of it, in its write, broken, or one where two writes have met (`OwedIsAhead`). `MutexesAreGivenBack`: a subscriber's mutex is held exactly by the call that writes to it, so no path leaves one locked, which is the safety behind `PublishReturns` |
| `PartsProofs`, `Backup` | `BackupTypes`, `CopiesAreCommitted`, `RestoreLosesNothing` | a restore runs without a server (`RestoreIsAlone`); a log lies beside the file it was written for (`LogHasItsFile`), and copies under way are of a committed state (`CopiesWerePast`), if the server had closed the database; before the first restore every transaction is at the path (`UnmovedIsComplete`) |
| `PartsProofs`, `Devices` | `DevicesTypes`, `UpdatesAreTold`, `DeletedNeverReturns` | between its two statements the row of a PUT, if it is there, has its write or a later one (`WaitingIsWritten`), and only PUTs wait (`OnlyUpdatesWait`). `DeletedNeverReturns` is an action property: a new row takes an id that no request has been given before |
| `PartsProofs`, `Migrator` | `MigratorTypes`, `CallsAreDone`, `TableTellsSchema`, `PrefixInEffect` | while `Migrate` has taken none of the list's versions, a version of the list is recorded under its own name (`VersionsAreNames`), and what a call has yet to do is all that is left for it to do (`UpIsAhead`, `DownIsLast`, `DownToIsAhead`) |

`PartsProofs` extends its four modules, which share no state and no definition:
`HubSpec`, `FilesSpec`, `DevicesSpec` and `MigratorSpec` are named apart, and so are
their types (`HubTypeOK`, ...) and inductive invariants (`HubIInv`, ...). The theorems
hold under the modules' own assumptions (`HubAssumption`, `FilesAssumption`,
`DeviceAssumption`, `MigratorAssumption`), which TLC evaluates with the constants of
each run. The inductive invariants are at the end of the modules themselves (that of
`Startup` is in `StartupProofs`, over the definitions of `Startup`), so that TLC can
check them too: adding one to the INVARIANTs of a run does so.

Three specifications are shown to be implemented, step by step. A step of `Commands` is
one of `CommandLedger` or leaves it alone, by the phase that status and `completed_at`
give a command. A step of `Ingest` is one of `AlertDuty` or leaves it alone: an alarm is
a rule together with its condition, what is armed are the rules that are there and
enabled, and the instant of the judgement is the query that loads the rules
(alerts/evaluator.go), however long the inserts of the events take after it. `Server`
takes the steps of `RateLimiter` as its own (`LimiterInside`). What is proved of the
ledger and of the duty alone then holds of the programs: a command's phase only
advances (`CommandsNeverGoBack`), and a reading that has been answered, refused or lost
raises no late alert (`EndedIsSettled`).

Every invariant and every action property of the runs is a proved theorem. Only
model-checked is the liveness, since fairness and ENABLED are out of the prover's reach:
`PendingIsServed`, `BrokenSessionsEnd`, `LoopsEndWhenStopped`, `PublishReturns`,
`GoneIsForgotten`, `StartsInTheEnd` and `ShutdownEnds`. Every module states
its types as `TypeOK` (the parts of `PartsProofs` as `HubTypeOK`, `FilesTypeOK`,
`DevicesTypeOK`, `MigratorTypeOK`); the runs spend their time on the other properties,
and the types are a proved invariant everywhere (of `Server` as a part of `ServerIInv`).
Proved although no run lists them are `HeldByWriter`, `HolderIsNotRefused`,
`MigrationsAreKept` and the abstract `NeverBack` and `Settled`: `HeldByWriter`, `HolderIsNotRefused` and
`MigrationsAreKept` can be added to the configurations of their modules' runs. `WindowLimited` and the other results of the limiter are over the
integer arithmetic of the code.

## Where the code disagrees with its documentation

Eight properties are stated in the modules and marked there as not holding; adding
one to the configuration of its module's run gives TLC's counterexample.

* `ReplaySendsUnfinished` (`Commands`). modules/commands/module.go:232 says "Send
  pending commands". `handleResult` deletes the entry under the command's id
  (line 205), `handleSend` stores it under the device's (line 116): after a
  reported result the command is replayed at the next connect.
* `StoppedLoopEnds` (`Simulator`). `run()` reads `m.stopCh` without `mu`
  (line 139). A loop busy with a tick during stop and start takes the new channel
  for its own: two loops post from then on (Docs/openapi.yaml:1851 "Simulation
  stopped").
* `BroadcastReachesAll` (`WsHub`). Docs/architecture.md:129: "broadcasts the data to
  all connected WebSocket clients". Two concurrent broadcasts write to one connection
  (modules/telemetry/module.go:57-60: RLock and no mutex of the connection), which gorilla
  does not support: its own check is best effort, so the writes may both pass, spoil each
  other's frames, fail, or panic. net/http recovers the panic of a request; nothing
  recovers that of an MQTT client's goroutine, which ends the process (not modelled
  further).
* `NoOrphanCommands` (`Commands`) and `NoOrphanRows` (`Ingest`). Docs/architecture.md:107:
  "foreign_keys=ON for referential integrity". `Open` runs the PRAGMA once, on one
  connection of the pool (db.go:103-115): on another, a command, a reading or an alert is
  inserted for a device or a rule that has just been deleted, and a deletion leaves the
  rows behind.
* `RegisteredHasFile` (`Ota`). modules/ota/handlers_test.go:443 expects the file after
  an upload. A second upload of the same binary fails on its id and removes the file
  of the first (module.go:178).
* `RestoreLeavesADatabase` (`Backup`). Docs/deployment.md:184: "Replaces the current
  database with the restored copy". The second rename (backup.go:109) is from
  `os.TempDir` and fails when `/data` is a volume (docker-compose.yml:14): no
  database is left at the path, and the next start creates an empty one.
* `ConnectedIsKnown` (`Mqtt`). Docs/architecture.md:140: the broker "hooks into the
  telemetry storage pipeline". A client that connects again with its id takes over its
  old session; `OnDisconnect` of the old one deletes the entry that the new one has
  just stored (modules/mqtt/module.go:178). The new session stays up, and its messages
  are refused or dropped.

Met while modelling, at the lines given:

* A mark of the WebSocket session overwrites a reported result
  (commands/module.go:267; Docs/openapi.yaml:697 "Final command execution status").
  `CommandLedger` therefore takes `completed_at`, not the status, for the resolution.
* Any status is taken from a client (commands/module.go:188-196), where
  Docs/openapi.yaml:694-697 has `enum: [completed, failed]`. With 'delivered' the row of a
  command that was never written says delivered, which is why `DeliveredWasWritten` is about
  commands without a result. With 'pending' a finished command is polled and written again;
  one that is put back again and again starves all later ones, since the poll takes the
  oldest row only (line 256), which is the one excuse in `PendingIsServed`.
* The replay writes what the map has, the latest command (commands/module.go:116, 232-240):
  it overtakes older pending ones, and does not mark what it has written. `ServedInOrder` is
  about the poll.
* While a client id is shared, `OnACLCheck` and `OnPublished` compare a topic with the
  device of whoever stored the entry last (mqtt/module.go:188-217): until its session has
  ended, the older client's messages to its own topic are refused and those to the other
  device's are accepted and stored for that device.
* `last_seen` is scanned into a `time.Time`, which cannot hold NULL
  (devices/storage.go:97, 120): GET and PUT of a device that has sent nothing are
  answered 404, a list with one is answered 500; tests/integration/integration_test.go:319-330
  expects 200. `Readable` of module `Devices` says so.
* `last_seen` may go back (telemetry/storage.go:36, the client chooses the time;
  Docs/openapi.yaml:1979), and nothing makes a device offline again (:1474, :1972).
* An alert rule that has raised an alert cannot be deleted where foreign keys are
  enforced (alerts/storage.go:27 has no ON DELETE; Docs/openapi.yaml:1055-1070).
  Alert events are inserted without their org (alerts/evaluator.go:41).
* A deployment never leaves "in_progress" (ota/module.go:243, 298; README.md:45).
* `StartAll` is called by nothing (Docs/architecture.md:26): the prune loop and the MQTT
  broker do not run. An events session blocked in ReadMessage ignores `stopCh` (:27), and
  its ping waits for a message (events/module.go:178; :136 "30-second ping keepalive").
* With `max_open_conns` 1, `Migrate` waits for its own connection (migrate.go:56):
  `Startup` with `MaxConns = 1` deadlocks. An old `_migrations` table with two or more
  rows cannot be upgraded, since each row gets version 0 (migrate.go:270-271);
  with such an `OldRows` TLC refutes `StartsInTheEnd`. The test has one row.
* Versions of a `Migrator` (Docs/development.md:331-347) collide with those `Migrate`
  hands out, and `Up` then skips the migration silently; a migration without `Down`
  stays over reverted ones (migrate.go:170).
* The rate is per interval and not "approximately 1 request per second"
  (Docs/configuration.md:80): server.go:244 divides integers, and every request moves
  the time the refill is counted from.
* The key of the limiter is `RemoteAddr`, host and port: the limit is per connection,
  not "per IP" (Docs/configuration.md:27, 80), and the map of buckets only grows.
* The database is closed before the server is stopped (start.go:158): requests under way
  are answered, but their statements fail from then on, while `/healthz` keeps answering
  "ok". `EarlyAreServed` is about the answer, not about its status.
* The simulator posts to `localhost:8080` without a timeout, holding the mutex that its
  `Stop` needs: with another server on that port that does not answer, `StopAll` waits.
  `ShutdownEnds` is for the port 8080.
* `simload` ranges over a channel `results` that nothing closes (cmd/simload/main.go:119, 158).
* A restore that failed between its renames and is run again after the server has started
  puts the empty new database over the `.bak` that holds the data (backup.go:102);
  `OneRestoreLosesNothing` is therefore about one.
* Only the main file is moved by a restore: a crashed server's `-wal` stays and is
  replayed into the restored file (Docs/deployment.md:183).
* `loggingResponseWriter` (server.go:276-284) has no Hijack: behind the full chain of
  middleware the WebSocket upgrades fail; the models are of the handlers as the tests
  mount them.

## What is not modelled

* The prune loop: only `telemetry.Start` starts it, which nothing calls.
* `webhooks`, `tenant`, `audit`, `auth`, the queries of all modules: single statements, reads,
  stateless checks. `webhooks.Deliver` and `audit.Log` are called by nothing; of these
  modules only their migrations are modelled, in `Startup`.
* The MQTT broker and `net/http` themselves: external, modelled from how the code uses them.
* Dashboard, configuration, formatting, and the demo and load tools.
* Organisations in `Ingest`: the evaluation ignores them, and a request of the wrong
  organisation changes nothing. The contents of posts, alerts' severities and channels.

## Plan

Done, in this order: commands and their ledger, the simulator, the limiter, the path
of a reading, the hubs, uploads, starts and migrations, backups, devices, the server
with its shutdown, the MQTT hooks.

Proved since: the safety of all of these modules, in the same order, then that of
readings and alerts, hubs, backups, devices and the migrator; then what the alert rules
promise as a refinement (`AlertDuty`), that commands never go back, that mutexes are given
back, and who wins a race of two starts.

Next:

1. An abstract specification of the table of migrations, that both `Startup` and
   `Migrator` implement while they number different migrations.
2. Three of the hazards without a property: the ping behind `ReadMessage`, the pool of one
   connection, the upgrade of an old table with two rows. Each is a property the code
   violates, as described above.

## How to run

    tlc -workers 2 -config Commands_delivery.cfg MCCommands
    tlapm CommandsProofs.tla

Every run ends within five minutes, most within one. Each run's module, properties and
mutants are in `PROJECT.json`.
