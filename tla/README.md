# TLA+ models of the Dify plugin daemon

The plugin daemon installs Dify plugins for tenants, runs them (as local
subprocesses, over a debugging connection, or as serverless functions), and
passes invocations between Dify and the plugins. Several daemons form a cluster
around one Redis and one PostgreSQL database.

This directory holds TLA+ modules for the parts of the daemon whose correctness
depends on the order in which goroutines, processes, requests and failures
happen; TLC configurations that check them on small instances; and theorems
about them with TLAPS proofs. `PROJECT.json` maps every definition to the lines
it models, and lists components, runs, mutants, findings, hazards and theorems.

## Inventory

| Component | State | Operations | Hard because of | Correct when | Module |
|---|---|---|---|---|---|
| Install transactions (`types/models/curd/atomic.go`) | tables plugins (with `refers`), plugin_installations, plugin_declarations, serverless_runtimes | InstallPlugin, UninstallPlugin, UpgradePlugin | concurrent requests, row locks in different orders, rollbacks | the count is the number of installations; rows exist as long as an installation needs them; requests return | `Installations` |
| Streams (`pkg/utils/stream`) | queue, state word, error, signal channel, condition variable, hooks | Write, WriteBlocking, WriteError, Next, Read, Close, OnClose, BeforeClose, Filter | lock-free close beside locked sections, two wakeup mechanisms, hooks | FIFO, a final end, nobody asleep for ever | `Stream`, `Channel` |
| Master election (`cluster/preemptive.go`) | Redis key with expiry, flag `iAmMaster` | lockMaster, updateMaster | expiry, crashes, late loops, lost replies | one master, and again one after a crash | `Master` |
| Node status (`cluster/node.go`, `vote.go`) | hash map in Redis, lock keys, local view | updateNodeStatus, voteAddresses, autoGCNodes, removeSelfNode | read-change-write under an expiring lock | no lost update, a live node is listed | `NodeStatus` |
| Plugin registry and redirection (`cluster/plugin.go`, `redirect.go`) | hash map of plugin states, maps of the nodes | RegisterPlugin, UnregisterPlugin, schedulePlugins, autoGCPlugins, RedirectRequest | schedule beside unregistration and collector, failing commands | a running plugin is found, a gone one disappears, a request is answered | `PluginState` |
| Local runtime (`core/local_runtime`) | list of instances, wanted number, subprocesses, listeners | scheduleLoop, startNewInstance, Stop, GracefulStop, Listen, Write | a loop, a reader goroutine per instance, callers and shutdown calls | no instance out of sight, callers are told, shutdown is complete | `LocalRuntime` |
| Python environment (`core/local_runtime/setup_python_environment.go`) with the owned lock (`pkg/utils/cache/redis.go`) | working directory, `.venv`, lock key | InitEnvironment, AcquireOwnedLock, KeepAlive, Unlock | several daemons, crashes, an advisory lock that expires | what is marked valid can run the plugin | `Environment` |
| Invocation (`core/io_tunnel/generic.go`) | response stream, listener | invokePluginOnce with retry | retry beside late notices | every caller gets an end | `LocalRuntime` |
| Serverless invocation (`io_tunnel/model_serverless_batch.go`, `serverless_runtime`) | batches, listeners by session id, retries | splitTextRequest, processServerlessBatches, invokeServerless | batches share the session id; callers leave | the result is whole and in order | `ServerlessCall` |
| Serverless installs (`control_panel/installer_serverless.go`, `serverless_connector`) | shared launch, launch lock, row, cache | InstallToServerless, reinstall, lookup | several callers and daemons | built once, stored when reported | `ServerlessInstall` |
| Control panel (`core/control_panel`) | map of runtimes, failure records, semaphore, granularity lock | LaunchLocalPlugin, ShutdownLocalPlugin…, watch dog | launch beside shutdown and watch dog | one runtime per plugin, the semaphore is released | `Launcher` |
| Debugging runtime (`core/debugging_runtime`) | connections, counter, handshake state, map, installation | OnOpen, OnTraffic, OnClose | close at any point, reconnecting developers | the limit holds, a connected plugin is reachable, nothing remains | `DebugServer` |
| Connection keys (`service/debugging_service`) | two Redis entries with expiry | GetConnectionKey, GetConnectionInfo, ClearConnectionKey | separate commands | a key that is handed out resolves | `ConnectionKey` |
| Install tasks (`internal/tasks`) | task rows, running set, timers | ProcessInstallJob, ProcessUpgradeJob, monitor, recycler, deletions | four writers, two without a lock | a task ends with what happened | `InstallTask` |
| Sessions and backwards invocation | map of sessions, cache entries, response writers | NewSession, Close, InvokeDify, Handle | late answers, timeouts | permitted, well-formed, ended | `Backwards` |
| Persistence (`core/persistence`) | object storage, size row, cache | Save, Load, Delete, Exist | three stores without a transaction | the counted size is the stored size | `Persistence` |
| Endpoints (`service/setup_endpoint.go`, `server/endpoint.go`) | rows, counters, cache | setup, update, enable, disable, remove, call | saves of rows read earlier | counters exact, calls served from the row | `Endpoints` |
| HTTP answers (`service/base_sse.go`, `endpoint.go`) | connection, deadline, metrics | baseSSEService, writeEndpointResponse | client, deadline and plugin race | an answer is whole or seen to be cut | `Responses` |
| Uploads (`plugin_manager/packages.go`) | media bucket, package bucket, declarations | UploadPluginPkg, UploadPluginBundle, rollback | three stores, shared assets | a failed upload leaves nothing, a successful one stays | `Packages` |
| Package file (`pkg/plugin_packager`) | directory, archive, signatures | Pack, sign, the two decoders, verify | two views of one plugin | what is packed opens, what is signed verifies | `Difypkg` |
| Project wizard (`cmd/commandline/plugin`) | five menus, project files | Update of each menu, createPlugin | many paths through the menus | a project that is created is complete | `Wizard` |

Interactions: an HTTP request looks up the plugin's runtime in the control panel,
or is redirected to another node through the plugin registry; it creates a
session, and `invokePluginOnce` registers a listener on the runtime, writes the
request, and feeds what comes back into a stream that the HTTP handler drains.
While it runs, a plugin sends requests back within its session. Install tasks
launch the runtime through the control panel, which prepares its environment, and
then run the transactions. The master's loop collects what dead nodes left in
Redis.

## Plan

All components above are modelled and checked. Left to do:

1. Proofs: the invocations of `Backwards`.
2. A composition of `Stream` and `LocalRuntime` for the path from the
   subprocess's stdout to the HTTP response: one slow consumer blocks the
   goroutine that reads the heartbeats of every session of the instance
   (`generic.go:112`).
3. A composition of `Launcher` and `InstallTask` over `Installations`, to ask
   whether row, bucket and runtime agree in the end (`install_plugin.go:350`).

## Modules

A goroutine, request or process is an element of a constant set with a program
counter; a critical section, a SQL statement, a call of a store or a Redis
command is one action. Definitions whose name ends in an underscore and a word
(`Write_OffByOne`) are wrong variants of the definition that follows; they are
not used by the specifications and exist to show that the properties notice.
Some modules carry history variables for a race the code is known to lose; a
property then says what holds without that race, and the race is listed below
under Findings.

**Installations.** One plugin id with several versions (`Uids`), several tenants
and requests. Every statement that waits for or reads a contended row is an
action. A transaction's writes are kept in its local variables and applied by
`Commit…`; until then the rows are locked. The unique index on
(tenant, plugin) and ON CONFLICT DO NOTHING are modelled by what they wait for
and when they refuse. `StatementFails` aborts a transaction anywhere;
`DeadlockVictim` is the database's detector. The rows of tools, models, agents,
datasources and triggers follow the installation row in the same transaction and
are one with it. An upgrade is started with two different versions. `missed` is a
history variable: the versions an upgrade moved an installation to without
counting it, after which their count is not exact any more.

**Stream** is `stream.go` at the grain of its mutex. `close` sets the state word
with a CAS outside the mutex, so one section that saw the stream open may still
finish after it: `overtaken` allows that once. `accepted` and `delivered` are
history variables. **Channel** is what users rely on: a bounded queue with a
final end; `Stream` implements it under the mapping in `Stream!Channel`.

**Master.** `owner` and `ttl` are the Redis key; `since` is the time since a
node's last lock tick. `late` is a history variable: some loop has missed its
tick, or a refresh has failed, while the node was up.

**NodeStatus.** Each node has a loop thread and, if in `Boots`, the boot routine
of `clusterLifetime`. `Faults` selects what may go wrong: an attempt to lock, a
command in the section, the unlock, the process. A lock key expires only when
its holder is gone: the five seconds are assumed to cover a section of a few
Redis commands.

**PluginState.** One plugin on several nodes: `listed` is the map of a node,
`entry` its field in Redis with an age, `runtimes` where it really runs. The
scheduler checks and writes in two steps, the collector of the master reads all
fields and deletes one by one, UnregisterPlugin gives up after its retries
(`gaveUp`: the node then goes on refreshing the field). Any command may fail.
A request enters at any node and is served, redirected or refused.

**LocalRuntime.** `loop` is scheduleLoop with startNewInstance, `reader` is
StartStdout of an instance, `call` is Stop or GracefulStop, `session` is
invokePluginOnce with Listen and Write. Instance objects are re-used in the model
once nothing refers to them. The unsynchronised read of `instances[0]` is a
choice over what the array can hold.

**Environment.** Daemons that share a working path. `owner` is the token under
the lock's key, `held` who was given the lock, `renewing` whose KeepAlive runs.
`files`, `venv` and `flag` are what the directory holds, from nothing to a marked
environment. A daemon that gets no lock in time goes on without one, as the code
does; `overlap` and `torn` remember that two daemons worked at one time and that
an extraction was cut short.

**Launcher.** Threads are the jobs of the tenants (`Request` to `AwaitShutdown`:
install, upgrade and uninstall of versions of one plugin) and the watch dog's
goroutines, one per version; both go through LaunchLocalPlugin (`LockAndCheck`,
`AcquireSemaphore`, `BuildFails`, `StartRuntime`). A runtime is reduced to its
schedule status `phase`, whether it has instances (`live`), and its first notice
`first`, which stores the entry (`Ready`) and only later, after the other
notifiers, releases the lock and the semaphore and answers (`ReportReady`).
`Halt` is OnRuntimeStopSchedule: it deletes the map entry of the version, whoever
it belongs to. The history variable `struck` holds the versions that lost the
entry of another runtime this way. The transactions of `Installations` are atomic
here, and whether the row of the old version is gone is read off the
installations. One daemon; the lock around the environment's preparation is
inside the installation lock and is in `Environment`; an upgrade goes to another
version.

**InstallTask.** `rows` is the table, `jobs` the goroutine of each plugin of a
task. Jobs update the record under its row lock (`Updated`); the monitor and the
recycler write back copies read earlier, and gorm's Save inserts a row that is
gone. A daemon may shut down in order or crash; what remains running ages until
the monitor of some daemon closes it.

**Backwards.** `session` is in the map of its node, in Redis, in both or gone;
`req` is a request over the session or over HTTP, from the permission check to
its end event. A handler that times out returns without closing its writer
(`late`). Each look at `closed` and the write that follows are apart where a close
can come between: an event of the invocation itself is followed by its own Done, so
only the timed-out handler can overtake it, but the heartbeat runs beside
(`BeatChecks`, `BeatWrites`), and `strayBeats` counts what it writes into a
response whose handler has returned. A chunk is dropped when the buffer of the
stream from Dify is full. The identity fields that Dispatch overwrites with the
session's are not in the model: nothing else sets them.

**Persistence.** Save, Load, Delete and Exist, one action per call of the object
store, the table and the cache, any of which may fail. A value is its size.
A size is a set of bytes where sizes are added up. Objects are stored under the
cleaned key (`CleanPath`, `StoreKeys`) and cached under the key as given
(`StoreNames`), so two names may be one object with two cache entries.
`drifted` and `suspect` remember the races that spoil the count and the cache.

**DebugServer.** Connections of one plugin and one tenant, as when a developer
reconnects. OnTraffic's messages come in any order; `loop` is the event loop,
which goes through the steps of the end message and of OnClose one by one beside
those of the other connection. **ConnectionKey** has the two Redis entries of a
tenant's key with their times to live, and requests that are one command at a
time.

**ServerlessCall.** `plan` is the split of a request into batches, text by text, `co` the
coordinator that invokes one batch after the other, `gor` the HTTP goroutine of
each batch with its retries, `listeners` the map under the shared session id.
**ServerlessInstall.** `flight` is the launch that callers of a daemon share,
`launchLock` the owned lock between daemons, `row` and `rowCache` where the
function is recorded. The connector is a process of its own: `built` counts its
functions, `builtFor` says for whose launch each was built, and `orphans` are the
launches that were given up while it still builds for them; such a build may end
later (`LateBuild`). The token is nobody's when an acquisition was answered with an
error after it was set, when Unlock failed, or when the stream had closed before
LaunchPlugin could register the hook that unlocks (`BeforeClose` then drops it,
`launch.go:115`); it lapses at any time (`LockLapses`), and its holder goes on.
`excused` holds the launches for which the code promises no single build.

**Endpoints.** Requests on the rows of endpoints, with the counters of the
installation and the cache of the lookup. Setup and update save the whole row as
it was read before the calls to Dify. **Responses.** The reader goroutine, the
handler, the client and the deadline of one answer, as events or as a body.

**Packages.** Uploads step by step over the two buckets and the table, and the
rollback call by call; a bundle may hold one identifier twice, as a plain and a
signed build of a plugin have one checksum. **Difypkg.** A directory and a package
as the two decoders show them; packing, signing and verifying as operators over
these views. The hash of a content is the content. A manifest may name a file by a
path that is not clean (`dotted`), which only the directory's decoder reads. On its
way a package may lose its last entry, or have an entry's content or name changed
(`Edit`); the new names are bounded by `NewNames`.

**Wizard.** Each key of each menu is an action; a text is empty, bad or good.
createPlugin writes file by file, in its order, and may fail at each; on disk the
project is a set of files, of a directory that did not exist before (one that did is
removed with whatever it held when a write fails).

The MC modules hold the small instances. Modules that share no state are checked
in one run: in `MCCluster`, `MCProgress`, `MCRecovery`, `MCRuntimes` and
`MCServices` the variable `unit` says which of them a behaviour is about while the others rest. The invariants and
liveness properties of a unit are stated one by one, with their comments, in its
module; the run checks their conjunction under one name.

## Runs

| Run | Shows |
|---|---|
| installations | requests of all kinds: the count is exact for every version no upgrade has missed and never too high, and every request returns, deadlocks included |
| installations_deleted | *violation*: an upgrade's unlocked read leads to a plugin row deleted under an installation |
| stream | FIFO, EndIsFinal, NoLostWakeup, NoForgottenWriter, Forward, refinement of Channel |
| cluster | while loops are punctual at most one master, which owns the key; a running node gets a master, late loops, lost replies and crashes included; `RegistryConverges`: orphaned fields are collected, runtimes advertised, redirected requests answered |
| master_late | *violation*: with a late loop there are two masters |
| recovery | a node collected on a stale reading comes back; an install task does not stay running |
| node_status_stolen | *violation*: the vote unlocks an entry it could not lock |
| runtimes | local runtime: no instance out of sight, close notice true, no superfluous launch, no lost notice; and `EnvironmentIsUsable`, `ServerlessIsServed` |
| local_runtime_stop | *violation*: Stop returns and an instance goes on |
| launcher | each launch has the lock of its version and one token, requests are routed to a scheduled runtime, a version has one runtime; jobs and watch dog rounds end, a removed version does not stay listed |
| progress | callers of a local runtime told, launches reported, stopped instances reaped; `RequestsAnswered`: backwards invocations are permitted, well-formed and come to an end; `StreamIsReleased`: close releases every producer and consumer of a stream |
| services | node status: sections exclude each other and no ping or vote is overwritten, with failing commands, crashes and left locks; and one property for each of the other parts: `TaskRecordIsTrue`, `StorageIsAccounted`, `DebuggingIsSound`, `EndpointsAreCurrent`, `ResponsesAreWhole`, `PackagesAreKept`, `ProjectIsComplete` |

**Bounds.** Three requests, two tenants and two versions: every pair of operations
meets on every row, with a third one before, between or after; the finding needs
a fourth, an install that follows the lost reference. A stream of capacity 2
holds two items, so that their order can be wrong, and is full for the third: two
producers exercise every wait; two hooks show order and registration while
closing. Its liveness is checked in run progress, with capacity 1. Three nodes
with a time to live of four ticks and an interval of two let a master miss one
refresh and a third node watch. Two nodes and one clock step let an entry become
outdated and be refreshed; run services leaves the boot routine out to afford
three kinds of fault, the proofs and node_status_stolen include it. The registry
has two nodes and two failing commands, so that a removal and its retry, or a
removal and a collection, both fail. Two instance
objects let one be launched while another goes, with one session, one shutdown
call and up to two wanted instances. In the launcher a daemon starts with a
version that one of two tenants has; each tenant makes one request, two runtime
objects exist at a time, one first launch fails and the semaphore has one place:
two jobs and the watch dog compete for it, for the lock of the same version and
for the map. In the runs services and runtimes every unit has two actors that meet
(x1, x2), and a third where two daemons are involved: two plugins of a task, so that one fails
beside the other; three operations on two objects, of which one has two keys that clean to its path, with values of up to the quota;
two connections under a limit of one or two; two daemons, one crash and two
initializations each, so that one starts over what another has left; three texts
of which one fills a request alone; two uploads of packages that share an icon, of one package, of both, or of one twice,
with one failing call; two signatures, by different keys or for different
categories, and one change of the package, by which any entry may get the name of
the provider's child; three callers of two daemons and two functions the
connector may build. Runs with a liveness property use no symmetry; services and runtimes
have one, of x1 and x2. Deadlock checking is off where the system may really stop: all requests
are answered, the stream is closed, or all jobs are over.

**Fairness.** Goroutines that can run are scheduled (weak fairness of each
process's own steps), the database resolves deadlocks, time passes, timers fire
and keys expire. Nobody has to make a request, write, close, crash or scale. In
`NodeStatus` the update job is strongly fair: its ticker competes with the other
tickers of one select, which chooses among ready cases at random, and each of its
attempts to lock polls for a second beside holders of a few milliseconds. In
`LocalRuntime` nothing is asked of the plugin: it may hang for ever. In
`Launcher` the threads that launch are strongly fair: Go's mutexes and channels
queue who waits, so a lock that is freed again and again is not withheld for
ever; a launch is answered by a heartbeat, an exit or the heartbeat timeout. In
`PluginState` the schedule and the steps of a collection are weakly fair, and the
master's next scan strongly, since it waits for the one before; the number of
failing commands is bounded, as faults that go on for ever refute everything. In
`InstallTask` no fairness is asked of jobs, which may hang or die with their
daemon: tasks age and the monitor of some daemon reads; its write is strongly
fair, for a write that fails is repeated in the next round. In `Backwards` the
goroutine of an invocation runs on and a handler returns or times out.

## Proofs

All theorems hold for every value of the constants under the named assumptions
of the modules.

- `StreamProofs`. `Typed` (the type invariant and which program counters belong
  to which thread), then `Closing` (how state word, stage, `done`, `overtaken`
  and hooks go together), proved inductive one action at a time. From these: `Order`
  (FIFO), `TheEnd` (EndIsFinal), `WriterIsNotForgotten` (a count of free slots
  against awake producers, hence cardinality lemmas), and
  `StreamImplementsChannel` (every action is a step of Channel or a stutter).
  `ConsumerIsWoken` assumes a single consumer, as the code uses streams: with two,
  one may take the token meant for the other.
- `MasterProofs`. `OneMaster` follows from `MasterOwns`, which is inductive with
  the type invariant: the key's remaining time covers the time to the next
  refresh. Both are about the time before the first late tick (`~late`); run
  master_late shows that they need it.
- `LauncherProofs`. `IInv` adds to the three properties how a runtime's parts go
  together (`Shape`), what a thread knows at each point (`Jobs`), and that a
  version being launched has no entry (`Unlisted`); one lemma per conjunct, one
  step per action. The lock of a version is a function to its holder, so two
  launches of it are the same launch: `TokensReturned` (SemaphoreExact, with
  cardinality lemmas), `RoutesAreGood` and `NoTwoRuntimes` (OneListed) follow.
- `StreamProofs` also has `OnlyForward`: the action property `Forward`, step by step
  from `Typed` and `Closing`.
- `InstallationsProofs`. `IInv` adds to the types what a call knows at each statement
  (`Holds`: the rows it has locked, and how the count in its local relates to the
  stored one) and `Counted`: the count of a version no upgrade has missed is exact,
  and any row counts at most the installations that will still count down (`Leaving`
  are those that will not). The count read under the lock is the count when it is
  written, which gives `CountIsExact` (RefersExact), for any finite set of tenants.
- `RuntimesProofs`, one part per unit of `MCRuntimes`.
  Local runtime: `NothingForgotten`, `CloseIsTrue`, `LaunchesAreDue` and
  `NoticeArrives`, from an invariant that relates the list, the loop's instance, the
  readers and the stopped instances.
  `EnvironmentStaysUsable` needs what a daemon alone in the directory knows of it at
  each step (`AloneKnows`). `FunctionIsBuiltOnce` is the install half of
  ServerlessIsServed: `CallKnows` says that what a reader is about to cache is the
  row unless that has changed, `OneBuilder` that a launch which is not excused has the lock until it has its
  function, and asks for one only when none was built for another such launch;
  `LockIsOfALaunch` that every way out of a launch unlocks. `CallIsAnswered` is the call half, from `CallIInv`. For
  the split, `PlanKnows`: the estimate is exactly the payload of the texts since the
  last cut (so the code's "estimate mismatch" cannot be reached), and `NoneFewer`:
  any division of the texts has as many cuts up to here as batches were closed, because
  a batch is closed only when one more text does not fit and payloads grow with their
  texts. For the batches, `CoKnows`, `ClientKnows` and `BatchKnows`: what has been
  merged is the texts of the batches read, what a batch has sent and queued is the
  beginning of its own texts, and the listener under the session id is that of the
  batch under way until its own response is closed. `ServerlessStaysServed` puts the
  halves together.
- `StorageProofs`, over `NodeStatus` and `Persistence`. `Exclusive` and `UpdatesKept`:
  `HolderHasLock` (a thread in the section has the key) and `NoLostUpdate` are
  inductive together. They assume that no attempt to lock fails; run
  node_status_stolen shows that they need it. `StorageStaysAccounted`, from `StoreIInv`: the
  old size a request has read is the stored one as long as writes of a key exclude each
  other (`OldKnown`); the row is the stored bytes less those of the requests that have
  still to count (CountedExact, with lemmas on how one request or key changes the set
  of bytes); a Save that passed the quota adds at most one value (`QuotaKnown`); a Load
  about to cache has the stored object (`CacheKnows`); a write under one name of a path
  makes its other names suspect.
- `PackagesProofs`, over `Packages` and `Difypkg`: `PackagesStayKept`. For the uploads
  (of one package, or a bundle of two),
  `PkgIInv`: what a request has done to the package it is at (`RequestKnows`); two
  requests that have both written are noted as overlapping (`OverlapKnown`), so that
  `DeclaredIsStored` and `SuccessIsDeclared` hold up to a race of a rollback
  (`StoredKnown`, `RowsKnown`); and for a request no other has been served beside since
  it started, `LoneKnows`: rows and bucket differ from what it found exactly by what its
  rollback will take back, the bucket of plugins declared before and of those the bundle
  has twice apart: in a bundle that has one identifier twice the second package finds the
  bytes and the row of the first (`Twice`, `Current`, `Others`). For the
  packages, `DpIInv`: an archive nobody has edited reads as the directory that was packed
  (`PackedKnows`), and the last signature lists what every entry read as
  (`SignatureCovers`), or the archive has been cut short or an entry renamed (the contents are then still
  those that were signed, one by one); an entry with an earlier
  one's name is read as that one, which is why signatures compare what is read.
- `ServicesProofs`, one part per unit of `MCServices`:
  `AnswersArriveWhole` (which part of the answer is on the wire for each place of the
  reader, `Written`, kept as long as somebody is there to be told; the length of the
  answer is arbitrary);
  `EndpointsStayCurrent` (`Knows` for a request, `CacheKnown` for the cache with the
  requests that are about to clear it);
  `TaskRecordStaysTrue` (monitor and recycler save whole records they have read
  earlier, so the record is related to the jobs alone, `GoodRow`, and the relation
  is kept for every copy, however old);
  `DebuggingStaysSound` (`CounterCovers` counts end messages and early leavers,
  `Owned` and `Alone` who answers for the identity and the installation; for the keys
  `KeyIsHeld`, what a request may still hold);
  `ProjectStaysComplete` (`SizeKnows`: where the size given last is while the editor
  of the permission is open, has been left or was never opened; `ProfileIInv`: the
  cursor leaves the name only when it is valid).
  In each the invariant was first checked by TLC.

Assumed of the constants, besides the bounds being natural numbers: tenants,
plugins of a request, connections, and the requests and keys of the storage are
finite; a plugin has a model; "none" is no daemon and no category of a signature,
of which there is one at least; keys live longer than no time at all; and `WizAssumption`, that the grants, languages and
categories are strings, the categories among those of the code, and the storage
size no grant of a model.

Type invariants: those of `Stream`, `Master`, `NodeStatus`, `LocalRuntime` and
`Launcher` are theorems and not repeated in the runs; those of `Installations`,
`Environment`, `ServerlessInstall`, `ServerlessCall`, `Persistence`, `InstallTask`,
`DebugServer`, `ConnectionKey`, `Endpoints`, `Responses`, `Packages`, `Difypkg` and `Wizard` are part of the theorems above.

Only model-checked:

- all liveness properties, which are outside the prover's reach;
- what RegistryConverges and RequestsAnswered say of safety beside liveness (types of
  `PluginState`; permitted and well-formed invocations of `Backwards`).

A sorted list of paths is the function that puts each path behind the paths before it,
as filtering takes an operator, which the provers cannot instantiate. Sums over keys,
requests and texts are cardinalities of sets of bytes, one pair of
index and position for each, since what a fold computes is beyond the provers; and the
loop that splits a request is one step per text, so that its invariant is an invariant
of the specification.

A proof that did not go through has corrected the models more than once. It showed
that exactness of the count rests on `RowKnown`: as long as there is no row, no Delete
has found anything to subtract. It showed that a rollback leaves the overwritten
package of a plugin that was declared before: what `FailedUploadLeavesNothing` says
now excepts that, and covers a request that follows others in turn. Further, overlapping guards of
CASE, which TLC takes in order and TLA+ leaves open, are chains of IF in `Wizard` and
`ServerlessCall` now; and a project on disk is a set of files, with the order of
writing in the action.

## Findings

Four runs end in a counterexample; `PROJECT.json` quotes for each the line of the
repository that says otherwise: an upgrade that loses its reference, two masters
after a late loop, the unlock of a lock not held, and Stop that leaves an
instance behind.

More weaknesses are part of the models; the properties state what holds apart
from them:

- runtimes: the shutdown loop indexes the list of instances without its lock;
  GracefulStop decides and acts in two steps, so a session accepted in between is
  cut off; the stop of a runtime whose launch failed deletes the entry of the
  runtime that has replaced it (`struck`); the watch dog leaves a runtime whose
  first launch failed running without an entry; an uninstall may delete the
  package another tenant's install of the version has just put into the bucket;
- registry: a node whose UnregisterPlugin has given up refreshes the field of a
  plugin that is gone (`gaveUp`), and a master that collects its own late field
  forgets the plugin;
- environment: remains of an extraction that was cut short are never replaced
  (`torn`), and a lock not acquired or lost does not stop the initialization
  (`overlap`);
- persistence: a Save that exceeds the quota has already stored its data;
  concurrent Saves of a key, or two first ones of a tenant, spoil the count
  (`drifted`), and a Load beside a write leaves an old value in the cache
  (`suspect`), as does a write under another key that cleans to the same path, for
  the cache is keyed by the key as given; the same holds of the rows of endpoints and serverless functions;
- endpoints: an update that read the row before an enable, disable or removal
  takes it back (`lostUpdate`);
- debugging: a connection that leaves before its end message lowers the counter
  (`early`), and of two connections of one plugin the close of either removes
  both (`overlapped`);
- serverless requests back to Dify: a handler that timed out leaves its writer
  open, and what is written then goes into a response that is over (`late`); and a
  heartbeat that found the writer open may write one blank line after Done has closed
  it and the handler has returned (`serverless_handler.go:77`, `:112`);
- serverless installs: a launch goes on without the lock or after losing it, and one
  that is given up releases the lock while the connector builds on, so that a plugin
  may be built twice (`excused`); a token whose stream closed before the hook was
  registered is released by nobody and has to lapse;
- uploads: a rollback deletes assets that another package shares and does not
  restore overwritten ones; it leaves the bytes it has written over the package of a
  plugin declared before (`packages.go:185`), and those of a bundle that has one
  identifier twice; and it looks for a declaration and deletes the
  package in two calls;
- packages: a declared file that .difyignore excludes, or that is named by a path
  which is not clean (`./provider.yaml`), passes Pack and the result does not open; the
  names of files are not signed, so a package with a renamed file stays verified; a
  package signed again with another verification is never
  verified;
- wizard: a datasource project lacks the provider file its manifest names, and
  with flags or in the permission editor the first move of the cursor sets the
  storage size to 0.

## Not modelled

- Request decoding, routing and read-only listings of the HTTP server, the typed
  front ends of the tunnel, the declarations and their validators, archive
  formats and cryptography, templates and rendering of the command line tools,
  bundle archives, the slim runner, code generation, logging, metrics and parsing
  helpers: sequential and without shared state.
- The routine pool (goroutines are processes of the models), the reference count
  of the granularity lock, object storage itself and the LRU cache of immutable
  assets.
- The HTTP conversation with the serverless connector and with Dify, of which
  only the outcome is kept; the arguments of uv and pip and the patches of the
  SDK.
- An error of the final COMMIT, which WithTransaction drops
  (`executor.go:323`): no state shows it, only the answer.
