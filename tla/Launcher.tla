------------------------------- MODULE Launcher -------------------------------
(***************************************************************************)
(* Which runtimes of local plugins a daemon starts, lists and stops:       *)
(* launcher_local.go, server_local.go, watch_dog.go and installer_local.go *)
(* of internal/core/control_panel, installLocal of the plugin manager, and *)
(* the install, upgrade and uninstall jobs that call them.                 *)
(*                                                                         *)
(* Versions are the unique identifiers of one plugin.  A launch is made by *)
(* the job of a tenant or by the watch dog, which has one goroutine per    *)
(* version; the launching thread leaves the installation lock and the      *)
(* semaphore to the runtime, which releases them with its first notice.    *)
(* Of a runtime only its schedule status, whether an instance is up, and   *)
(* its first notice are kept: module LocalRuntime has the rest.            *)
(***************************************************************************)
EXTENDS Integers, FiniteSets

CONSTANTS
  Tenants,
  Versions,
  Before,       \* what may be installed when the daemon starts
  Runtimes,     \* bound: runtime objects that exist at a time
  Concurrent,   \* PluginLocalLaunchingConcurrent
  MaxRetry,     \* MAX_RETRY_COUNT
  WaitFrom,     \* failures from which calculateWaitTime is not 0
  MaxRequests,  \* bound: requests of a tenant
  MaxFails,     \* bound: runtimes whose first launch fails
  None

Threads == Tenants \cup Versions

ASSUME LauncherAssumption ==
  /\ Before \subseteq [Tenants -> Versions \cup {None}]
  /\ Tenants \cap Versions = {} /\ Threads \cap Runtimes = {}
  /\ None \notin Threads \cup Runtimes
  /\ IsFiniteSet(Threads) /\ IsFiniteSet(Runtimes)
  /\ Concurrent \in Nat \ {0} /\ MaxRetry \in Nat /\ WaitFrom \in Nat \ {0}
  /\ MaxRequests \in Nat /\ MaxFails \in Nat

VARIABLES
  has,        \* database: the version a tenant has installed
  bucket,     \* installedBucket
  ignored,    \* localPluginWatchIgnoreList
  listed,     \* localPluginRuntimes
  fails,      \* localPluginFailsRecord: the retry count
  mutex,      \* localPluginInstallationLock: who has the lock of a version
  sem,        \* tokens in localPluginLaunchingSemaphore
  pc, req,    \* threads, and the versions a tenant's job goes from and to
  mine,       \* the runtime a thread waits for
  of, phase,  \* runtimes: their version and schedule status
  live,       \* runtimes with instances, up or being replaced
  first,      \* the once of the launch notifier, and the channel it feeds
  toStop,     \* runtimes whose GracefulStop has been submitted
  killing,    \* runtimes whose instances a Stop or GracefulStop is stopping
  todo, dog,  \* handleNewLocalPlugins: what is left of a round
  sweep,      \* removeUnusedLocalPlugins: the version it is about to stop
  requests, failures,  \* bounds
  struck      \* history: versions whose entry another runtime has deleted

tenantVars  == <<has, bucket, ignored, req, requests>>
launchVars  == <<mutex, sem>>
runtimeVars == <<of, phase, live, first, toStop, killing, failures>>
dogVars     == <<fails, todo, dog>>
vars == <<tenantVars, launchVars, runtimeVars, dogVars, listed, pc, mine, sweep, struck>>

NoVersions == [old |-> None, new |-> None]

Users(v) == {c \in Tenants : has[c] = v}

\* A daemon starts on what earlier ones have installed.
Init ==
  /\ has \in Before
  /\ bucket = {v \in Versions : Users(v) # {}} /\ ignored = {}
  /\ listed = [v \in Versions |-> None]
  /\ fails = [v \in Versions |-> 0]
  /\ mutex = [v \in Versions |-> None] /\ sem = 0
  /\ pc = [t \in Threads |-> "idle"]
  /\ req = [c \in Tenants |-> NoVersions]
  /\ mine = [t \in Threads |-> None]
  /\ of = [r \in Runtimes |-> None]
  /\ phase = [r \in Runtimes |-> "none"]
  /\ first = [r \in Runtimes |-> "none"]
  /\ live = {} /\ toStop = {} /\ killing = {}
  /\ todo = {} /\ dog = "idle" /\ sweep = None
  /\ requests = [c \in Tenants |-> 0] /\ failures = 0 /\ struck = {}

Goto(t, l) == pc' = [pc EXCEPT ![t] = l]

\* The job of a tenant ends.
End(c) == Goto(c, "idle") /\ req' = [req EXCEPT ![c] = NoVersions]

\* What a thread launches: a goroutine of the watch dog is named by its version.
Target(t) == IF t \in Tenants THEN req[t].new ELSE t

\* releaseLockAndSemaphore: GranularityLock.Unlock, then one receive, which never waits.
\* The two are one step: a token that is returned later only keeps others waiting.
Release(v) ==
  /\ mutex' = [mutex EXCEPT ![v] = None]
  /\ sem' = sem - 1

------------------------------------------------------------------------------
(* LaunchLocalPlugin *)

\* A launch ends with a value before there is a runtime: installLocal takes
\* ErrorPluginAlreadyLaunched for a success, anything else ends the job; the
\* deferred EnableLocalPluginAutoLaunch runs either way.  The watch dog only logs.
ReturnEarly(t, already) ==
  /\ IF t \in Tenants
       THEN /\ ignored' = ignored \ {Target(t)}
            /\ IF already THEN Goto(t, "save") /\ UNCHANGED req ELSE End(t)
       ELSE Goto(t, "idle") /\ UNCHANGED <<ignored, req>>
  /\ UNCHANGED <<has, bucket, requests>>

\* Mutant: no second look into the map once the lock is there.
LockAndCheck_NoLook(t) ==
  /\ pc[t] = "lock" /\ mutex[Target(t)] = None
  /\ mutex' = [mutex EXCEPT ![Target(t)] = t]
  /\ Goto(t, "sem")
  /\ UNCHANGED <<tenantVars, sem, runtimeVars, dogVars, listed, mine, sweep, struck>>

\* The installation lock of the version, and the look into the map under it.
LockAndCheck(t) ==
  LET v == Target(t) IN
  /\ pc[t] = "lock" /\ mutex[v] = None
  /\ IF listed[v] # None
       THEN ReturnEarly(t, TRUE) /\ UNCHANGED mutex
       ELSE /\ mutex' = [mutex EXCEPT ![v] = t]
            /\ Goto(t, "sem") /\ UNCHANGED tenantVars
  /\ UNCHANGED <<sem, runtimeVars, dogVars, listed, mine, sweep, struck>>


AcquireSemaphore(t) ==
  /\ pc[t] = "sem" /\ sem < Concurrent
  /\ sem' = sem + 1
  /\ Goto(t, "build")
  /\ UNCHANGED <<tenantVars, mutex, runtimeVars, dogVars, listed, mine, sweep, struck>>

\* Mutant: the early return only unlocks.
BuildFails_Leak(t) ==
  /\ pc[t] = "build"
  /\ mutex' = [mutex EXCEPT ![Target(t)] = None]
  /\ ReturnEarly(t, FALSE)
  /\ UNCHANGED <<sem, runtimeVars, dogVars, listed, mine, sweep, struck>>

\* buildLocalPluginRuntime or InitEnvironment fails: no failure is recorded.
BuildFails(t) ==
  /\ pc[t] = "build"
  /\ Release(Target(t))
  /\ ReturnEarly(t, FALSE)
  /\ UNCHANGED <<runtimeVars, dogVars, listed, mine, sweep, struck>>

\* The environment is ready: AddNotifier, ScaleUp and Schedule of a new runtime.
StartRuntime(t) ==
  LET r == CHOOSE x \in Runtimes : phase[x] = "none" IN
    /\ pc[t] = "build" /\ \E x \in Runtimes : phase[x] = "none"
    /\ of' = [of EXCEPT ![r] = Target(t)]
    /\ phase' = [phase EXCEPT ![r] = "running"]
    /\ first' = [first EXCEPT ![r] = "open"]
    /\ mutex' = [mutex EXCEPT ![Target(t)] = r]
    /\ mine' = [mine EXCEPT ![t] = r]
    /\ Goto(t, "wait")
    /\ UNCHANGED <<tenantVars, sem, live, toStop, killing, failures, dogVars,
                   listed, sweep, struck>>

------------------------------------------------------------------------------
(* The notices of a runtime *)

\* OnInstanceReady of an instance that was being launched, also one whose launch
\* a stop has overtaken.  The first notice stores the runtime.
Ready(r) ==
  /\ phase[r] \in {"running", "stopped"} /\ r \notin live
  /\ live' = live \cup {r}
  /\ IF first[r] = "open"
       THEN /\ first' = [first EXCEPT ![r] = "stored"]
            /\ listed' = [listed EXCEPT ![of[r]] = r]
       ELSE UNCHANGED <<first, listed>>
  /\ UNCHANGED <<tenantVars, launchVars, of, phase, toStop, killing, failures,
                 dogVars, pc, mine, sweep, struck>>

\* ... and, after the other notifiers, releases and answers.
ReportReady(r) ==
  /\ first[r] = "stored"
  /\ first' = [first EXCEPT ![r] = "ok"]
  /\ Release(of[r])
  /\ UNCHANGED <<tenantVars, of, phase, live, toStop, killing, failures,
                 dogVars, listed, pc, mine, sweep, struck>>

\* Mutant: the notice of the failure does not release.
LaunchFails_Leak(r) ==
  /\ first[r] = "open" /\ failures < MaxFails
  /\ first' = [first EXCEPT ![r] = "err"]
  /\ failures' = failures + 1
  /\ UNCHANGED <<tenantVars, launchVars, of, phase, live, toStop, killing,
                 dogVars, listed, pc, mine, sweep, struck>>

\* OnInstanceLaunchFailed as first notice.  The loop of the runtime goes on and
\* tries again, and nobody but a waiting installLocal stops it.
LaunchFails(r) ==
  /\ first[r] = "open" /\ failures < MaxFails
  /\ first' = [first EXCEPT ![r] = "err"]
  /\ failures' = failures + 1
  /\ Release(of[r])
  /\ UNCHANGED <<tenantVars, of, phase, live, toStop, killing,
                 dogVars, listed, pc, mine, sweep, struck>>

\* The last instance dies, by itself or stopped by a Stop or GracefulStop.  As long
\* as the loop runs it replaces instances that die: the runtime then stays live.
Die(r) ==
  /\ r \in live /\ phase[r] # "running"
  /\ live' = live \ {r}
  /\ UNCHANGED <<tenantVars, launchVars, of, phase, first, toStop, killing,
                 failures, dogVars, listed, pc, mine, sweep, struck>>

\* stopSchedule, the first thing Stop and GracefulStop do.
StopSchedule(r) ==
  /\ phase' = [phase EXCEPT ![r] = IF @ = "running" THEN "stopped" ELSE @]
  /\ killing' = killing \cup {r}

\* The goroutine of ShutdownLocalPluginGracefully.
GracefulStop(r) ==
  /\ r \in toStop
  /\ toStop' = toStop \ {r}
  /\ StopSchedule(r)
  /\ UNCHANGED <<tenantVars, launchVars, of, live, first, failures, dogVars,
                 listed, pc, mine, sweep, struck>>

\* The list of instances was found empty: Stop and GracefulStop return.
StopReturns(r) ==
  /\ r \in killing /\ r \notin live
  /\ killing' = killing \ {r}
  /\ UNCHANGED <<tenantVars, launchVars, of, phase, live, first, toStop, failures,
                 dogVars, listed, pc, mine, sweep, struck>>

\* Mutant: the entry stays.
Halt_Keeps(r) ==
  /\ phase[r] = "stopped"
  /\ phase' = [phase EXCEPT ![r] = "halted"]
  /\ UNCHANGED <<tenantVars, launchVars, of, live, first, toStop, killing, failures,
                 dogVars, listed, pc, mine, sweep, struck>>

\* The loop sees that it is to stop: OnRuntimeStopSchedule deletes the entry of
\* the version, whatever runtime it holds.
Halt(r) ==
  /\ phase[r] = "stopped"
  /\ phase' = [phase EXCEPT ![r] = "halted"]
  /\ listed' = [listed EXCEPT ![of[r]] = None]
  /\ struck' = IF listed[of[r]] \in {r, None} THEN struck ELSE struck \cup {of[r]}
  /\ UNCHANGED <<tenantVars, launchVars, of, live, first, toStop, killing, failures,
                 dogVars, pc, mine, sweep>>

\* OnRuntimeClose, and the object is gone when nobody refers to it any more.
Close(r) ==
  /\ phase[r] = "halted" /\ r \notin live \cup toStop \cup killing
  /\ first[r] \in {"ok", "err"} /\ \A t \in Threads : mine[t] # r
  /\ phase' = [phase EXCEPT ![r] = "none"]
  /\ of' = [of EXCEPT ![r] = None]
  /\ first' = [first EXCEPT ![r] = "none"]
  /\ UNCHANGED <<tenantVars, launchVars, live, toStop, killing, failures, dogVars,
                 listed, pc, mine, sweep, struck>>
------------------------------------------------------------------------------
(* The jobs of the tenants *)

\* A request to install a version (for a tenant that has none), to upgrade to
\* another one, or to uninstall.
Request(c, old, new) ==
  /\ pc[c] = "idle" /\ requests[c] < MaxRequests
  /\ old = has[c] /\ old # new
  /\ req' = [req EXCEPT ![c] = [old |-> old, new |-> new]]
  /\ requests' = [requests EXCEPT ![c] = @ + 1]
  /\ Goto(c, IF new = None THEN "save" ELSE "disable")
  /\ UNCHANGED <<has, bucket, ignored, launchVars, runtimeVars, dogVars, listed,
                 mine, sweep, struck>>

\* installLocal: DisableLocalPluginAutoLaunch.
Disable(c) ==
  /\ pc[c] = "disable"
  /\ ignored' = ignored \cup {req[c].new}
  /\ Goto(c, "publish")
  /\ UNCHANGED <<has, bucket, req, requests, launchVars, runtimeVars, dogVars,
                 listed, mine, sweep, struck>>

\* InstallToLocal: the package is copied into the bucket.  It may be missing, or
\* be found bad when it is already there.
Publish(c) ==
  LET v == req[c].new IN
  /\ pc[c] = "publish"
  /\ \/ bucket' = bucket \cup {v} /\ Goto(c, "lock") /\ UNCHANGED <<ignored, req>>
     \/ /\ bucket' \in {bucket, bucket \cup {v}}
        /\ ignored' = ignored \ {v} /\ End(c)
  /\ UNCHANGED <<has, requests, launchVars, runtimeVars, dogVars, listed,
                 mine, sweep, struck>>

\* installLocal has an answer: a runtime that failed is stopped before the
\* version is enabled for the watch dog again.
Answered(c) ==
  LET r == mine[c] IN
  /\ pc[c] = "wait"
  /\ \/ /\ first[r] = "ok"
        /\ ignored' = ignored \ {req[c].new}
        /\ mine' = [mine EXCEPT ![c] = None]
        /\ Goto(c, "save") /\ UNCHANGED <<phase, killing>>
     \/ /\ first[r] = "err"
        /\ StopSchedule(r)
        /\ Goto(c, "stop") /\ UNCHANGED <<ignored, mine>>
  /\ UNCHANGED <<has, bucket, req, requests, launchVars, of, live, first, toStop,
                 failures, dogVars, listed, sweep, struck>>

\* Stop of the failed runtime has returned, or the installer has waited for
\* PythonEnvInitTimeout; the runtime goes on in the second case.
GiveUp(c) ==
  /\ \/ pc[c] = "stop" /\ mine[c] \notin killing
     \/ pc[c] = "wait" /\ first[mine[c]] \in {"open", "stored"}
  /\ ignored' = ignored \ {req[c].new}
  /\ mine' = [mine EXCEPT ![c] = None]
  /\ End(c)
  /\ UNCHANGED <<has, bucket, requests, launchVars, runtimeVars, dogVars,
                 listed, sweep, struck>>

\* The transaction of InstallPlugin, UpgradePlugin or UninstallPlugin, which says
\* whether the row of the old version is gone.
Save(c) ==
  LET old == req[c].old IN
  /\ pc[c] = "save"
  /\ has' = [has EXCEPT ![c] = req[c].new]
  /\ IF old # None /\ Users(old) = {c}
       THEN Goto(c, "remove") /\ UNCHANGED req
       ELSE End(c)
  /\ UNCHANGED <<bucket, ignored, requests, launchVars, runtimeVars, dogVars,
                 listed, mine, sweep, struck>>

\* The transaction fails, or the package cannot be deleted: the job ends there.
JobFails(c) ==
  /\ pc[c] \in {"save", "remove"}
  /\ End(c)
  /\ UNCHANGED <<has, bucket, ignored, requests, launchVars, runtimeVars, dogVars, listed, mine, sweep,
                 struck>>

\* RemoveLocalPlugin
Remove(c) ==
  /\ pc[c] = "remove"
  /\ bucket' = bucket \ {req[c].old}
  /\ Goto(c, "shutdown")
  /\ UNCHANGED <<has, ignored, req, requests, launchVars, runtimeVars, dogVars,
                 listed, mine, sweep, struck>>

\* ShutdownLocalPluginGracefully: there may be no runtime in the map.
ShutdownGracefully(v) ==
  toStop' = IF listed[v] = None THEN toStop ELSE toStop \cup {listed[v]}

\* An uninstall waits for the shutdown, an upgrade does not.
Shutdown(c) ==
  LET r == listed[req[c].old] IN
  /\ pc[c] = "shutdown"
  /\ ShutdownGracefully(req[c].old)
  /\ IF r = None \/ req[c].new # None
       THEN End(c) /\ UNCHANGED mine
       ELSE Goto(c, "await") /\ mine' = [mine EXCEPT ![c] = r] /\ UNCHANGED req
  /\ UNCHANGED <<has, bucket, ignored, requests, launchVars, of, phase, live, first, killing, failures,
                 dogVars, listed, sweep, struck>>

\* waitGracefulShutdown
AwaitShutdown(c) ==
  /\ pc[c] = "await" /\ mine[c] \notin toStop \cup killing
  /\ mine' = [mine EXCEPT ![c] = None]
  /\ End(c)
  /\ UNCHANGED <<has, bucket, ignored, requests, launchVars, runtimeVars, dogVars,
                 listed, sweep, struck>>

------------------------------------------------------------------------------
(* The watch dogs *)

\* handleNewLocalPlugins lists the bucket ...
ListInstalled ==
  /\ dog = "idle"
  /\ dog' = "round" /\ todo' = bucket
  /\ UNCHANGED <<tenantVars, launchVars, runtimeVars, fails, listed, pc, mine,
                 sweep, struck>>

\* The conditions under which the watch dog launches a version.
Wanted(v) ==
  /\ v \notin ignored /\ Users(v) # {} /\ listed[v] = None
  /\ fails[v] < MaxRetry

\* ... and looks at each version; after several failures it waits first.
Visit(v) ==
  /\ dog = "round" /\ v \in todo
  /\ todo' = todo \ {v}
  /\ \/ Wanted(v) /\ Goto(v, "lock")
     \/ (~Wanted(v) \/ fails[v] >= WaitFrom) /\ UNCHANGED pc
  /\ UNCHANGED <<tenantVars, launchVars, runtimeVars, fails, dog, listed, mine,
                 sweep, struck>>

\* The goroutine's launch is answered, and the answer is recorded; the count it adds
\* to is the one read by Visit, as nobody else changes it.
Record(v) ==
  LET r == mine[v] IN
  /\ pc[v] = "wait" /\ first[r] \in {"ok", "err"}
  /\ fails' = [fails EXCEPT ![v] = IF first[r] = "ok" THEN 0 ELSE fails[v] + 1]
  /\ mine' = [mine EXCEPT ![v] = None]
  /\ Goto(v, "idle")
  /\ UNCHANGED <<tenantVars, launchVars, runtimeVars, todo, dog, listed,
                 sweep, struck>>

\* wg.Wait, and the next tick.
RoundEnds ==
  /\ dog = "round" /\ todo = {} /\ \A v \in Versions : pc[v] = "idle"
  /\ dog' = "idle"
  /\ UNCHANGED <<tenantVars, launchVars, runtimeVars, fails, todo, listed, pc,
                 mine, sweep, struck>>

\* Mutant: the answer of the bucket is turned round.
SweepCheck_Inverted(v) ==
  /\ sweep = None /\ listed[v] # None /\ v \in bucket
  /\ sweep' = v
  /\ UNCHANGED <<tenantVars, launchVars, runtimeVars, dogVars, listed, pc, mine, struck>>

\* removeUnusedLocalPlugins asks the bucket about a listed version ...
SweepCheck(v) ==
  /\ sweep = None /\ listed[v] # None /\ v \notin bucket
  /\ sweep' = v
  /\ UNCHANGED <<tenantVars, launchVars, runtimeVars, dogVars, listed, pc, mine, struck>>

\* ... and then shuts down what is in the map.
SweepShutdown ==
  /\ sweep # None
  /\ ShutdownGracefully(sweep)
  /\ sweep' = None
  /\ UNCHANGED <<tenantVars, launchVars, of, phase, live, first, killing, failures,
                 dogVars, listed, pc, mine, struck>>

------------------------------------------------------------------------------
Launch(t) ==
  LockAndCheck(t) \/ AcquireSemaphore(t) \/ BuildFails(t) \/ StartRuntime(t)

Job(c) ==
  \/ Disable(c) \/ Publish(c) \/ Answered(c) \/ GiveUp(c)
  \/ Save(c) \/ JobFails(c) \/ Remove(c) \/ Shutdown(c) \/ AwaitShutdown(c)

WatchDog == ListInstalled \/ (\E v \in Versions : Visit(v) \/ Record(v)) \/ RoundEnds
Sweeper == (\E v \in Versions : SweepCheck(v)) \/ SweepShutdown

Next ==
  \/ \E c \in Tenants : \E old, new \in Versions \cup {None} : Request(c, old, new)
  \/ \E c \in Tenants : Job(c)
  \/ \E t \in Threads : Launch(t)
  \/ \E r \in Runtimes :
       \/ Ready(r) \/ ReportReady(r) \/ LaunchFails(r) \/ Die(r)
       \/ GracefulStop(r) \/ StopReturns(r) \/ Halt(r) \/ Close(r)
  \/ WatchDog \/ Sweeper

\* What a runtime does by itself.  A launch ends with a heartbeat, an exit or after
\* MAX_HEARTBEAT_INTERVAL.
Loop(r) ==
  \/ first[r] = "open" /\ (Ready(r) \/ LaunchFails(r))
  \/ ReportReady(r) \/ Halt(r) \/ Close(r)

\* A call of Stop or GracefulStop, which ends with all instances stopped.
Stopper(r) == GracefulStop(r) \/ (r \in killing /\ Die(r)) \/ StopReturns(r)

\* Goroutines that can run do.  Mutexes and channels queue their waiters, so a
\* thread gets one that is free again and again.
Fairness ==
  /\ \A c \in Tenants : SF_vars(Job(c) \/ Launch(c))
  /\ \A v \in Versions : SF_vars(Launch(v))
  /\ \A r \in Runtimes : WF_vars(Loop(r)) /\ WF_vars(Stopper(r))
  /\ WF_vars(WatchDog) /\ WF_vars(Sweeper)

Spec == Init /\ [][Next]_vars /\ Fairness

------------------------------------------------------------------------------
PCs == {"idle", "disable", "publish", "lock", "sem", "build", "wait", "stop",
        "save", "remove", "shutdown", "await"}

TypeOK ==
  /\ has \in [Tenants -> Versions \cup {None}]
  /\ bucket \in SUBSET Versions /\ ignored \in SUBSET Versions
  /\ listed \in [Versions -> Runtimes \cup {None}]
  /\ fails \in [Versions -> 0..MaxRetry]
  /\ mutex \in [Versions -> Threads \cup Runtimes \cup {None}]
  /\ sem \in 0..Concurrent
  /\ pc \in [Threads -> PCs]
  /\ req \in [Tenants -> [old : Versions \cup {None}, new : Versions \cup {None}]]
  /\ mine \in [Threads -> Runtimes \cup {None}]
  /\ of \in [Runtimes -> Versions \cup {None}]
  /\ phase \in [Runtimes -> {"none", "running", "stopped", "halted"}]
  /\ first \in [Runtimes -> {"none", "open", "stored", "ok", "err"}]
  /\ live \in SUBSET Runtimes /\ toStop \in SUBSET Runtimes /\ killing \in SUBSET Runtimes
  /\ todo \in SUBSET Versions /\ dog \in {"idle", "round"}
  /\ sweep \in Versions \cup {None}
  /\ requests \in [Tenants -> 0..MaxRequests] /\ failures \in 0..MaxFails
  /\ struck \in SUBSET Versions

\* The launches that have a token of the semaphore: threads that prepare a runtime,
\* and runtimes that have not answered yet.
Building == {t \in Threads : pc[t] = "build"}
Starting == {r \in Runtimes : first[r] \in {"open", "stored"}}

\* Every launch in progress holds the lock of its version, and has exactly one token
\* of the semaphore from the time it got it until its only release.
SemaphoreExact ==
  /\ sem = Cardinality(Building) + Cardinality(Starting)
  /\ \A r \in Starting : mutex[of[r]] = r
  /\ \A t \in Threads : pc[t] \in {"sem", "build"} => mutex[Target(t)] = t

\* GetPluginRuntime routes requests to a runtime of the version that has been
\* ready and whose loop has not yet said that it stops.
RoutedIsScheduled ==
  \A v \in Versions : listed[v] # None =>
    LET r == listed[v] IN
    of[r] = v /\ phase[r] \in {"running", "stopped"} /\ first[r] \in {"stored", "ok"}

\* A version has at most one runtime that was reported ready and is still
\* scheduled, and it is listed, unless the stop of another runtime of the version
\* has deleted the entry.
OneListed ==
  \A r \in Runtimes :
    /\ first[r] \in {"stored", "ok"} /\ phase[r] = "running"
    /\ of[r] \notin struck
    => listed[of[r]] = r

\* Every job comes to an end, and so does every round of the watch dog, whoever
\* else waits for the lock, the semaphore or a shutdown.
CallersReturn == []<>(dog = "idle" /\ \A c \in Tenants : pc[c] = "idle")

\* A runtime of a version that is not in the bucket does not stay listed, even if
\* the job that removed the version found no runtime to shut down.
RemovedIsSwept == []<>(\A v \in Versions : listed[v] = None \/ v \in bucket)
==============================================================================
