------------------------- MODULE ServerlessInstall -------------------------
(***************************************************************************)
(* Installing a plugin as a serverless function (plugin_manager/           *)
(* installer.go, control_panel/installer_serverless.go,                    *)
(* serverless_connector/launch.go) and reading the row that says where the *)
(* function is (plugin_manager/serverless.go), for one plugin.             *)
(*                                                                         *)
(* Callers of one daemon share a launch (singleflight); daemons exclude    *)
(* each other by an owned lock in Redis, which is only waited for so long, *)
(* and which a launch may lose without noticing.                           *)
(* The connector is external: it keeps the functions it has built, here    *)
(* numbered in the order of their build.                                   *)
(***************************************************************************)
EXTENDS Integers, FiniteSets

CONSTANTS
  InstCallers,   \* goroutines: install, reinstall and switch requests, invocations
  InstDaemons,
  DaemonOf,      \* the daemon of a caller
  MaxBuilds      \* bound: functions built

\* What is assumed of the constants.
InstAssumption ==
  DaemonOf \in [InstCallers -> InstDaemons] /\ MaxBuilds \in Nat
  /\ {"none", "nobody"} \cap InstCallers = {}

VARIABLES
  built,      \* functions the connector has built
  builtFor,   \* builtFor[i]: the caller whose launch asked for function i
  row,        \* the function of the row of ServerlessRuntime, 0 without a row
  rowCache,   \* the row in the cache, 0 when there is none
  flight,     \* flight[d]: the launch callers of d share; its owner is who started it
  launchLock, \* the token in Redis: a launch's, named by its caller, one nobody releases, or none
  calls,      \* calls[c]: the request of a caller
  orphans,    \* launches given up while the connector still builds for them
  excused,    \* history: launches that did not hold the lock until they had their function
  suspectRow  \* history: the cached row may be out of date

instVars == <<built, builtFor, row, rowCache, flight, launchLock, calls, orphans, excused, suspectRow>>

NoFlight == [pc |-> "none", owner |-> "none", fn |-> 0]
NoCall == [op |-> "none", pc |-> "new", fn |-> 0, left |-> FALSE]

InstInit ==
  /\ built = 0 /\ row = 0 /\ rowCache = 0
  /\ builtFor = [i \in 1..MaxBuilds |-> "none"]
  /\ flight = [d \in InstDaemons |-> NoFlight]
  /\ launchLock = "none"
  /\ calls = [c \in InstCallers |-> NoCall]
  /\ orphans = {} /\ excused = {} /\ suspectRow = FALSE

Connector_ == <<built, builtFor, orphans>>
Goes(c, pc) == calls' = [calls EXCEPT ![c].pc = pc]
Waiting(d) == {c \in InstCallers : DaemonOf[c] = d /\ calls[c].pc = "waiting"}
ReadersHold == \E c \in InstCallers : calls[c].op = "read" /\ calls[c].pc = "store"

------------------------------------------------------------------------------
(* The connector and the owned lock *)

\* The connector ends a build it was asked for by the launch of c.
Builds(c) ==
  /\ built < MaxBuilds /\ built' = built + 1
  /\ builtFor' = [builtFor EXCEPT ![built + 1] = c]

\* A launch is given up while the connector works for it: nobody tells the connector.
Abandons(c) == orphans' = orphans \cup {c} /\ excused' = excused \cup {c}

\* A build whose launch was given up ends after all.
LateBuild(c) ==
  /\ c \in orphans /\ orphans' = orphans \ {c} /\ Builds(c)
  /\ UNCHANGED <<row, rowCache, flight, launchLock, calls, excused, suspectRow>>

\* AcquireOwnedLock.
Acquires(c) == launchLock = "none" /\ launchLock' = c

\* It waited too long or Redis failed, maybe after the token was set: the launch goes on.
GoesOnUnlocked ==
  \/ UNCHANGED launchLock
  \/ launchLock = "none" /\ launchLock' = "nobody"

\* Unlock removes the launch's own token only.  It may fail; and BeforeClose drops the hook
\* that would unlock when the stream has closed already: then nobody releases the token.
Unlock(c) ==
  IF launchLock = c THEN launchLock' \in {"none", "nobody"} ELSE UNCHANGED launchLock

\* A launch that has not got its function yet.
Unbuilt(d) == flight[d].pc \in {"again", "setup", "build"}

\* The token lapses: renewing it failed.  Its holder goes on as if it had it.
LockLapses ==
  /\ launchLock # "none" /\ launchLock' = "none"
  /\ excused' = excused \cup {c \in InstCallers : c = launchLock /\
                                 \E d \in InstDaemons : flight[d].owner = c /\ Unbuilt(d)}
  /\ UNCHANGED <<Connector_, row, rowCache, flight, calls, suspectRow>>

------------------------------------------------------------------------------
(* InstallToServerless and its shared launch *)

\* A caller joins the launch of its daemon or starts it, with DoChan.
InstallCall(c) ==
  /\ calls[c].pc = "new"
  /\ calls' = [calls EXCEPT ![c].op = "install", ![c].pc = "waiting"]
  /\ flight' = IF flight[DaemonOf[c]].pc = "none"
               THEN [flight EXCEPT ![DaemonOf[c]] = [pc |-> "fetch", owner |-> c, fn |-> 0]]
               ELSE flight
  /\ UNCHANGED <<Connector_, row, rowCache, launchLock, excused, suspectRow>>

\* The launch ends: every caller that still waits gets the function, 0 for an error.
Answered(d, fn) ==
  /\ flight' = [flight EXCEPT ![d] = NoFlight]
  /\ calls' = [c \in InstCallers |->
                 IF c \in Waiting(d)
                 THEN [calls[c] EXCEPT !.pc = IF fn = 0 THEN "failed" ELSE "persist", !.fn = fn]
                 ELSE calls[c]]

FlightGoes(d, pc, fn) == flight' = [flight EXCEPT ![d].pc = pc, ![d].fn = fn]

\* ensureServerless: a function that exists is used.
FlightFetch(d) ==
  /\ flight[d].pc = "fetch"
  /\ \/ built > 0 /\ Answered(d, built)
     \/ built = 0 /\ FlightGoes(d, "lock", 0) /\ UNCHANGED calls
     \/ Answered(d, 0)
  /\ UNCHANGED <<Connector_, row, rowCache, launchLock, excused, suspectRow>>

\* LaunchPlugin takes the lock or goes on without it.
FlightLock(d) ==
  /\ flight[d].pc = "lock" /\ FlightGoes(d, "again", 0)
  /\ \/ Acquires(flight[d].owner) /\ UNCHANGED excused
     \/ GoesOnUnlocked /\ excused' = excused \cup {flight[d].owner}
  /\ UNCHANGED <<Connector_, row, rowCache, calls, suspectRow>>

\* The stream of the launch closes: its hook unlocks before the end is seen.
Closes(d, fn) == FlightGoes(d, "closed", fn) /\ Unlock(flight[d].owner)

\* Mutant: no second look for a function once the lock is held.
FlightFetchAgain_Skipped(d) ==
  /\ flight[d].pc = "again"
  /\ FlightGoes(d, "setup", 0)
  /\ UNCHANGED <<Connector_, row, rowCache, launchLock, calls, excused, suspectRow>>

\* With the lock held another daemon may have built the function meanwhile.
FlightFetchAgain(d) ==
  /\ flight[d].pc = "again"
  /\ \/ built > 0 /\ Closes(d, built)
     \/ built = 0 /\ FlightGoes(d, "setup", 0) /\ UNCHANGED launchLock
     \/ Closes(d, 0)
  /\ UNCHANGED <<Connector_, row, rowCache, calls, excused, suspectRow>>

\* SetupFunction sends the package.  The request may fail, before or after the connector
\* has it.
FlightSetup(d) ==
  /\ flight[d].pc = "setup"
  /\ \/ FlightGoes(d, "build", 0) /\ UNCHANGED <<launchLock, orphans, excused>>
     \/ Closes(d, 0) /\ UNCHANGED <<orphans, excused>>
     \/ Closes(d, 0) /\ Abandons(flight[d].owner)
  /\ UNCHANGED <<built, builtFor, row, rowCache, calls, suspectRow>>

\* The connector reports the function.
FlightBuilt(d) ==
  /\ flight[d].pc = "build" /\ Builds(flight[d].owner)
  /\ FlightGoes(d, "built", built + 1)
  /\ UNCHANGED <<row, rowCache, launchLock, calls, orphans, excused, suspectRow>>

\* The stream closes: the connector failed; or the shared launch timed out, or the reading
\* of the answer did, and the connector builds on; or the function was reported, in full or
\* not, in time or too late.
FlightCloses(d) ==
  /\ \/ flight[d].pc = "build" /\ Closes(d, 0) /\ UNCHANGED <<orphans, excused>>
     \/ flight[d].pc = "build" /\ Closes(d, 0) /\ Abandons(flight[d].owner)
     \/ /\ flight[d].pc = "built" /\ UNCHANGED <<orphans, excused>>
        /\ \E fn \in {0, flight[d].fn} : Closes(d, fn)
  /\ UNCHANGED <<built, builtFor, row, rowCache, calls, suspectRow>>

\* ensureServerless returns and the callers are told.
FlightEnds(d) ==
  /\ flight[d].pc = "closed" /\ Answered(d, flight[d].fn)
  /\ UNCHANGED <<Connector_, row, rowCache, launchLock, excused, suspectRow>>

\* The context of a caller ends while it waits, or before it has looked at what it got;
\* the launch goes on for the others.
CallerLeaves(c) ==
  /\ calls[c].op = "install" /\ calls[c].pc \in {"waiting", "persist"}
  /\ calls' = [calls EXCEPT ![c].pc = "canceled", ![c].left = TRUE]
  /\ UNCHANGED <<Connector_, row, rowCache, flight, launchLock, excused, suspectRow>>

------------------------------------------------------------------------------
(* Writing and reading the row *)

\* persistServerlessRuntime inserts or updates the row; updateServerlessRuntimeModel only
\* updates one.  A reader that holds the old row may cache it afterwards.
Persist(c) ==
  /\ calls[c].pc = "persist"
  /\ \/ /\ calls[c].op = "install" \/ row # 0
        /\ row' = calls[c].fn /\ Goes(c, "clear")
        /\ suspectRow' = (suspectRow \/ ReadersHold)
     \/ Goes(c, "failed") /\ UNCHANGED <<row, suspectRow>>
  /\ UNCHANGED <<Connector_, rowCache, flight, launchLock, excused>>

\* ClearServerlessRuntimeCache; its error is reported and the old row stays cached.
ClearCache(c) ==
  /\ calls[c].pc = "clear"
  /\ \/ rowCache' = 0 /\ Goes(c, "done") /\ UNCHANGED suspectRow
     \/ suspectRow' = TRUE /\ Goes(c, "failed") /\ UNCHANGED rowCache
  /\ UNCHANGED <<Connector_, row, flight, launchLock, excused>>

\* Reinstall: LaunchPlugin, which does not look for a function.
ReinstallCall(c) ==
  /\ calls[c].pc = "new"
  /\ calls' = [calls EXCEPT ![c].op = "reinstall", ![c].pc = "relaunch"]
  /\ Acquires(c) \/ GoesOnUnlocked
  /\ excused' = excused \cup {c}
  /\ UNCHANGED <<Connector_, row, rowCache, flight, suspectRow>>

\* The function is reported; or the launch fails, the connector may build on.
ReinstallBuilt(c) ==
  /\ calls[c].pc = "relaunch"
  /\ \/ /\ Builds(c) /\ UNCHANGED orphans
        /\ calls' = [calls EXCEPT ![c].pc = "persist", ![c].fn = built + 1]
     \/ Goes(c, "failed") /\ orphans' \in {orphans, orphans \cup {c}} /\ UNCHANGED <<built, builtFor>>
  /\ UNCHANGED <<row, rowCache, flight, launchLock, excused, suspectRow>>

\* The stream of a reinstall closes, whatever became of its events.
ReinstallCloses(c) ==
  /\ calls[c].op = "reinstall" /\ calls[c].pc # "relaunch"
  /\ launchLock = c /\ Unlock(c)
  /\ UNCHANGED <<Connector_, row, rowCache, flight, calls, excused, suspectRow>>

\* SwitchServerlessEndpoint: back to a function built earlier.
SwitchCall(c, fn) ==
  /\ calls[c].pc = "new"
  /\ calls' = [calls EXCEPT ![c].op = "switch", ![c].pc = "persist", ![c].fn = fn]
  /\ UNCHANGED <<Connector_, row, rowCache, flight, launchLock, excused, suspectRow>>

\* getServerlessPluginRuntimeModel: the cache, then the row, then the cache is filled.
ReadCache(c) ==
  /\ calls[c].pc = "new"
  /\ \/ /\ rowCache # 0
        /\ calls' = [calls EXCEPT ![c].op = "read", ![c].pc = "done", ![c].fn = rowCache]
     \/ rowCache = 0 /\ calls' = [calls EXCEPT ![c].op = "read", ![c].pc = "db"]
     \/ calls' = [calls EXCEPT ![c].op = "read", ![c].pc = "failed"]
  /\ UNCHANGED <<Connector_, row, rowCache, flight, launchLock, excused, suspectRow>>

ReadRow(c) ==
  /\ calls[c].pc = "db"
  /\ \/ row # 0 /\ calls' = [calls EXCEPT ![c].pc = "store", ![c].fn = row]
     \/ Goes(c, "failed")
  /\ UNCHANGED <<Connector_, row, rowCache, flight, launchLock, excused, suspectRow>>

\* cache.Store; its error is ignored.
StoreCache(c) ==
  /\ calls[c].pc = "store" /\ Goes(c, "done")
  /\ rowCache' \in {rowCache, calls[c].fn}
  /\ UNCHANGED <<Connector_, row, flight, launchLock, excused, suspectRow>>

\* The entry expires after thirty minutes.
RowCacheExpires ==
  /\ rowCache # 0 /\ rowCache' = 0
  /\ UNCHANGED <<Connector_, row, flight, launchLock, calls, excused, suspectRow>>

InstOver ==
  /\ \A c \in InstCallers : calls[c].pc \in {"done", "failed", "canceled"}
  /\ UNCHANGED instVars

InstNext ==
  \/ \E c \in InstCallers :
       \/ InstallCall(c) \/ CallerLeaves(c) \/ Persist(c) \/ ClearCache(c)
       \/ ReinstallCall(c) \/ ReinstallBuilt(c) \/ ReinstallCloses(c) \/ LateBuild(c)
       \/ \E fn \in 1..built : SwitchCall(c, fn)
       \/ ReadCache(c) \/ ReadRow(c) \/ StoreCache(c)
  \/ \E d \in InstDaemons :
       \/ FlightFetch(d) \/ FlightLock(d) \/ FlightFetchAgain(d) \/ FlightSetup(d)
       \/ FlightBuilt(d) \/ FlightCloses(d) \/ FlightEnds(d)
  \/ LockLapses \/ RowCacheExpires \/ InstOver

InstSpec == InstInit /\ [][InstNext]_instVars

------------------------------------------------------------------------------
(* Properties *)

FlightShape ==
  [pc : {"none", "fetch", "lock", "again", "setup", "build", "built", "closed"},
   owner : {"none"} \cup InstCallers, fn : 0..MaxBuilds]

CallShape ==
  [op : {"none", "install", "reinstall", "switch", "read"},
   pc : {"new", "waiting", "persist", "clear", "relaunch", "db", "store", "done", "failed",
         "canceled"},
   fn : 0..MaxBuilds, left : BOOLEAN]

\* Types; a caller that writes or caches a row has a function for it.
InstTypeOK ==
  /\ \A c \in InstCallers : calls[c].pc \in {"persist", "clear", "store"} => calls[c].fn # 0
  /\ {built, row, rowCache} \subseteq 0..MaxBuilds
  /\ builtFor \in [1..MaxBuilds -> {"none"} \cup InstCallers]
  /\ launchLock \in {"none", "nobody"} \cup InstCallers
  /\ flight \in [InstDaemons -> FlightShape] /\ calls \in [InstCallers -> CallShape]
  /\ orphans \subseteq InstCallers /\ excused \subseteq InstCallers /\ suspectRow \in BOOLEAN

\* "One caller timing out must not cancel a launch still needed by others": a caller ends
\* canceled only if its own context ended, and one that waits has a launch under way.
FollowersServed ==
  \A c \in InstCallers :
    /\ calls[c].pc = "canceled" => calls[c].left
    /\ calls[c].pc = "waiting" => flight[DaemonOf[c]].pc # "none"

\* The plugin is built once for all daemons: no two functions are built for launches that
\* each looked for a function and kept the lock until they had one.  What is excused is a
\* launch that went on without the lock, whose token lapsed, or that was given up while the
\* connector built for it, and a reinstall.
BuiltOnce ==
  \A i, j \in 1..built : builtFor[i] \notin excused /\ builtFor[j] \notin excused => i = j

\* Every way out of a launch unlocks: a token that will be released is that of a reinstall
\* or of a shared launch under way.
LockIsOfALaunch ==
  launchLock \in InstCallers =>
    \/ calls[launchLock].op = "reinstall"
    \/ \E d \in InstDaemons : flight[d].owner = launchLock /\ (Unbuilt(d) \/ flight[d].pc = "built")

\* A request that reported success left a row, and the row names a function that was built.
DoneIsPersisted ==
  /\ \A c \in InstCallers : calls[c].pc = "done" => row # 0
  /\ row <= built

\* "Cleanup must be done after updating the model": a cached row is the stored one, unless
\* an invocation read the row before an update and caches it after, or the clean-up failed.
RowCacheFresh ==
  ~suspectRow /\ (\A c \in InstCallers : calls[c].pc # "clear") => rowCache \in {0, row}

------------------------------------------------------------------------------
(* The inductive invariant *)

\* What a request knows: its function was built; once it has written or read the row there
\* is one, and what a reader is about to cache is the row, unless that has changed.
CallKnows(c) ==
  /\ calls[c].fn <= built /\ (calls[c].pc = "new" => calls[c].op = "none")
  /\ calls[c].pc \in {"clear", "store", "done"} => row # 0
  /\ calls[c].pc \in {"db", "store"} => calls[c].op = "read"
  /\ calls[c].pc = "store" /\ ~suspectRow => calls[c].fn = row
  /\ calls[c].op = "reinstall" \/ calls[c].pc = "relaunch" => c \in excused

\* A launch is its daemon's.  One that is not excused has the lock, hence is alone, and
\* builds only what it has not found.
OneBuilder ==
  \A d \in InstDaemons :
    /\ flight[d].pc # "none" => flight[d].owner \in InstCallers /\ DaemonOf[flight[d].owner] = d
    /\ flight[d].fn <= built
    /\ Unbuilt(d) /\ flight[d].owner \notin excused => launchLock = flight[d].owner
    /\ flight[d].pc \in {"setup", "build"} /\ flight[d].owner \notin excused =>
         \A i \in 1..built : builtFor[i] \in excused

InstIInv ==
  /\ InstTypeOK /\ FollowersServed /\ (\A c \in InstCallers : CallKnows(c)) /\ OneBuilder
  /\ BuiltOnce /\ LockIsOfALaunch /\ orphans \subseteq excused
  /\ RowCacheFresh /\ row <= built /\ rowCache <= built
  /\ rowCache # 0 => row # 0
=============================================================================
