---------------------------- MODULE Environment ----------------------------
(***************************************************************************)
(* The environment of a local plugin: daemons that share a working path    *)
(* extract the package and build the Python virtual environment, guarded   *)
(* by an owned lock in Redis (pkg/utils/cache/redis.go,                    *)
(* control_panel/launcher_local.go, local_runtime/environment.go,          *)
(* environment_python.go, setup_python_environment.go, patch.go).          *)
(*                                                                         *)
(* The lock is advisory: a daemon that does not get it in time, or loses   *)
(* it, goes on.  A daemon may crash between any two steps; the directory   *)
(* outlives it.  A plugin process left behind by a crash is not modelled.  *)
(***************************************************************************)
EXTENDS Integers, FiniteSets

CONSTANTS
  Daemons,
  MaxCrashes,   \* bound: crashes of a behaviour
  MaxInits      \* bound: initializations a daemon starts

\* What is assumed of the constants: a token is never taken for an absent key.
EnvironmentAssumption == MaxCrashes \in Nat /\ MaxInits \in Nat /\ "none" \notin Daemons

VARIABLES
  at,         \* at[d]: where daemon d is in the initialization
  held,       \* daemons that were given the lock and have not released it
  renewing,   \* daemons whose KeepAlive is running
  owner,      \* the token stored under the lock's key
  files,      \* the extracted package: "none", "empty", "partial" or "full"
  venv,       \* ".venv": "none", "broken" (no python), "bare" or "installed"
  flag,       \* ".venv/dify/plugin.json"
  patched,    \* the SDK in the environment was patched
  inits, crashes,
  lost,       \* history: daemons whose lock expired while they held it
  overlap,    \* history: two daemons initialized at one time
  torn        \* history: an extraction was cut short

envVars == <<at, held, renewing, owner, files, venv, flag, patched, inits, crashes,
             lost, overlap, torn>>

EnvInit ==
  /\ at = [d \in Daemons |-> "idle"]
  /\ held = {} /\ renewing = {} /\ owner = "none"
  /\ files \in {"none", "empty", "full"} /\ venv = "none" /\ flag = FALSE /\ patched = FALSE
  /\ inits = [d \in Daemons |-> 0] /\ crashes = 0
  /\ lost = {} /\ overlap = FALSE /\ torn = FALSE

Resting == {"idle", "wait", "ready", "failed", "crashed"}
LockVars == <<held, renewing, owner>>
Dir == <<files, venv, flag, patched>>
EnvHistory == <<inits, crashes, lost, overlap, torn>>

Moves(d, from, to) == at[d] = from /\ at' = [at EXCEPT ![d] = to]

------------------------------------------------------------------------------
(* The owned lock *)

Launch(d) ==
  /\ at[d] \in {"idle", "ready", "failed"} /\ inits[d] < MaxInits
  /\ at' = [at EXCEPT ![d] = "wait"]
  /\ inits' = [inits EXCEPT ![d] = @ + 1]
  /\ UNCHANGED <<LockVars, Dir, crashes, lost, overlap, torn>>

Enters(d) ==
  /\ Moves(d, "wait", "extract")
  /\ overlap' = (overlap \/ \E e \in Daemons \ {d} : at[e] \notin Resting)
  /\ UNCHANGED <<Dir, inits, crashes, lost, torn>>

\* AcquireOwnedLock: SetNX of a token of its own, and KeepAlive.
AcquireOwnedLock(d) ==
  /\ owner = "none" /\ owner' = d
  /\ held' = held \cup {d} /\ renewing' = renewing \cup {d}
  /\ Enters(d)

\* ErrLockTimeout or a Redis error: the daemon continues without the lock.
ContinueWithoutLock(d) == Enters(d) /\ UNCHANGED LockVars

\* Renew, by a script that compares the token.  It fails when the lock is another's,
\* and a Redis error ends KeepAlive as well.
RenewFails(d) ==
  /\ d \in renewing /\ renewing' = renewing \ {d}
  /\ UNCHANGED <<at, held, owner, Dir, EnvHistory>>

\* The key expires when nobody renews it.
LockExpires ==
  /\ owner # "none" /\ owner \notin renewing
  /\ lost' = lost \cup (held \cap {owner})
  /\ owner' = "none"
  /\ UNCHANGED <<at, held, renewing, Dir, inits, crashes, overlap, torn>>

\* Mutant: the key is deleted without comparing the token.
Released_Any(d, o) == "none"

\* Unlock, by a script that compares the token.
Released(d, o) == IF o = d THEN "none" ELSE o

\* Stops KeepAlive and unlocks, which may fail with a Redis error; then the launch goes on
\* or is given up.
Release(d, from, to) ==
  /\ Moves(d, from, to)
  /\ renewing' = renewing \ {d} /\ held' = held \ {d} /\ lost' = lost \ {d}
  /\ \/ owner' = IF d \in held THEN Released(d, owner) ELSE owner
     \/ UNCHANGED owner
  /\ UNCHANGED <<Dir, inits, crashes, overlap, torn>>

------------------------------------------------------------------------------
(* InitEnvironment *)

Only(d, from, to) == Moves(d, from, to) /\ UNCHANGED <<LockVars, EnvHistory>>

\* extractPluginToWorkingPath: a path that is not there or empty is filled, any other
\* is taken as it is.
StartExtract(d) ==
  /\ \/ files \in {"none", "empty"} /\ Only(d, "extract", "extracting") /\ files' = "partial"
     \/ files = "none" /\ Only(d, "extract", "failing") /\ files' \in {"none", "empty"}
     \/ files \notin {"none", "empty"} /\ Only(d, "extract", "check") /\ UNCHANGED files
  /\ UNCHANGED <<venv, flag, patched>>

\* ExtractTo: entry after entry is copied; the first error (a read, a write, an entry
\* outside the directory) removes the directory, and the error of that is dropped.
EndExtract(d) ==
  /\ \/ Moves(d, "extracting", "check") /\ files' = "full" /\ UNCHANGED torn
     \/ Moves(d, "extracting", "failing") /\ files' = "none" /\ UNCHANGED torn
     \/ Moves(d, "extracting", "failing") /\ torn' = TRUE /\ UNCHANGED files
  /\ UNCHANGED <<LockVars, venv, flag, patched, inits, crashes, lost, overlap>>

\* checkPythonVirtualEnvironment.
VenvValid == venv \in {"bare", "installed"} /\ flag

\* InitPythonEnvironment: prepareUV, then the three answers of the check.
CheckVenv(d) ==
  /\ \/ VenvValid /\ Only(d, "check", "repatch")
     \/ venv = "none" /\ Only(d, "check", "create")
     \/ venv # "none" /\ ~VenvValid /\ Only(d, "check", "delete")
     \/ Only(d, "check", "failing")
  /\ UNCHANGED Dir

\* deleteVirtualEnvironment.
DeleteVenv(d) ==
  /\ \/ /\ Only(d, "delete", "create")
        /\ venv' = "none" /\ flag' = FALSE /\ patched' = FALSE
     \/ Only(d, "delete", "failing") /\ UNCHANGED <<venv, flag, patched>>
  /\ UNCHANGED files

\* createVirtualEnvironment: uv venv, and the search for a dependency file.
CreateVenv(d) ==
  /\ \/ Only(d, "create", "install") /\ venv' = "bare" /\ patched' = FALSE
     \/ Only(d, "create", "failing") /\ venv' \in {venv, "broken", "bare"} /\ UNCHANGED patched
  /\ UNCHANGED <<files, flag>>

\* installDependencies: uv sync or uv pip install; on failure, on the ten minute timeout
\* or when the process is killed for inactivity, part of the dependencies is there.
InstallDependencies(d) ==
  /\ \/ venv \in {"bare", "installed"} /\ Only(d, "install", "compile") /\ venv' = "installed"
     \/ Only(d, "install", "failing") /\ UNCHANGED venv
  /\ UNCHANGED <<files, flag, patched>>

\* preCompile: a failed compilation is only logged.
PreCompile(d) ==
  /\ Only(d, "compile", "patch") \/ Only(d, "compile", "failing")
  /\ UNCHANGED Dir

\* patchPluginSdk, also of an environment that was found valid; errors are only logged.
PatchSdk(d) ==
  /\ Only(d, "patch", "mark") \/ Only(d, "repatch", "release")
  /\ \/ venv = "installed" /\ patched' = TRUE
     \/ UNCHANGED patched
  /\ UNCHANGED <<files, venv, flag>>

\* markVirtualEnvironmentAsValid, which makes the directories it needs; errors are only
\* logged.
MarkValid(d) ==
  /\ Only(d, "mark", "release")
  /\ \/ flag' = TRUE /\ venv' = IF venv = "none" THEN "broken" ELSE venv
     \/ UNCHANGED <<flag, venv>>
  /\ UNCHANGED <<files, patched>>

InitStep(d) ==
  \/ StartExtract(d) \/ EndExtract(d) \/ CheckVenv(d) \/ DeleteVenv(d) \/ CreateVenv(d)
  \/ InstallDependencies(d) \/ PreCompile(d) \/ PatchSdk(d) \/ MarkValid(d)

------------------------------------------------------------------------------
Crash(d) ==
  /\ at[d] # "crashed" /\ crashes < MaxCrashes
  /\ crashes' = crashes + 1
  /\ at' = [at EXCEPT ![d] = "crashed"]
  /\ renewing' = renewing \ {d} /\ held' = held \ {d} /\ lost' = lost \ {d}
  /\ torn' = (torn \/ at[d] = "extracting")
  /\ UNCHANGED <<owner, Dir, inits, overlap>>

Restart(d) ==
  /\ Moves(d, "crashed", "idle")
  /\ UNCHANGED <<LockVars, Dir, EnvHistory>>

EnvNext ==
  \/ LockExpires
  \/ \E d \in Daemons :
       \/ Launch(d) \/ AcquireOwnedLock(d) \/ ContinueWithoutLock(d) \/ RenewFails(d)
       \/ InitStep(d) \/ Release(d, "release", "ready") \/ Release(d, "failing", "failed")
       \/ Crash(d) \/ Restart(d)

EnvSpec == EnvInit /\ [][EnvNext]_envVars

------------------------------------------------------------------------------
(* Properties *)

\* The type of the state.
EnvTypeOK ==
  /\ at \in [Daemons -> Resting \cup {"extract", "extracting", "check", "repatch", "create",
                "delete", "install", "compile", "patch", "mark", "release", "failing"}]
  /\ held \subseteq Daemons /\ renewing \subseteq held /\ lost \subseteq held
  /\ owner \in Daemons \cup {"none"}
  /\ files \in {"none", "empty", "partial", "full"}
  /\ venv \in {"none", "broken", "bare", "installed"}
  /\ {flag, patched, overlap, torn} \subseteq BOOLEAN
  /\ inits \in [Daemons -> 0..MaxInits] /\ crashes \in 0..MaxCrashes

\* Redis lock (redis.go): a daemon that was given the lock owns it until it releases it
\* or the key expires because its renewal stopped; nobody else can take or release it.
HolderOwnsLock == \A d \in held \ lost : owner = d

\* A virtual environment that is marked valid has all its dependencies, whatever
\* crashed or failed before (markVirtualEnvironmentAsValid is the last step), unless two
\* daemons worked on it at one time.
MarkedIsInstalled == flag /\ ~overlap => venv = "installed"

\* An initialization succeeds only with an environment that can run the plugin: the
\* whole package and all dependencies, unless an extraction was cut short (its remains
\* are never replaced) or daemons overlapped.
ReadyIsUsable ==
  \A d \in Daemons : at[d] = "release" /\ ~overlap /\ ~torn
    => files = "full" /\ venv = "installed"

\* Daemons initialize one at a time as long as none gave up waiting for the lock: they
\* overlap only when one of them does not hold it or has lost it.
LockExcludes ==
  \A d, e \in Daemons : d # e /\ {at[d], at[e]} \cap Resting = {}
    => ~({d, e} \subseteq held \ lost)

------------------------------------------------------------------------------
(* The inductive invariant of the properties *)

Inside(d) == at[d] \notin Resting

\* What a daemon that is alone has found or made of the directory.
KnowsDir(d) ==
  /\ at[d] \in {"create", "install"} => ~flag
  /\ at[d] \in {"compile", "patch", "mark", "repatch", "release"} => venv = "installed"
  /\ Inside(d) /\ at[d] \notin {"extract", "extracting", "failing"} /\ ~torn => files = "full"

\* Without an overlap there is one daemon inside at most, and it knows the directory;
\* half a package is there only while it is extracted, or one was cut short.
AloneKnows ==
  ~overlap =>
    /\ \A d, e \in Daemons : Inside(d) /\ Inside(e) => d = e
    /\ \A d \in Daemons : KnowsDir(d)
    /\ files = "partial" /\ ~torn => \E d \in Daemons : at[d] = "extracting"

EnvIInv == EnvTypeOK /\ HolderOwnsLock /\ MarkedIsInstalled /\ AloneKnows
=============================================================================
