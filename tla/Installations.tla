---------------------------- MODULE Installations ----------------------------
(***************************************************************************)
(* The install, uninstall and upgrade transactions of                      *)
(* internal/types/models/curd/atomic.go, run concurrently by several HTTP  *)
(* requests and install tasks (the set Calls) for one plugin id.  A "uid"  *)
(* is a plugin unique identifier: the plugin id plus version and checksum. *)
(*                                                                         *)
(* Every SQL statement that reads a row another transaction may write, or  *)
(* that waits for a row, is an action of its own.  The database is         *)
(* PostgreSQL at READ COMMITTED: a plain SELECT sees the committed rows,   *)
(* and a written row stays locked until its transaction ends, so a         *)
(* transaction's writes are kept in its local variables and applied by     *)
(* Commit.  The tool, model, agent, datasource and trigger rows are        *)
(* written in the same transaction, under the same key, as the             *)
(* installation row, and are one with it here.                             *)
(***************************************************************************)
EXTENDS Integers, FiniteSets

CONSTANTS
  Calls,       \* the requests, each of which runs one operation
  Tenants,
  Uids,        \* unique identifiers of the versions of one plugin
  Remote,      \* uids installed from a debugging connection
  Serverless,  \* uids whose plugin runs as a serverless function
  Ops,         \* the operations the requests may ask for
  None

ASSUME ConstantsAssumption ==
  /\ None \notin Calls \cup Tenants \cup Uids
  /\ Calls \cap Tenants = {}
  /\ IsFiniteSet(Tenants)
  /\ Remote \subseteq Uids
  /\ Serverless \subseteq Uids \ Remote
  /\ Ops \subseteq {"install", "uninstall", "upgrade"}

VARIABLES
  plugins,       \* uids with a committed row in table plugins
  refers,        \* column refers of those rows
  instUid,       \* plugin_unique_identifier of a tenant's installation, or None
  instId,        \* id of that row: the call that created it (or the tenant, for
                 \* the rows that were there before), or None
  declarations,  \* uids with a committed row in plugin_declarations
  runtimes,      \* uids with a committed row in serverless_runtimes
  missed,        \* history: uids of which a committed upgrade was not counted
  pluginLock, declLock, instLock,  \* the call whose transaction holds the row
  req,           \* the arguments of a call
  pc,            \* the next statement of a call
  found,         \* calls whose transaction has a plugin row for its uid
  cnt, cntOld    \* the refers values a call read or computed, of uid and of old

tables == <<plugins, refers, instUid, instId, declarations, runtimes, missed>>
locks  == <<pluginLock, declLock, instLock>>
local  == <<found, cnt, cntOld>>
vars   == <<tables, locks, req, pc, local>>

PCs == {"idle", "precheck", "insert", "lockPlugin", "checkInst", "ensure",
        "createInst", "lockInst", "dropRows", "readNew", "createNew", "decOld",
        "dropOld", "incNew", "commit", "done"}

\* db.WithTransaction: outside of these a call has no transaction.
InTx(c) == pc[c] \notin {"idle", "precheck", "done"}

Request == [op : {"install", "uninstall", "upgrade"}, tenant : Tenants,
            uid : Uids, old : Uids \cup {None}, id : Calls \cup Tenants \cup {None}]
NoRequest == [op |-> "none", tenant |-> None, uid |-> None, old |-> None, id |-> None]

\* The tenants whose installation refers to u.
Users(u) == {t \in Tenants : instUid[t] = u}

------------------------------------------------------------------------------
\* A row is available to c unless another transaction has written or locked it.
Free(lock, r, c) == lock[r] \in {None, c}

Goto(c, l) == pc' = [pc EXCEPT ![c] = l]

\* tx.Rollback, or the end of tx.Commit: every row of the transaction is released.
Release(c) ==
  /\ pluginLock' = [u \in Uids |-> IF pluginLock[u] = c THEN None ELSE pluginLock[u]]
  /\ declLock' = [u \in Uids |-> IF declLock[u] = c THEN None ELSE declLock[u]]
  /\ instLock' = [t \in Tenants |-> IF instLock[t] = c THEN None ELSE instLock[t]]

\* The call is over, and its local variables with it.
Return(c) ==
  /\ Goto(c, "done")
  /\ req' = [req EXCEPT ![c] = NoRequest]
  /\ found' = found \ {c}
  /\ cnt' = [cnt EXCEPT ![c] = 0]
  /\ cntOld' = [cntOld EXCEPT ![c] = 0]

\* Mutant: an error leaves the transaction open.
Rollback_NotDone(c) == UNCHANGED <<tables, locks>> /\ Return(c)

Rollback(c) ==
  /\ Release(c)
  /\ Return(c)
  /\ UNCHANGED tables

------------------------------------------------------------------------------
\* Any set of installations that completed operations have left behind, with
\* the declarations of other versions uploaded or not.
Init ==
  /\ instUid \in [Tenants -> Uids \cup {None}]
  /\ instId = [t \in Tenants |-> IF instUid[t] = None THEN None ELSE t]
  /\ plugins = {u \in Uids : Users(u) # {}}
  /\ refers = [u \in Uids |-> Cardinality(Users(u))]
  /\ declarations \in SUBSET (Uids \ Remote)
  /\ plugins \ Remote \subseteq declarations
  /\ runtimes = plugins \cap Serverless
  /\ missed = {}
  /\ pluginLock = [u \in Uids |-> None]
  /\ declLock = [u \in Uids |-> None]
  /\ instLock = [t \in Tenants |-> None]
  /\ req = [c \in Calls |-> NoRequest]
  /\ pc = [c \in Calls |-> "idle"]
  /\ found = {}
  /\ cnt = [c \in Calls |-> 0]
  /\ cntOld = [c \in Calls |-> 0]

\* InstallPlugin, the entry: the arguments; installing a serverless plugin has
\* created its runtime row before (InstallToServerless).
BeginInstall(c) ==
  /\ pc[c] = "idle" /\ "install" \in Ops
  /\ \E t \in Tenants, u \in Uids :
       /\ req' = [req EXCEPT ![c] = [op |-> "install", tenant |-> t, uid |-> u,
                                     old |-> None, id |-> None]]
       /\ runtimes' = runtimes \cup ({u} \cap Serverless)
  /\ Goto(c, "precheck")
  /\ UNCHANGED <<plugins, refers, instUid, instId, declarations, missed, locks, local>>

\* Mutant: the installation is not looked up first.
BeginUninstall_NoLookup(c) ==
  /\ pc[c] = "idle" /\ "uninstall" \in Ops
  /\ \E t \in Tenants :
       req' = [req EXCEPT ![c] = [op |-> "uninstall", tenant |-> t, uid |-> instUid[t],
                                  old |-> None, id |-> instId[t]]]
  /\ Goto(c, "precheck")
  /\ UNCHANGED <<tables, locks, local>>

\* UninstallPlugin: the caller names an installation it has seen.
BeginUninstall(c) ==
  /\ pc[c] = "idle" /\ "uninstall" \in Ops
  /\ \E t \in {x \in Tenants : instUid[x] # None} :
       req' = [req EXCEPT ![c] = [op |-> "uninstall", tenant |-> t, uid |-> instUid[t],
                                  old |-> None, id |-> instId[t]]]
  /\ Goto(c, "precheck")
  /\ UNCHANGED <<tables, locks, local>>

\* UpgradePlugin: from the version the caller has seen to another one.
BeginUpgrade(c) ==
  /\ pc[c] = "idle" /\ "upgrade" \in Ops
  /\ \E t \in {x \in Tenants : instUid[x] # None} : \E u \in Uids \ {instUid[t]} :
       /\ req' = [req EXCEPT ![c] = [op |-> "upgrade", tenant |-> t, uid |-> u,
                                     old |-> instUid[t], id |-> None]]
       /\ runtimes' = runtimes \cup ({u} \cap Serverless)
  /\ Goto(c, "lockInst")
  /\ UNCHANGED <<plugins, refers, instUid, instId, declarations, missed, locks, local>>

\* The installation row the call asks for, as committed now.
Matches(c) ==
  LET r == req[c] IN
  CASE r.op = "uninstall" -> instUid[r.tenant] = r.uid /\ instId[r.tenant] = r.id
    [] r.op = "upgrade"   -> instUid[r.tenant] = r.old
    [] OTHER              -> instUid[r.tenant] # None

\* The look before the transaction: an install that finds an installation, or an
\* uninstall that finds none, returns at once.
PreCheck(c) ==
  /\ pc[c] = "precheck"
  /\ \/ /\ req[c].op = "install" /\ ~Matches(c)
        /\ Goto(c, "insert") /\ UNCHANGED <<req, local>>
     \/ /\ req[c].op = "uninstall" /\ Matches(c)
        /\ Goto(c, "lockInst") /\ UNCHANGED <<req, local>>
     \/ /\ (req[c].op = "install") = Matches(c)
        /\ Return(c)
  /\ UNCHANGED <<tables, locks>>

------------------------------------------------------------------------------
\* InstallPlugin

\* INSERT INTO plugins ... ON CONFLICT DO NOTHING waits for a transaction that is
\* writing the row.
InsertPlugin(c) ==
  LET u == req[c].uid IN
  /\ pc[c] = "insert"
  /\ Free(pluginLock, u, c)
  /\ IF u \in plugins
       THEN UNCHANGED <<found, pluginLock>>
       ELSE found' = found \cup {c} /\ pluginLock' = [pluginLock EXCEPT ![u] = c]
  /\ Goto(c, "lockPlugin")
  /\ UNCHANGED <<tables, declLock, instLock, req, cnt, cntOld>>

\* Mutant: a plain SELECT.
LockPlugin_NoLock(c) ==
  LET u == req[c].uid IN
  /\ pc[c] = "lockPlugin"
  /\ IF u \in plugins \/ c \in found
       THEN /\ found' = found \cup {c}
            /\ cnt' = [cnt EXCEPT ![c] = IF u \in plugins THEN refers[u] ELSE 0]
            /\ Goto(c, IF req[c].op = "install" THEN "checkInst" ELSE "dropRows")
            /\ UNCHANGED <<tables, locks, req, cntOld>>
       ELSE IF req[c].op = "install"
         THEN Rollback(c)
         ELSE Goto(c, "dropRows") /\ UNCHANGED <<tables, locks, req, local>>

\* SELECT ... FOR UPDATE of the plugin row, for an install or an uninstall.  The
\* row an install found above may be gone: the install then fails.
LockPlugin(c) ==
  LET u == req[c].uid IN
  /\ pc[c] = "lockPlugin"
  /\ IF u \in plugins \/ c \in found
       THEN /\ Free(pluginLock, u, c)
            /\ pluginLock' = [pluginLock EXCEPT ![u] = c]
            /\ found' = found \cup {c}
            /\ cnt' = [cnt EXCEPT ![c] = IF u \in plugins THEN refers[u] ELSE 0]
            /\ Goto(c, IF req[c].op = "install" THEN "checkInst" ELSE "dropRows")
            /\ UNCHANGED <<tables, declLock, instLock, req, cntOld>>
       ELSE IF req[c].op = "install"
         THEN Rollback(c)
         ELSE Goto(c, "dropRows") /\ UNCHANGED <<tables, locks, req, local>>

\* The second look for an installation, now under the plugin row's lock.
CheckInstallation(c) ==
  /\ pc[c] = "checkInst"
  /\ IF Matches(c)
       THEN Rollback(c)
       ELSE Goto(c, "ensure") /\ UNCHANGED <<tables, locks, req, local>>

\* ensurePluginDeclaration: INSERT ... ON CONFLICT DO NOTHING, unless remote; an
\* install then adds 1 to the refers it read.
EnsureDeclaration(c) ==
  LET u == req[c].uid IN
  /\ pc[c] = "ensure"
  /\ \/ u \in Remote /\ UNCHANGED declLock
     \/ /\ u \notin Remote /\ Free(declLock, u, c)
        /\ declLock' = IF u \in declarations THEN declLock
                                             ELSE [declLock EXCEPT ![u] = c]
  /\ IF req[c].op = "install"
       THEN cnt' = [cnt EXCEPT ![c] = @ + 1] /\ Goto(c, "createInst")
       ELSE UNCHANGED cnt /\ Goto(c, "commit")
  /\ UNCHANGED <<tables, pluginLock, instLock, req, found, cntOld>>

\* db.Create(installation): the unique index on (tenant_id, plugin_id) waits for
\* a transaction writing the tenant's row and refuses a second one.
CreateInstallation(c) ==
  LET t == req[c].tenant IN
  /\ pc[c] = "createInst"
  /\ Free(instLock, t, c)
  /\ IF instUid[t] # None
       THEN Rollback(c)
       ELSE /\ instLock' = [instLock EXCEPT ![t] = c]
            /\ Goto(c, "commit")
            /\ UNCHANGED <<tables, pluginLock, declLock, req, local>>

------------------------------------------------------------------------------
\* UninstallPlugin and UpgradePlugin: SELECT ... FOR UPDATE of the installation.
LockInstallation(c) ==
  LET t == req[c].tenant IN
  /\ pc[c] = "lockInst"
  /\ IF Matches(c)
       THEN /\ Free(instLock, t, c)
            /\ instLock' = [instLock EXCEPT ![t] = c]
            /\ Goto(c, IF req[c].op = "uninstall" THEN "lockPlugin" ELSE "readNew")
            /\ UNCHANGED <<tables, pluginLock, declLock, req, local>>
       ELSE Rollback(c)

\* DELETE of the declaration row of a plugin without references waits for a
\* transaction writing that row.
DeleteDeclaration(c, u) ==
  IF u \in declarations
    THEN Free(declLock, u, c) /\ declLock' = [declLock EXCEPT ![u] = c]
    ELSE UNCHANGED declLock

\* The rest of UninstallPlugin: refers - 1, and at 0 the plugin row, its
\* declaration and its runtime go too.
DropRows(c) ==
  /\ pc[c] = "dropRows"
  /\ IF c \in found
       THEN /\ cnt' = [cnt EXCEPT ![c] = @ - 1]
            /\ IF cnt[c] = 1 THEN DeleteDeclaration(c, req[c].uid)
                             ELSE UNCHANGED declLock
       ELSE UNCHANGED <<cnt, declLock>>
  /\ Goto(c, "commit")
  /\ UNCHANGED <<tables, pluginLock, instLock, req, found, cntOld>>

------------------------------------------------------------------------------
\* UpgradePlugin

\* GetOne of the new version's row, WITHOUT a lock.
ReadNew(c) ==
  /\ pc[c] = "readNew"
  /\ Goto(c, IF req[c].uid \in plugins THEN "decOld" ELSE "createNew")
  /\ UNCHANGED <<tables, locks, req, local>>

\* db.Create of the new version's row: the unique index refuses a second one.
CreateNew(c) ==
  LET u == req[c].uid IN
  /\ pc[c] = "createNew"
  /\ Free(pluginLock, u, c)
  /\ IF u \in plugins
       THEN Rollback(c)
       ELSE /\ pluginLock' = [pluginLock EXCEPT ![u] = c]
            /\ found' = found \cup {c}
            /\ Goto(c, "decOld")
            /\ UNCHANGED <<tables, declLock, instLock, req, cnt, cntOld>>

\* UPDATE plugins SET refers = refers - 1 of the old version; a missing row is
\* noticed by the SELECT that follows, and the upgrade fails.
DecOld(c) ==
  LET v == req[c].old IN
  /\ pc[c] = "decOld"
  /\ IF v \in plugins
       THEN /\ Free(pluginLock, v, c)
            /\ pluginLock' = [pluginLock EXCEPT ![v] = c]
            /\ cntOld' = [cntOld EXCEPT ![c] = refers[v] - 1]
            /\ Goto(c, "dropOld")
            /\ UNCHANGED <<tables, declLock, instLock, req, found, cnt>>
       ELSE Rollback(c)

\* The old version's row and declaration are deleted when nothing refers to it.
DropOld(c) ==
  /\ pc[c] = "dropOld"
  /\ IF cntOld[c] = 0 THEN DeleteDeclaration(c, req[c].old) ELSE UNCHANGED declLock
  /\ Goto(c, "incNew")
  /\ UNCHANGED <<tables, pluginLock, instLock, req, local>>

\* UPDATE plugins SET refers = refers + 1 of the new version: nothing happens,
\* and nothing is reported, when the row ReadNew saw has been deleted since.
IncNew(c) ==
  LET u == req[c].uid IN
  /\ pc[c] = "incNew"
  /\ IF u \in plugins \/ c \in found
       THEN /\ Free(pluginLock, u, c)
            /\ pluginLock' = [pluginLock EXCEPT ![u] = c]
            /\ found' = found \cup {c}
            /\ cnt' = [cnt EXCEPT ![c] = (IF u \in plugins THEN refers[u] ELSE 0) + 1]
       ELSE UNCHANGED <<pluginLock, found, cnt>>
  /\ Goto(c, "ensure")
  /\ UNCHANGED <<tables, declLock, instLock, req, cntOld>>

------------------------------------------------------------------------------
\* tx.Commit makes the writes of the transaction visible at once.

CommitInstall(c) ==
  LET u == req[c].uid t == req[c].tenant IN
  /\ pc[c] = "commit" /\ req[c].op = "install"
  /\ plugins' = plugins \cup {u}
  /\ refers' = [refers EXCEPT ![u] = cnt[c]]
  /\ declarations' = declarations \cup ({u} \ Remote)
  /\ instUid' = [instUid EXCEPT ![t] = u]
  /\ instId' = [instId EXCEPT ![t] = c]
  /\ Release(c) /\ Return(c)
  /\ UNCHANGED <<runtimes, missed>>

\* The row, if any, that an uninstall deletes.
Unreferenced(c) == {u \in {req[c].uid} : c \in found /\ cnt[c] = 0}

CommitUninstall(c) ==
  LET u == req[c].uid  t == req[c].tenant  gone == Unreferenced(c) IN
  /\ pc[c] = "commit" /\ req[c].op = "uninstall"
  /\ plugins' = plugins \ gone
  /\ refers' = IF c \in found THEN [refers EXCEPT ![u] = cnt[c]] ELSE refers
  /\ declarations' = declarations \ gone
  /\ runtimes' = runtimes \ gone
  /\ instUid' = [instUid EXCEPT ![t] = None]
  /\ instId' = [instId EXCEPT ![t] = None]
  /\ Release(c) /\ Return(c)
  /\ UNCHANGED missed

CommitUpgrade(c) ==
  LET u == req[c].uid  v == req[c].old  t == req[c].tenant
      new  == IF c \in found THEN {u} ELSE {}
      gone == IF cntOld[c] = 0 THEN {v} ELSE {} IN
  /\ pc[c] = "commit" /\ req[c].op = "upgrade"
  /\ plugins' = (plugins \ gone) \cup new
  /\ refers' = [w \in Uids |-> IF w = v THEN cntOld[c]
                               ELSE IF w \in new THEN cnt[c] ELSE refers[w]]
  /\ declarations' = (declarations \ gone) \cup ({u} \ Remote)
  /\ runtimes' = runtimes \ gone
  /\ instUid' = [instUid EXCEPT ![t] = u]
  /\ missed' = missed \cup ({u} \ new)
  /\ Release(c) /\ Return(c)
  /\ UNCHANGED instId

Commit(c) == CommitInstall(c) \/ CommitUninstall(c) \/ CommitUpgrade(c)

\* A statement fails (the connection, a timeout): the function returns the error
\* and db.WithTransaction rolls back.
StatementFails(c) == InTx(c) /\ Rollback(c)

------------------------------------------------------------------------------
\* The transaction a blocked statement of c waits for.
WaitsFor(c) ==
  LET u == req[c].uid  v == req[c].old  t == req[c].tenant
      On(lock, r) == {lock[r]} \ {None, c} IN
  CASE pc[c] \in {"insert", "createNew"} -> On(pluginLock, u)
    [] pc[c] \in {"lockPlugin", "incNew"} /\ u \in plugins -> On(pluginLock, u)
    [] pc[c] = "decOld" /\ v \in plugins -> On(pluginLock, v)
    [] pc[c] = "createInst" -> On(instLock, t)
    [] pc[c] = "lockInst" /\ Matches(c) -> On(instLock, t)
    [] pc[c] = "ensure" /\ u \notin Remote -> On(declLock, u)
    [] pc[c] = "dropRows" /\ c \in found /\ cnt[c] = 1 /\ u \in declarations -> On(declLock, u)
    [] pc[c] = "dropOld" /\ cntOld[c] = 0 /\ v \in declarations -> On(declLock, v)
    [] OTHER -> {}

\* The database's deadlock detector rolls back one transaction of a cycle.
DeadlockVictim(c) ==
  /\ \E D \in SUBSET Calls : c \in D /\ \A d \in D : WaitsFor(d) \cap D # {}
  /\ Rollback(c)

Step(c) ==
  \/ PreCheck(c)
  \/ InsertPlugin(c) \/ LockPlugin(c) \/ CheckInstallation(c)
  \/ EnsureDeclaration(c) \/ CreateInstallation(c)
  \/ LockInstallation(c) \/ DropRows(c)
  \/ ReadNew(c) \/ CreateNew(c) \/ DecOld(c) \/ DropOld(c) \/ IncNew(c)
  \/ Commit(c)

Begin(c) == BeginInstall(c) \/ BeginUninstall(c) \/ BeginUpgrade(c)

Next ==
  \E c \in Calls : Begin(c) \/ Step(c) \/ StatementFails(c) \/ DeadlockVictim(c)

\* A request that has started runs on (Go schedules its goroutine), and the
\* database resolves deadlocks; nobody has to make a request.
Fairness == \A c \in Calls : WF_vars(Step(c)) /\ WF_vars(DeadlockVictim(c))

Spec == Init /\ [][Next]_vars /\ Fairness

------------------------------------------------------------------------------
TypeOK ==
  /\ plugins \in SUBSET Uids /\ refers \in [Uids -> Int]
  /\ instUid \in [Tenants -> Uids \cup {None}]
  /\ instId \in [Tenants -> Calls \cup Tenants \cup {None}]
  /\ declarations \in SUBSET Uids /\ runtimes \in SUBSET Uids /\ missed \in SUBSET Uids
  /\ pluginLock \in [Uids -> Calls \cup {None}]
  /\ declLock \in [Uids -> Calls \cup {None}]
  /\ instLock \in [Tenants -> Calls \cup {None}]
  /\ req \in [Calls -> Request \cup {NoRequest}]
  /\ pc \in [Calls -> PCs]
  /\ found \in SUBSET Calls
  /\ cnt \in [Calls -> Int] /\ cntOld \in [Calls -> Int]

\* The count is exact: an installed version has its plugin row, its refers is the
\* number of tenants that have it installed, and its declaration row exists
\* (unless remote), although another tenant's uninstall or upgrade may be deleting
\* those rows at the same time.  The one exception is a version to which an
\* upgrade was committed after its row had gone (IncNew found nothing to update);
\* its row too never counts more references than there are installations, and
\* never stays with none (atomic.go, Refers).
RefersExact ==
  /\ \A u \in Uids \ missed :
       /\ (u \in plugins) <=> (Users(u) # {})
       /\ u \in plugins => refers[u] = Cardinality(Users(u))
       /\ u \in plugins \ Remote => u \in declarations
  /\ \A u \in plugins : 1 <= refers[u] /\ refers[u] <= Cardinality(Users(u))

\* Every request that has started returns: rows are locked in different orders
\* by the three operations, and a deadlock is resolved by a rollback.
RequestsReturn == <>[](\A c \in Calls : pc[c] \in {"idle", "done"})

\* DeletePluginResponse: refers at 0 "means the whole plugin has been
\* uninstalled, not just the installation": the plugin row, which a step deletes,
\* is no longer installed for any tenant after that step.
DeletedMeansUninstalled ==
  [][\A u \in plugins \ plugins' : \A t \in Tenants : instUid'[t] # u]_vars
==============================================================================
