------------------------- MODULE InstallationsProofs -------------------------
(***************************************************************************)
(* Proofs about Installations: the count of references is exact for every  *)
(* version no upgrade has missed, and never too high, for any numbers of   *)
(* requests, tenants and versions.                                         *)
(***************************************************************************)
EXTENDS Installations, FiniteSetTheorems, TLAPS

------------------------------------------------------------------------------
(* The inductive invariant *)

\* Which statements belong to which operation.
InstallPCs   == {"precheck", "insert", "lockPlugin", "checkInst", "ensure", "createInst", "commit"}
UninstallPCs == {"precheck", "lockInst", "lockPlugin", "dropRows", "commit"}
UpgradePCs   == {"lockInst", "readNew", "createNew", "decOld", "dropOld", "incNew", "ensure",
                 "commit"}

Shape(c) ==
  \/ pc[c] \in {"idle", "done"} /\ c \notin found
  \/ req[c] \in Request /\ req[c].op = "install" /\ pc[c] \in InstallPCs
  \/ req[c] \in Request /\ req[c].op = "uninstall" /\ pc[c] \in UninstallPCs
  \/ /\ req[c] \in Request /\ req[c].op = "upgrade" /\ pc[c] \in UpgradePCs
     /\ req[c].old \in Uids \ {req[c].uid}

\* The references a row counts, as a transaction sees them: none if there is no row.
Row(u) == IF u \in plugins THEN refers[u] ELSE 0

\* What a transaction has locked at each statement, and what it knows of these rows.
HoldInstall(c) ==
  LET u == req[c].uid  t == req[c].tenant IN
  /\ pc[c] \in {"precheck", "insert"} => c \notin found
  /\ pc[c] \in {"checkInst", "ensure", "createInst", "commit"} => c \in found
  /\ c \in found => pluginLock[u] = c
  /\ pc[c] \in {"checkInst", "ensure"} => cnt[c] = Row(u)
  /\ pc[c] \in {"createInst", "commit"} => cnt[c] = Row(u) + 1
  /\ pc[c] = "commit" => instLock[t] = c /\ instUid[t] = None

\* An uninstall that finds no row of an installed version uninstalls a missed one.
HoldUninstall(c) ==
  LET u == req[c].uid  t == req[c].tenant IN
  /\ pc[c] \in {"precheck", "lockInst", "lockPlugin"} => c \notin found
  /\ pc[c] \in {"lockPlugin", "dropRows", "commit"} => instLock[t] = c /\ instUid[t] = u
  /\ c \in found => pluginLock[u] = c /\ u \in plugins
  /\ c \in found /\ pc[c] = "dropRows" => cnt[c] = refers[u]
  /\ c \in found /\ pc[c] = "commit" => cnt[c] = refers[u] - 1
  /\ c \notin found /\ pc[c] \in {"dropRows", "commit"} => u \in missed

HoldUpgrade(c) ==
  LET u == req[c].uid  v == req[c].old  t == req[c].tenant IN
  /\ pc[c] \in {"lockInst", "readNew", "createNew"} => c \notin found
  /\ pc[c] # "lockInst" => instLock[t] = c /\ instUid[t] = v
  /\ c \in found => pluginLock[u] = c
  /\ c \in found /\ pc[c] \in {"ensure", "commit"} => cnt[c] = Row(u) + 1
  /\ pc[c] \in {"dropOld", "incNew", "ensure", "commit"} =>
       pluginLock[v] = c /\ v \in plugins /\ cntOld[c] = refers[v] - 1

Holds(c) ==
  pc[c] \notin {"idle", "done"} =>
    /\ req[c].op = "install" => HoldInstall(c)
    /\ req[c].op = "uninstall" => HoldUninstall(c)
    /\ req[c].op = "upgrade" => HoldUpgrade(c)

\* The tenants whose uninstall of u has found no row of it and will not count down.
Leaving(u) ==
  {t \in Tenants : \E c \in Calls :
     /\ pc[c] \in {"dropRows", "commit"} /\ c \notin found
     /\ req[c].op = "uninstall" /\ req[c].uid = u /\ req[c].tenant = t}

\* The count of a version no upgrade has missed is exact.  Any row counts at least
\* one reference, at most the installations that will count down when they go, and
\* has its declaration.
Counted(u) ==
  /\ u \notin missed =>
       /\ (u \in plugins) <=> (Users(u) # {})
       /\ Row(u) = Cardinality(Users(u))
  /\ u \in plugins => 1 <= refers[u] /\ refers[u] <= Cardinality(Users(u) \ Leaving(u))
  /\ u \in plugins \ Remote => u \in declarations

IInv ==
  /\ TypeOK
  /\ \A c \in Calls : Shape(c) /\ Holds(c)
  /\ \A u \in Uids : Counted(u)

------------------------------------------------------------------------------
(* Types *)

\* The types of a step that changes the tables and the locks, and returns.
TypeTables ==
  /\ plugins \in SUBSET Uids /\ refers \in [Uids -> Int]
  /\ instUid \in [Tenants -> Uids \cup {None}]
  /\ instId \in [Tenants -> Calls \cup Tenants \cup {None}]
  /\ declarations \in SUBSET Uids /\ runtimes \in SUBSET Uids /\ missed \in SUBSET Uids
TypeLocks ==
  /\ pluginLock \in [Uids -> Calls \cup {None}]
  /\ declLock \in [Uids -> Calls \cup {None}]
  /\ instLock \in [Tenants -> Calls \cup {None}]
TypeLocal ==
  /\ req \in [Calls -> Request \cup {NoRequest}]
  /\ pc \in [Calls -> PCs]
  /\ found \in SUBSET Calls
  /\ cnt \in [Calls -> Int] /\ cntOld \in [Calls -> Int]

\* The fields of a request's arguments.
LEMMA RequestFields ==
  ASSUME NEW r \in Request
  PROVE  /\ r.op \in {"install", "uninstall", "upgrade"} /\ r.tenant \in Tenants /\ r.uid \in Uids
         /\ r.old \in Uids \cup {None} /\ r.id \in Calls \cup Tenants \cup {None}
BY DEF Request

\* tx.Rollback and the end of tx.Commit leave the locks with their types.
LEMMA ReleaseType ==
  ASSUME TypeLocks, NEW c \in Calls, Release(c)
  PROVE  TypeLocks'
BY DEF TypeLocks, Release

\* So does the end of a call, with its local variables.
LEMMA ReturnType ==
  ASSUME TypeLocal, NEW c \in Calls, Return(c)
  PROVE  TypeLocal'
BY DEF TypeLocal, Return, Goto, PCs

\* The type invariant, by tables, locks and locals.
LEMMA TypeParts == TypeOK <=> TypeTables /\ TypeLocks /\ TypeLocal
BY DEF TypeOK, TypeTables, TypeLocks, TypeLocal

\* The same of the next state.
LEMMA TypePartsPrimed == TypeOK' <=> TypeTables' /\ TypeLocks' /\ TypeLocal'
BY DEF TypeOK, TypeTables, TypeLocks, TypeLocal

\* A rollback keeps the types.
LEMMA RollbackType ==
  ASSUME TypeOK, NEW c \in Calls, Rollback(c)
  PROVE  TypeOK'
<1>1. TypeTables'
  BY TypeParts DEF Rollback, tables, TypeTables
<1>2. TypeLocks' /\ TypeLocal'
  BY TypeParts, ReleaseType, ReturnType DEF Rollback
<1> QED
  BY <1>1, <1>2, TypePartsPrimed

\* The arguments of a call that is not at rest are a request.
LEMMA ShapeRequest ==
  ASSUME NEW c \in Calls, Shape(c), pc[c] \notin {"idle", "done"}
  PROVE  /\ req[c] \in Request
         /\ req[c].op \in {"install", "uninstall", "upgrade"} /\ req[c].tenant \in Tenants
         /\ req[c].uid \in Uids /\ req[c].old \in Uids \cup {None}
         /\ req[c].op = "upgrade" => req[c].old \in Uids /\ req[c].old # req[c].uid
         /\ req[c].op = "install" => pc[c] \in InstallPCs
         /\ req[c].op = "uninstall" => pc[c] \in UninstallPCs
         /\ req[c].op = "upgrade" => pc[c] \in UpgradePCs
<1>1. req[c] \in Request
  BY DEF Shape
<1> QED
  BY <1>1, RequestFields DEF Shape

\* Every step keeps the types, of calls whose statements and arguments agree.
LEMMA TypeStep ==
  ASSUME TypeOK, NEW c \in Calls, Shape(c),
         Begin(c) \/ Step(c) \/ StatementFails(c) \/ DeadlockVictim(c)
  PROVE  TypeOK'
<1> USE TypeParts, TypePartsPrimed, ShapeRequest
<1>0. TypeTables /\ TypeLocks /\ TypeLocal
  OBVIOUS
<1>1. CASE BeginInstall(c)
  <2>1. TypeTables'
    BY <1>1, <1>0 DEF BeginInstall, TypeTables
  <2>2. TypeLocks'
    BY <1>1, <1>0 DEF BeginInstall, TypeLocks, locks
  <2>3. TypeLocal'
    BY <1>1, <1>0 DEF BeginInstall, TypeLocal, local, Goto, PCs, Request
  <2> QED
    BY <2>1, <2>2, <2>3
<1>2. CASE BeginUninstall(c)
  <2>1. TypeTables'
    BY <1>2, <1>0 DEF BeginUninstall, TypeTables, tables
  <2>2. TypeLocks'
    BY <1>2, <1>0 DEF BeginUninstall, TypeLocks, locks
  <2>3. TypeLocal'
    BY <1>2, <1>0 DEF BeginUninstall, TypeLocal, TypeTables, local, Goto, PCs, Request
  <2> QED
    BY <2>1, <2>2, <2>3
<1>3. CASE BeginUpgrade(c)
  <2>1. TypeTables'
    BY <1>3, <1>0 DEF BeginUpgrade, TypeTables
  <2>2. TypeLocks'
    BY <1>3, <1>0 DEF BeginUpgrade, TypeLocks, locks
  <2>3. TypeLocal'
    BY <1>3, <1>0 DEF BeginUpgrade, TypeLocal, TypeTables, local, Goto, PCs, Request
  <2> QED
    BY <2>1, <2>2, <2>3
<1>4. CASE PreCheck(c)
  <2>1. TypeTables' /\ TypeLocks'
    BY <1>4, <1>0 DEF PreCheck, TypeTables, TypeLocks, tables, locks
  <2>2. ASSUME Goto(c, "insert") \/ Goto(c, "lockInst"), UNCHANGED <<req, local>> PROVE TypeLocal'
    BY <2>2, <1>0 DEF TypeLocal, local, Goto, PCs
  <2>3. TypeLocal'
    BY <2>2, <1>4, <1>0, ReturnType DEF PreCheck
  <2> QED
    BY <2>1, <2>3
<1>5. CASE Rollback(c)
  BY <1>5, RollbackType
<1>6. CASE InsertPlugin(c)
  <2>1. TypeTables'
    BY <1>6, <1>0 DEF InsertPlugin, TypeTables, tables
  <2>2. TypeLocks'
    BY <1>6, <1>0 DEF InsertPlugin, TypeLocks
  <2>3. TypeLocal'
    BY <1>6, <1>0 DEF InsertPlugin, TypeLocal, Goto, PCs
  <2> QED
    BY <2>1, <2>2, <2>3
<1>7. CASE LockPlugin(c) /\ ~Rollback(c)
  <2>0. req[c].uid \in Uids
    BY <1>7 DEF LockPlugin
  <2>1. TypeTables'
    BY <1>7, <1>0 DEF LockPlugin, TypeTables, tables
  <2>2. TypeLocks'
    BY <1>7, <1>0 DEF LockPlugin, TypeLocks, locks
  <2>3. TypeLocal'
    BY <1>7, <1>0, <2>0 DEF LockPlugin, TypeLocal, TypeTables, local, Goto, PCs
  <2> QED
    BY <2>1, <2>2, <2>3
<1>8. CASE CheckInstallation(c) /\ ~Rollback(c)
  <2>1. TypeTables' /\ TypeLocks'
    BY <1>8, <1>0 DEF CheckInstallation, TypeTables, TypeLocks, tables, locks
  <2>3. TypeLocal'
    BY <1>8, <1>0 DEF CheckInstallation, TypeLocal, local, Goto, PCs
  <2> QED
    BY <2>1, <2>3
<1>9. CASE EnsureDeclaration(c)
  <2>1. TypeTables'
    BY <1>9, <1>0 DEF EnsureDeclaration, TypeTables, tables
  <2>2. TypeLocks'
    BY <1>9, <1>0 DEF EnsureDeclaration, TypeLocks
  <2>3. TypeLocal'
    BY <1>9, <1>0 DEF EnsureDeclaration, TypeLocal, Goto, PCs
  <2> QED
    BY <2>1, <2>2, <2>3
<1>10. CASE CreateInstallation(c) /\ ~Rollback(c)
  <2>1. TypeTables' /\ TypeLocks'
    BY <1>10, <1>0 DEF CreateInstallation, TypeTables, TypeLocks, tables
  <2>3. TypeLocal'
    BY <1>10, <1>0 DEF CreateInstallation, TypeLocal, local, Goto, PCs
  <2> QED
    BY <2>1, <2>3
<1>11. CASE LockInstallation(c) /\ ~Rollback(c)
  <2>1. TypeTables' /\ TypeLocks'
    BY <1>11, <1>0 DEF LockInstallation, TypeTables, TypeLocks, tables
  <2>3. TypeLocal'
    BY <1>11, <1>0 DEF LockInstallation, TypeLocal, local, Goto, PCs
  <2> QED
    BY <2>1, <2>3
<1>12. CASE DropRows(c)
  <2>1. TypeTables' /\ TypeLocks'
    BY <1>12, <1>0 DEF DropRows, DeleteDeclaration, TypeTables, TypeLocks, tables
  <2>3. TypeLocal'
    BY <1>12, <1>0 DEF DropRows, TypeLocal, Goto, PCs
  <2> QED
    BY <2>1, <2>3
<1>13. CASE ReadNew(c)
  <2>1. TypeTables' /\ TypeLocks'
    BY <1>13, <1>0 DEF ReadNew, TypeTables, TypeLocks, tables, locks
  <2>3. TypeLocal'
    BY <1>13, <1>0 DEF ReadNew, TypeLocal, local, Goto, PCs
  <2> QED
    BY <2>1, <2>3
<1>14. CASE CreateNew(c) /\ ~Rollback(c)
  <2>1. TypeTables' /\ TypeLocks'
    BY <1>14, <1>0 DEF CreateNew, TypeTables, TypeLocks, tables
  <2>3. TypeLocal'
    BY <1>14, <1>0 DEF CreateNew, TypeLocal, Goto, PCs
  <2> QED
    BY <2>1, <2>3
<1>15. CASE DecOld(c) /\ ~Rollback(c)
  <2>0. req[c].old \in plugins
    BY <1>15 DEF DecOld
  <2>1. TypeTables' /\ TypeLocks'
    BY <1>15, <1>0 DEF DecOld, TypeTables, TypeLocks, tables
  <2>2. refers[req[c].old] - 1 \in Int
    BY <1>0, <2>0 DEF TypeTables
  <2>3. TypeLocal'
    BY <1>15, <1>0, <2>2 DEF DecOld, TypeLocal, Goto, PCs
  <2> QED
    BY <2>1, <2>3
<1>16. CASE DropOld(c)
  <2>1. TypeTables' /\ TypeLocks'
    BY <1>16, <1>0 DEF DropOld, DeleteDeclaration, TypeTables, TypeLocks, tables
  <2>3. TypeLocal'
    BY <1>16, <1>0 DEF DropOld, TypeLocal, local, Goto, PCs
  <2> QED
    BY <2>1, <2>3
<1>17. CASE IncNew(c)
  <2>0. req[c].uid \in Uids
    BY <1>17 DEF IncNew
  <2>1. TypeTables' /\ TypeLocks'
    BY <1>17, <1>0 DEF IncNew, TypeTables, TypeLocks, tables
  <2>2. Row(req[c].uid) + 1 \in Int
    BY <1>0, <2>0 DEF TypeTables, Row
  <2>3. TypeLocal'
    BY <1>17, <1>0, <2>2 DEF IncNew, Row, TypeLocal, Goto, PCs
  <2> QED
    BY <2>1, <2>3
<1>18. CASE Commit(c)
  <2>0. Release(c) /\ Return(c) /\ pc[c] = "commit"
    BY <1>18 DEF Commit, CommitInstall, CommitUninstall, CommitUpgrade
  <2>1. TypeLocks' /\ TypeLocal'
    BY <1>0, <2>0, ReleaseType, ReturnType
  <2>2. /\ req[c].uid \in Uids /\ req[c].tenant \in Tenants /\ cnt[c] \in Int
        /\ cntOld[c] \in Int /\ (req[c].op = "upgrade" => req[c].old \in Uids)
    BY <1>0, <2>0 DEF TypeLocal
  <2>3. ASSUME CommitInstall(c) PROVE TypeTables'
    BY <2>3, <2>2, <1>0 DEF CommitInstall, TypeTables
  <2>4. ASSUME CommitUninstall(c) PROVE TypeTables'
    BY <2>4, <2>2, <1>0 DEF CommitUninstall, Unreferenced, TypeTables
  <2>5. ASSUME CommitUpgrade(c) PROVE TypeTables'
    <3>1. plugins' \subseteq Uids /\ declarations' \subseteq Uids /\ runtimes' \subseteq Uids
      BY <2>5, <2>2, <1>0 DEF CommitUpgrade, TypeTables
    <3>2. refers' \in [Uids -> Int] /\ missed' \subseteq Uids
      BY <2>5, <2>2, <1>0 DEF CommitUpgrade, TypeTables
    <3>3. instUid' \in [Tenants -> Uids \cup {None}] /\ instId' = instId
      BY <2>5, <2>2, <1>0 DEF CommitUpgrade, TypeTables
    <3> QED
      BY <3>1, <3>2, <3>3, <1>0 DEF TypeTables
  <2>6. TypeTables'
    BY <2>3, <2>4, <2>5, <1>18 DEF Commit
  <2> QED
    BY <2>1, <2>6
<1> QED
  BY <1>1, <1>2, <1>3, <1>4, <1>5, <1>6, <1>7, <1>8, <1>9, <1>10, <1>11, <1>12, <1>13, <1>14,
     <1>15, <1>16, <1>17, <1>18 DEF Begin, Step, StatementFails, DeadlockVictim

------------------------------------------------------------------------------
(* Locked rows: a step changes no row another transaction has locked *)

\* What a step of c leaves alone of the calls other than c.
Frame(c) ==
  /\ \A d \in Calls \ {c} :
       /\ pc'[d] = pc[d] /\ req'[d] = req[d] /\ (d \in found' <=> d \in found)
       /\ cnt'[d] = cnt[d] /\ cntOld'[d] = cntOld[d]
  /\ \A d \in Calls \ {c}, u \in Uids : pluginLock[u] = d =>
       pluginLock'[u] = d /\ (u \in plugins' <=> u \in plugins) /\ refers'[u] = refers[u]
  /\ \A d \in Calls \ {c}, t \in Tenants : instLock[t] = d =>
       instLock'[t] = d /\ instUid'[t] = instUid[t]
  /\ missed \subseteq missed'

\* What a transaction knows of its locked rows survives the steps of the others.
LEMMA FrameKeeps ==
  ASSUME TypeOK, NEW c \in Calls, Frame(c), NEW d \in Calls, d # c, Shape(d), Holds(d)
  PROVE  Shape(d)' /\ Holds(d)'
<1>0. /\ pc'[d] = pc[d] /\ req'[d] = req[d] /\ (d \in found' <=> d \in found)
      /\ cnt'[d] = cnt[d] /\ cntOld'[d] = cntOld[d] /\ missed \subseteq missed'
  BY DEF Frame
<1>1. Shape(d)'
  BY <1>0 DEF Shape
<1>2. SUFFICES ASSUME pc[d] \notin {"idle", "done"} PROVE Holds(d)'
  BY <1>0, <1>1 DEF Holds
<1> DEFINE u == req[d].uid
           v == req[d].old
           t == req[d].tenant
<1>3. u \in Uids /\ t \in Tenants /\ v \in Uids \cup {None}
      /\ (req[d].op = "upgrade" => v \in Uids)
  BY <1>2, ShapeRequest
<1>4. pluginLock[u] = d =>
        pluginLock'[u] = d /\ (u \in plugins' <=> u \in plugins) /\ refers'[u] = refers[u]
  BY <1>3 DEF Frame
<1>5. v \in Uids /\ pluginLock[v] = d =>
        pluginLock'[v] = d /\ (v \in plugins' <=> v \in plugins) /\ refers'[v] = refers[v]
  BY DEF Frame
<1>6. instLock[t] = d => instLock'[t] = d /\ instUid'[t] = instUid[t]
  BY <1>3 DEF Frame
<1> HIDE DEF u, v, t
<1>7. pluginLock[u] = d => Row(u)' = Row(u)
  <2>1. u' = u
    BY <1>0 DEF u
  <2> QED
    BY <1>4, <2>1 DEF Row
<1>8. ASSUME req[d].op = "install" PROVE HoldInstall(d)'
  <2>1. HoldInstall(d)
    BY <1>2, <1>8 DEF Holds
  <2> QED
    BY <1>0, <1>4, <1>6, <1>7, <2>1 DEF HoldInstall, Row, u, t
<1>9. ASSUME req[d].op = "uninstall" PROVE HoldUninstall(d)'
  <2>1. HoldUninstall(d)
    BY <1>2, <1>9 DEF Holds
  <2> QED
    BY <1>0, <1>4, <1>6, <2>1 DEF HoldUninstall, u, t
<1>10. ASSUME req[d].op = "upgrade" PROVE HoldUpgrade(d)'
  <2>1. HoldUpgrade(d)
    BY <1>2, <1>10 DEF Holds
  <2> QED
    BY <1>0, <1>3, <1>4, <1>5, <1>6, <1>10, <2>1 DEF HoldUpgrade, Row, u, t, v
<1> QED
  BY <1>0, <1>8, <1>9, <1>10 DEF Holds

\* Ending the transaction of c, without changing a table, is no concern of the others.
LEMMA ReturnFrame ==
  ASSUME TypeOK, NEW c \in Calls, Return(c), Release(c) \/ UNCHANGED locks, UNCHANGED tables
  PROVE  Frame(c)
BY DEF TypeOK, Frame, Return, Release, locks, tables, Goto

\* A commit writes the rows its transaction has locked.
LEMMA CommitFrame ==
  ASSUME TypeOK, NEW c \in Calls, Shape(c), Holds(c), Commit(c)
  PROVE  Frame(c)
<1> DEFINE u == req[c].uid
           v == req[c].old
           t == req[c].tenant
<1>0. Release(c) /\ Return(c) /\ pc[c] = "commit"
  BY DEF Commit, CommitInstall, CommitUninstall, CommitUpgrade
<1>1. u \in Uids /\ t \in Tenants /\ (req[c].op = "upgrade" => v \in Uids)
  BY <1>0, ShapeRequest
<1>2. instLock[t] = c
  BY <1>0 DEF Commit, CommitInstall, CommitUninstall, CommitUpgrade, Holds, HoldInstall,
              HoldUninstall, HoldUpgrade
<1>3. \A x \in Tenants : x # t => instUid'[x] = instUid[x]
  BY <1>1 DEF Commit, CommitInstall, CommitUninstall, CommitUpgrade, TypeOK
<1>4. missed \subseteq missed'
  BY DEF Commit, CommitInstall, CommitUninstall, CommitUpgrade
<1>5. ASSUME NEW w \in Uids, pluginLock[w] # c
      PROVE  (w \in plugins' <=> w \in plugins) /\ refers'[w] = refers[w]
  <2>1. CASE CommitInstall(c)
    <3>1. w # u
      BY <1>0, <1>5, <2>1 DEF CommitInstall, Holds, HoldInstall
    <3> QED
      BY <2>1, <3>1, <1>1 DEF CommitInstall, TypeOK
  <2>2. CASE CommitUninstall(c)
    <3>1. c \in found => w # u
      BY <1>0, <1>5, <2>2 DEF CommitUninstall, Holds, HoldUninstall
    <3> QED
      BY <2>2, <3>1, <1>1 DEF CommitUninstall, Unreferenced, TypeOK
  <2>3. CASE CommitUpgrade(c)
    <3>1. (c \in found => w # u) /\ w # v
      BY <1>0, <1>5, <2>3 DEF CommitUpgrade, Holds, HoldUpgrade
    <3> QED
      BY <2>3, <3>1, <1>1 DEF CommitUpgrade, TypeOK
  <2> QED
    BY <2>1, <2>2, <2>3 DEF Commit
<1>6. \A d \in Calls \ {c} :
        /\ pc'[d] = pc[d] /\ req'[d] = req[d] /\ (d \in found' <=> d \in found)
        /\ cnt'[d] = cnt[d] /\ cntOld'[d] = cntOld[d]
  BY <1>0 DEF Return, Goto, TypeOK
<1>7. /\ \A w \in Uids : pluginLock[w] # c => pluginLock'[w] = pluginLock[w]
      /\ \A x \in Tenants : instLock[x] # c => instLock'[x] = instLock[x]
  BY <1>0 DEF Release, TypeOK
<1>8. \A x \in Tenants : instLock[x] # c => instUid'[x] = instUid[x]
  BY <1>2, <1>3
<1> QED
  BY <1>4, <1>5, <1>6, <1>7, <1>8 DEF Frame

\* Every step of c leaves the rows other transactions have locked, and their local
\* variables, as they are.
LEMMA FrameStep ==
  ASSUME TypeOK, NEW c \in Calls, Shape(c), Holds(c),
         Begin(c) \/ Step(c) \/ StatementFails(c) \/ DeadlockVictim(c)
  PROVE  Frame(c)
<1> USE ConstantsAssumption DEF TypeOK, Frame
<1>1. CASE BeginInstall(c)
  BY <1>1 DEF BeginInstall, tables, locks, local, Goto, Free
<1>2. CASE BeginUninstall(c)
  BY <1>2 DEF BeginUninstall, tables, locks, local, Goto, Free
<1>3. CASE BeginUpgrade(c)
  BY <1>3 DEF BeginUpgrade, tables, locks, local, Goto, Free
<1>4. CASE PreCheck(c)
  <2>1. CASE Return(c)
    BY <1>4, <2>1, ReturnFrame DEF PreCheck
  <2>2. CASE ~Return(c)
    BY <1>4, <2>2 DEF PreCheck, tables, locks, local, Goto
  <2> QED
    BY <2>1, <2>2
<1>5. CASE Rollback(c)
  BY <1>5, ReturnFrame DEF Rollback
<1>6. CASE InsertPlugin(c)
  BY <1>6 DEF InsertPlugin, tables, locks, local, Goto, Free
<1>7. CASE LockPlugin(c) /\ ~Rollback(c)
  BY <1>7 DEF LockPlugin, tables, locks, local, Goto, Free
<1>8. CASE CheckInstallation(c) /\ ~Rollback(c)
  BY <1>8 DEF CheckInstallation, tables, locks, local, Goto, Free
<1>9. CASE EnsureDeclaration(c)
  BY <1>9 DEF EnsureDeclaration, tables, locks, local, Goto, Free
<1>10. CASE CreateInstallation(c) /\ ~Rollback(c)
  BY <1>10 DEF CreateInstallation, tables, locks, local, Goto, Free
<1>11. CASE LockInstallation(c) /\ ~Rollback(c)
  BY <1>11 DEF LockInstallation, tables, locks, local, Goto, Free
<1>12. CASE DropRows(c)
  BY <1>12 DEF DropRows, tables, locks, local, Goto, Free
<1>13. CASE ReadNew(c)
  BY <1>13 DEF ReadNew, tables, locks, local, Goto, Free
<1>14. CASE CreateNew(c) /\ ~Rollback(c)
  BY <1>14 DEF CreateNew, tables, locks, local, Goto, Free
<1>15. CASE DecOld(c) /\ ~Rollback(c)
  BY <1>15 DEF DecOld, tables, locks, local, Goto, Free
<1>16. CASE DropOld(c)
  BY <1>16 DEF DropOld, tables, locks, local, Goto, Free
<1>17. CASE IncNew(c)
  BY <1>17 DEF IncNew, tables, locks, local, Goto, Free
<1>18. CASE Commit(c)
  BY <1>18, CommitFrame
<1> HIDE DEF TypeOK, Frame
<1> QED
  BY <1>1, <1>2, <1>3, <1>4, <1>5, <1>6, <1>7, <1>8, <1>9, <1>10, <1>11, <1>12,
     <1>13, <1>14, <1>15, <1>16, <1>17, <1>18 DEF Begin, Step, StatementFails, DeadlockVictim

\* What c itself knows after its step.
LEMMA OwnStep ==
  ASSUME IInv, NEW c \in Calls,
         Begin(c) \/ Step(c) \/ StatementFails(c) \/ DeadlockVictim(c)
  PROVE  Shape(c)' /\ Holds(c)'
<1>0. TypeOK /\ Shape(c) /\ Holds(c)
  BY DEF IInv
<1>1. ASSUME Return(c) PROVE Shape(c)' /\ Holds(c)'
  BY <1>0, <1>1 DEF Return, Goto, Shape, Holds, TypeOK
<1>2. CASE Begin(c)
  <2>1. c \notin found /\ UNCHANGED <<locks, local>>
    BY <1>0, <1>2 DEF Begin, BeginInstall, BeginUninstall, BeginUpgrade, Shape, InstallPCs,
                      UninstallPCs, UpgradePCs
  <2>2. CASE BeginInstall(c)
    BY <1>0, <2>1, <2>2 DEF BeginInstall, Shape, Holds, HoldInstall, Goto, TypeOK, InstallPCs,
                            Request, locks, local
  <2>3. CASE BeginUninstall(c)
    BY <1>0, <2>1, <2>3 DEF BeginUninstall, Shape, Holds, HoldUninstall, Goto, TypeOK, UninstallPCs,
                            Request, locks, local
  <2>4. CASE BeginUpgrade(c)
    BY <1>0, <2>1, <2>4 DEF BeginUpgrade, Shape, Holds, HoldUpgrade, Goto, TypeOK, UpgradePCs,
                            Request, locks, local
  <2> QED
    BY <1>2, <2>2, <2>3, <2>4 DEF Begin
<1> USE ShapeRequest, <1>0 DEF tables, locks, local, Goto, Free, TypeOK, Shape, Holds, Row
<1>3. CASE PreCheck(c) /\ ~Return(c)
  <2>0. pc[c] \notin {"idle", "done"}
    BY <1>3 DEF PreCheck
  <2>1. CASE req[c].op = "install"
    BY <1>3, <2>0, <2>1 DEF PreCheck, HoldInstall, InstallPCs
  <2>2. CASE req[c].op = "uninstall"
    BY <1>3, <2>0, <2>2 DEF PreCheck, HoldUninstall, UninstallPCs
  <2> QED
    BY <1>3, <2>0, <2>1, <2>2 DEF PreCheck, InstallPCs, UninstallPCs, UpgradePCs
<1>4. CASE InsertPlugin(c)
  <2>0. pc[c] \notin {"idle", "done"}
    BY <1>4 DEF InsertPlugin
  <2>1. CASE req[c].op = "install"
    BY <1>4, <2>0, <2>1 DEF InsertPlugin, HoldInstall, InstallPCs
  <2> QED
    BY <1>4, <2>0, <2>1 DEF InsertPlugin, InstallPCs, UninstallPCs, UpgradePCs
<1>5. CASE LockPlugin(c) /\ ~Rollback(c)
  <2>0. pc[c] \notin {"idle", "done"}
    BY <1>5 DEF LockPlugin
  <2>1. CASE req[c].op = "install"
    BY <1>5, <2>0, <2>1 DEF LockPlugin, HoldInstall, InstallPCs
  <2>3. req[c].op = "uninstall" /\ req[c].uid \notin plugins => req[c].uid \in missed
    <3>1. ASSUME req[c].op = "uninstall" PROVE req[c].uid \in Uids /\ req[c].tenant \in Users(req[c].uid)
      BY <1>5, <2>0, <3>1 DEF LockPlugin, HoldUninstall, Users
    <3> QED
      BY <3>1 DEF IInv, Counted
  <2>2. CASE req[c].op = "uninstall"
    BY <1>5, <2>0, <2>2, <2>3 DEF LockPlugin, HoldUninstall, UninstallPCs
  <2> QED
    BY <1>5, <2>0, <2>1, <2>2 DEF LockPlugin, InstallPCs, UninstallPCs, UpgradePCs
<1>6. CASE CheckInstallation(c) /\ ~Rollback(c)
  <2>0. pc[c] \notin {"idle", "done"}
    BY <1>6 DEF CheckInstallation
  <2>1. CASE req[c].op = "install"
    BY <1>6, <2>0, <2>1 DEF CheckInstallation, HoldInstall, InstallPCs
  <2> QED
    BY <1>6, <2>0, <2>1 DEF CheckInstallation, InstallPCs, UninstallPCs, UpgradePCs
<1>7. CASE EnsureDeclaration(c)
  <2>0. pc[c] \notin {"idle", "done"}
    BY <1>7 DEF EnsureDeclaration
  <2>1. CASE req[c].op = "install"
    BY <1>7, <2>0, <2>1 DEF EnsureDeclaration, HoldInstall, InstallPCs
  <2>2. CASE req[c].op = "upgrade"
    BY <1>7, <2>0, <2>2 DEF EnsureDeclaration, HoldUpgrade, UpgradePCs
  <2> QED
    BY <1>7, <2>0, <2>1, <2>2 DEF EnsureDeclaration, InstallPCs, UninstallPCs, UpgradePCs
<1>8. CASE CreateInstallation(c) /\ ~Rollback(c)
  <2>0. pc[c] \notin {"idle", "done"}
    BY <1>8 DEF CreateInstallation
  <2>1. CASE req[c].op = "install"
    BY <1>8, <2>0, <2>1 DEF CreateInstallation, HoldInstall, InstallPCs
  <2> QED
    BY <1>8, <2>0, <2>1 DEF CreateInstallation, InstallPCs, UninstallPCs, UpgradePCs
<1>9. CASE LockInstallation(c) /\ ~Rollback(c)
  <2>0. pc[c] \notin {"idle", "done"}
    BY <1>9 DEF LockInstallation
  <2>1. CASE req[c].op = "uninstall"
    BY <1>9, <2>0, <2>1 DEF LockInstallation, HoldUninstall, UninstallPCs, Matches
  <2>2. CASE req[c].op = "upgrade"
    BY <1>9, <2>0, <2>2 DEF LockInstallation, HoldUpgrade, UpgradePCs, Matches
  <2> QED
    BY <1>9, <2>0, <2>1, <2>2 DEF LockInstallation, InstallPCs, UninstallPCs, UpgradePCs
<1>10. CASE DropRows(c)
  <2>0. pc[c] \notin {"idle", "done"}
    BY <1>10 DEF DropRows
  <2>1. CASE req[c].op = "uninstall"
    BY <1>10, <2>0, <2>1 DEF DropRows, HoldUninstall, UninstallPCs
  <2> QED
    BY <1>10, <2>0, <2>1 DEF DropRows, InstallPCs, UninstallPCs, UpgradePCs
<1>11. CASE ReadNew(c)
  <2>0. pc[c] \notin {"idle", "done"}
    BY <1>11 DEF ReadNew
  <2>1. CASE req[c].op = "upgrade"
    BY <1>11, <2>0, <2>1 DEF ReadNew, HoldUpgrade, UpgradePCs
  <2> QED
    BY <1>11, <2>0, <2>1 DEF ReadNew, InstallPCs, UninstallPCs, UpgradePCs
<1>12. CASE CreateNew(c) /\ ~Rollback(c)
  <2>0. pc[c] \notin {"idle", "done"}
    BY <1>12 DEF CreateNew
  <2>1. CASE req[c].op = "upgrade"
    BY <1>12, <2>0, <2>1 DEF CreateNew, HoldUpgrade, UpgradePCs
  <2> QED
    BY <1>12, <2>0, <2>1 DEF CreateNew, InstallPCs, UninstallPCs, UpgradePCs
<1>13. CASE DecOld(c) /\ ~Rollback(c)
  <2>0. pc[c] \notin {"idle", "done"}
    BY <1>13 DEF DecOld
  <2>1. CASE req[c].op = "upgrade"
    BY <1>13, <2>0, <2>1 DEF DecOld, HoldUpgrade, UpgradePCs
  <2> QED
    BY <1>13, <2>0, <2>1 DEF DecOld, InstallPCs, UninstallPCs, UpgradePCs
<1>14. CASE DropOld(c)
  <2>0. pc[c] \notin {"idle", "done"}
    BY <1>14 DEF DropOld
  <2>1. CASE req[c].op = "upgrade"
    BY <1>14, <2>0, <2>1 DEF DropOld, HoldUpgrade, UpgradePCs
  <2> QED
    BY <1>14, <2>0, <2>1 DEF DropOld, InstallPCs, UninstallPCs, UpgradePCs
<1>15. CASE IncNew(c)
  <2>0. pc[c] \notin {"idle", "done"}
    BY <1>15 DEF IncNew
  <2>1. CASE req[c].op = "upgrade"
    BY <1>15, <2>0, <2>1 DEF IncNew, HoldUpgrade, UpgradePCs
  <2> QED
    BY <1>15, <2>0, <2>1 DEF IncNew, InstallPCs, UninstallPCs, UpgradePCs
<1> HIDE ShapeRequest DEF tables, locks, local, Goto, Free, TypeOK, Shape, Holds, Row
<1> QED
  BY <1>1, <1>2, <1>3, <1>4, <1>5, <1>6, <1>7, <1>8, <1>9, <1>10, <1>11, <1>12,
     <1>13, <1>14, <1>15 DEF Step, Commit, CommitInstall, CommitUninstall,
     CommitUpgrade, StatementFails, DeadlockVictim, Rollback

------------------------------------------------------------------------------
(* Counting *)

\* The installations of a version are finitely many.
LEMMA UsersFinite ==
  ASSUME NEW S \in SUBSET Tenants
  PROVE  /\ IsFiniteSet(S) /\ Cardinality(S) \in Nat /\ (Cardinality(S) = 0 <=> S = {})
         /\ \A T \in SUBSET S : Cardinality(T) <= Cardinality(S)
<1>1. IsFiniteSet(S)
  BY FS_Subset, ConstantsAssumption
<1>2. Cardinality(S) \in Nat /\ (Cardinality(S) = 0 <=> S = {})
  BY <1>1, FS_CardinalityType, FS_EmptySet
<1>4. \A T \in SUBSET S : Cardinality(T) <= Cardinality(S)
  BY <1>1, FS_Subset
<1> QED
  BY <1>1, <1>2, <1>4

\* One installation more or less counts as one.
LEMMA UsersCount ==
  ASSUME NEW S \in SUBSET Tenants, NEW t \in Tenants
  PROVE  /\ Cardinality(S \cup {t}) = IF t \in S THEN Cardinality(S) ELSE Cardinality(S) + 1
         /\ Cardinality(S \ {t}) = IF t \in S THEN Cardinality(S) - 1 ELSE Cardinality(S)
BY UsersFinite, FS_AddElement, FS_RemoveElement

\* No other call starts to leave by a step of c.
LEMMA LeavingShrinks ==
  ASSUME TypeOK, NEW c \in Calls, Frame(c), NEW u \in Uids,
         (/\ pc'[c] \in {"dropRows", "commit"} /\ c \notin found'
          /\ req'[c].op = "uninstall" /\ req'[c].uid = u)
         => /\ pc[c] \in {"dropRows", "commit"} /\ c \notin found
            /\ req'[c] = req[c]
  PROVE  Leaving(u)' \subseteq Leaving(u)
BY DEF Frame, Leaving

\* A version whose rows and installations a step leaves alone stays counted.
LEMMA CountedKept ==
  ASSUME TypeOK, TypeOK', NEW u \in Uids, Counted(u), u \in missed => u \in missed',
         Users(u)' = Users(u), u \in plugins' <=> u \in plugins, refers'[u] = refers[u],
         u \in declarations => u \in declarations',
         u \in plugins => Leaving(u)' \subseteq Leaving(u)
  PROVE  Counted(u)'
<1>1. Row(u)' = Row(u)
  BY DEF Row
<1>2. ASSUME u \in plugins
      PROVE  Cardinality(Users(u) \ Leaving(u)) <= Cardinality((Users(u) \ Leaving(u))')
  <2>1. Users(u) \ Leaving(u) \subseteq (Users(u) \ Leaving(u))'
    BY <1>2
  <2>2. (Users(u) \ Leaving(u))' \in SUBSET Tenants
    BY DEF Users
  <2> QED
    BY <2>1, <2>2, UsersFinite
<1>3. /\ Cardinality(Users(u) \ Leaving(u)) \in Nat /\ Cardinality((Users(u) \ Leaving(u))') \in Nat
      /\ refers[u] \in Int
  <2>1. Users(u) \ Leaving(u) \in SUBSET Tenants /\ (Users(u) \ Leaving(u))' \in SUBSET Tenants
    BY DEF Users
  <2> QED
    BY <2>1, UsersFinite DEF TypeOK
<1>4. u \notin missed' => ((u \in plugins') <=> (Users(u)' # {})) /\ Row(u)' = Cardinality(Users(u)')
  BY <1>1 DEF Counted
<1>5. u \in plugins' => 1 <= refers'[u] /\ refers'[u] <= Cardinality((Users(u) \ Leaving(u))')
  BY <1>2, <1>3 DEF Counted
<1>6. u \in plugins' \ Remote => u \in declarations'
  BY DEF Counted
<1> QED
  BY <1>4, <1>5, <1>6 DEF Counted

\* A commit lets no call start to leave, and the tenant it writes is not leaving.
LEMMA CommitLeaving ==
  ASSUME IInv, NEW c \in Calls, Commit(c), NEW u \in Uids
  PROVE  Leaving(u)' \subseteq Leaving(u) /\ req[c].tenant \notin Leaving(u)'
<1>1. TypeOK /\ Shape(c) /\ Holds(c) /\ pc[c] = "commit" /\ pc'[c] = "done"
  BY DEF IInv, Commit, CommitInstall, CommitUninstall, CommitUpgrade, Return, Goto, TypeOK
<1>2. Frame(c)
  BY <1>1, CommitFrame
<1>3. Leaving(u)' \subseteq Leaving(u)
  BY <1>1, <1>2, LeavingShrinks
<1>4. instLock[req[c].tenant] = c
  BY <1>1 DEF Commit, CommitInstall, CommitUninstall, CommitUpgrade, Holds, HoldInstall,
              HoldUninstall, HoldUpgrade
<1>5. ASSUME req[c].tenant \in Leaving(u)' PROVE FALSE
  <2>1. PICK d \in Calls : /\ pc'[d] \in {"dropRows", "commit"}
                           /\ req'[d].op = "uninstall" /\ req'[d].tenant = req[c].tenant
    BY <1>5 DEF Leaving
  <2>2. d # c
    BY <1>1, <2>1
  <2>3. pc[d] \in {"dropRows", "commit"} /\ req[d].op = "uninstall" /\ req[d].tenant = req[c].tenant
    BY <1>2, <2>1, <2>2 DEF Frame
  <2>4. instLock[req[c].tenant] = d
    BY <2>3 DEF IInv, Holds, HoldUninstall
  <2> QED
    BY <1>4, <2>2, <2>4
<1> QED
  BY <1>3, <1>5

\* A tenant more: the count goes up by one.
LEMMA CountUp ==
  ASSUME TypeOK, NEW u \in Uids, Counted(u), NEW t \in Tenants, t \notin Users(u),
         Users(u)' = Users(u) \cup {t}, Leaving(u)' \subseteq Leaving(u), t \notin Leaving(u)',
         u \in missed => u \in missed', u \in plugins', refers'[u] = Row(u) + 1,
         u \notin Remote => u \in declarations'
  PROVE  Counted(u)'
<1> DEFINE S == Users(u) \ Leaving(u)
           T == (Users(u) \ Leaving(u))'
<1>1. Users(u) \in SUBSET Tenants /\ S \in SUBSET Tenants /\ T \in SUBSET Tenants
  BY DEF Users
<1>2. S \cup {t} \subseteq T /\ t \notin S
  OBVIOUS
<1>3. Cardinality(Users(u)') = Cardinality(Users(u)) + 1
  BY <1>1, UsersCount
<1>4. Cardinality(S \cup {t}) = Cardinality(S) + 1 /\ Cardinality(S \cup {t}) <= Cardinality(T)
  BY <1>1, <1>2, UsersFinite, UsersCount
<1>5. Cardinality(S) \in Nat /\ Cardinality(T) \in Nat /\ Row(u) \in Int
  <2>1. Row(u) \in Int
    BY DEF TypeOK, Row
  <2> QED
    BY <1>1, <2>1, UsersFinite
<1>6. Row(u) <= Cardinality(S) /\ 0 <= Row(u)
  BY <1>5 DEF Counted, Row
<1>7. Row(u)' = Row(u) + 1 /\ Users(u)' # {}
  BY DEF Row
<1>8. u \notin missed' => Row(u)' = Cardinality(Users(u)')
  BY <1>3, <1>7 DEF Counted
<1>9. 1 <= refers'[u] /\ refers'[u] <= Cardinality(T)
  BY <1>4, <1>5, <1>6
<1> QED
  BY <1>7, <1>8, <1>9 DEF Counted

\* A tenant less: the count goes down by one, and a row without references goes.
LEMMA CountDown ==
  ASSUME TypeOK, NEW u \in Uids, Counted(u), NEW t \in Tenants, t \in Users(u), u \in plugins,
         Users(u)' = Users(u) \ {t}, Leaving(u)' \subseteq Leaving(u),
         u \in missed => u \in missed', refers'[u] = refers[u] - 1,
         u \in plugins' <=> refers[u] # 1, u \in plugins' => (u \in declarations => u \in declarations')
  PROVE  Counted(u)'
<1> DEFINE S == Users(u) \ Leaving(u)
           T == (Users(u) \ Leaving(u))'
<1>1. Users(u) \in SUBSET Tenants /\ S \in SUBSET Tenants /\ T \in SUBSET Tenants
      /\ S \ {t} \subseteq T
  BY DEF Users
<1>2. /\ Cardinality(Users(u)') = Cardinality(Users(u)) - 1
      /\ Cardinality(Users(u)) \in Nat /\ (Cardinality(Users(u)') = 0 <=> Users(u)' = {})
  <2>1. Users(u)' \in SUBSET Tenants
    BY <1>1
  <2> QED
    BY <1>1, <2>1, UsersFinite, UsersCount
<1>3. Cardinality(S \ {t}) <= Cardinality(T) /\ Cardinality(S) - 1 <= Cardinality(S \ {t})
      /\ Cardinality(S) \in Nat /\ Cardinality(T) \in Nat /\ Cardinality(S \ {t}) \in Nat
  <2>1. S \ {t} \in SUBSET Tenants
    BY <1>1
  <2> QED
    BY <1>1, <2>1, UsersFinite, UsersCount
<1>4. refers[u] \in Int /\ 1 <= refers[u] /\ refers[u] <= Cardinality(S)
  BY DEF Counted, TypeOK
<1>5. u \in plugins' => 1 <= refers'[u] /\ refers'[u] <= Cardinality(T)
  BY <1>3, <1>4
<1>6. ASSUME u \notin missed'
      PROVE  ((u \in plugins') <=> (Users(u)' # {})) /\ Row(u)' = Cardinality(Users(u)')
  <2>1. refers[u] = Cardinality(Users(u))
    BY <1>6 DEF Counted, Row
  <2> QED
    BY <1>2, <1>4, <2>1 DEF Row
<1>7. u \in plugins' \ Remote => u \in declarations'
  BY DEF Counted
<1> QED
  BY <1>5, <1>6, <1>7 DEF Counted

\* The statements before the commit write no committed row, and an uninstall that
\* leaves without counting down has found no row.
LEMMA CountedNoCommit ==
  ASSUME IInv, TypeOK', NEW c \in Calls, NEW u \in Uids,
         Begin(c) \/ Step(c) \/ StatementFails(c) \/ DeadlockVictim(c), ~Commit(c)
  PROVE  Counted(u)'
<1>0. TypeOK /\ Shape(c) /\ Holds(c) /\ Counted(u)
  BY DEF IInv
<1>1. UNCHANGED <<plugins, refers, instUid, declarations, missed>>
  BY DEF Begin, Step, StatementFails, DeadlockVictim, Rollback, tables, BeginInstall, BeginUninstall,
         BeginUpgrade, PreCheck, InsertPlugin, LockPlugin, CheckInstallation, EnsureDeclaration,
         CreateInstallation, LockInstallation, DropRows, ReadNew, CreateNew, DecOld, DropOld, IncNew
<1>2. Users(u)' = Users(u)
  BY <1>1 DEF Users
<1>3. Frame(c)
  BY <1>0, FrameStep
<1>4. ASSUME u \in plugins, pc'[c] \in {"dropRows", "commit"}, c \notin found',
             req'[c].op = "uninstall", req'[c].uid = u
      PROVE  pc[c] \in {"dropRows", "commit"} /\ c \notin found /\ req'[c] = req[c]
  <2> USE <1>0, <1>4, ShapeRequest DEF TypeOK, Goto
  <2>1. CASE Begin(c)
    BY <2>1 DEF Begin, BeginInstall, BeginUninstall, BeginUpgrade
  <2>2. ASSUME Return(c) PROVE FALSE
    BY <2>2 DEF Return
  <2>3. CASE PreCheck(c) \/ InsertPlugin(c) \/ ReadNew(c) \/ DropOld(c) \/ IncNew(c)
    BY <2>2, <2>3 DEF PreCheck, InsertPlugin, ReadNew, DropOld, IncNew
  <2>4. CASE LockPlugin(c)
    BY <2>2, <2>4 DEF LockPlugin, Rollback
  <2>5. CASE CheckInstallation(c) \/ LockInstallation(c) \/ CreateNew(c) \/ DecOld(c)
    BY <2>2, <2>5 DEF CheckInstallation, LockInstallation, CreateNew, DecOld, Rollback
  <2>6. CASE EnsureDeclaration(c) \/ CreateInstallation(c)
    BY <2>2, <2>6 DEF EnsureDeclaration, CreateInstallation, Rollback, UninstallPCs
  <2>7. CASE DropRows(c)
    BY <2>7 DEF DropRows
  <2> QED
    BY <2>1, <2>2, <2>3, <2>4, <2>5, <2>6, <2>7 DEF Step, StatementFails, DeadlockVictim, Rollback
<1>5. u \in plugins => Leaving(u)' \subseteq Leaving(u)
  BY <1>0, <1>3, <1>4, LeavingShrinks
<1> QED
  BY <1>0, <1>1, <1>2, <1>5, CountedKept

\* An install counts its tenant.
LEMMA CountedInstall ==
  ASSUME IInv, TypeOK', NEW c \in Calls, NEW w \in Uids, CommitInstall(c)
  PROVE  Counted(w)'
<1> DEFINE u == req[c].uid
           t == req[c].tenant
<1>0. TypeOK /\ Shape(c) /\ HoldInstall(c) /\ Counted(w) /\ pc[c] = "commit" /\ Commit(c)
  BY DEF IInv, CommitInstall, Holds, Commit
<1>1. u \in Uids /\ t \in Tenants
  BY <1>0, ShapeRequest
<1>2. Leaving(w)' \subseteq Leaving(w) /\ t \notin Leaving(w)'
  BY <1>0, CommitLeaving
<1>3. instUid[t] = None /\ u # None
  BY <1>0, <1>1, ConstantsAssumption DEF HoldInstall
<1>4. CASE w # u
  <2>1. Users(w)' = Users(w)
    BY <1>0, <1>1, <1>3, <1>4, ConstantsAssumption DEF CommitInstall, Users, TypeOK
  <2>2. /\ w \in plugins' <=> w \in plugins
        /\ refers'[w] = refers[w] /\ (w \in declarations => w \in declarations')
        /\ missed' = missed
    BY <1>0, <1>1, <1>4 DEF CommitInstall, TypeOK
  <2> QED
    BY <1>0, <1>2, <2>1, <2>2, CountedKept
<1>5. CASE w = u
  <2>1. Users(w)' = Users(w) \cup {t} /\ t \notin Users(w)
    BY <1>0, <1>1, <1>3, <1>5 DEF CommitInstall, Users, TypeOK
  <2>2. /\ w \in plugins' /\ refers'[w] = Row(w) + 1
        /\ w \notin Remote => w \in declarations'
        /\ missed' = missed
    BY <1>0, <1>1, <1>5 DEF CommitInstall, HoldInstall, TypeOK
  <2> QED
    BY <1>0, <1>1, <1>2, <2>1, <2>2, CountUp
<1> QED
  BY <1>4, <1>5

\* An uninstall counts its tenant down, or uninstalls a version that had no row.
LEMMA CountedUninstall ==
  ASSUME IInv, TypeOK', NEW c \in Calls, NEW w \in Uids, CommitUninstall(c)
  PROVE  Counted(w)'
<1> DEFINE u == req[c].uid
           t == req[c].tenant
<1>0. TypeOK /\ Shape(c) /\ HoldUninstall(c) /\ Counted(w) /\ pc[c] = "commit" /\ Commit(c)
  BY DEF IInv, CommitUninstall, Holds, Commit
<1>1. u \in Uids /\ t \in Tenants /\ instUid[t] = u /\ u # None
  BY <1>0, ShapeRequest, ConstantsAssumption DEF HoldUninstall
<1>2. Leaving(w)' \subseteq Leaving(w)
  BY <1>0, CommitLeaving
<1>3. missed' = missed
  BY DEF CommitUninstall
<1>4. CASE w # u
  <2>1. Users(w)' = Users(w)
    BY <1>0, <1>1, <1>4, ConstantsAssumption DEF CommitUninstall, Users, TypeOK
  <2>2. /\ w \in plugins' <=> w \in plugins
        /\ refers'[w] = refers[w] /\ (w \in declarations => w \in declarations')
    BY <1>0, <1>1, <1>4 DEF CommitUninstall, Unreferenced, TypeOK
  <2> QED
    BY <1>0, <1>2, <1>3, <2>1, <2>2, CountedKept
<1>5. CASE w = u /\ c \in found
  <2>1. Users(w)' = Users(w) \ {t} /\ t \in Users(w)
    BY <1>0, <1>1, <1>5 DEF CommitUninstall, Users, TypeOK
  <2>2. w \in plugins /\ cnt[c] = refers[w] - 1 /\ refers[w] \in Int
    BY <1>0, <1>1, <1>5 DEF HoldUninstall, TypeOK
  <2>3. refers'[w] = refers[w] - 1
    BY <1>0, <1>1, <1>5, <2>2 DEF CommitUninstall, TypeOK
  <2>4. Unreferenced(c) = IF refers[w] = 1 THEN {w} ELSE {}
    BY <1>5, <2>2 DEF Unreferenced
  <2>5. /\ w \in plugins' <=> refers[w] # 1
        /\ w \in plugins' => (w \in declarations => w \in declarations')
    BY <2>2, <2>4 DEF CommitUninstall
  <2> QED
    BY <1>0, <1>1, <1>2, <1>3, <2>1, <2>2, <2>3, <2>5, CountDown
<1>6. CASE w = u /\ c \notin found
  <2>1. Users(w)' = Users(w) \ {t}
    BY <1>0, <1>1, <1>6 DEF CommitUninstall, Users, TypeOK
  <2>2. t \in Leaving(w) /\ w \in missed'
    BY <1>0, <1>1, <1>3, <1>6 DEF CommitUninstall, HoldUninstall, Leaving
  <2>3. UNCHANGED <<plugins, refers, declarations>>
    BY <1>6 DEF CommitUninstall, Unreferenced
  <2>4. ASSUME w \in plugins
        PROVE  refers[w] <= Cardinality((Users(w) \ Leaving(w))')
    <3>1. Users(w) \ Leaving(w) \subseteq (Users(w) \ Leaving(w))'
      BY <1>2, <2>1, <2>2
    <3>2. Users(w) \ Leaving(w) \in SUBSET Tenants /\ (Users(w) \ Leaving(w))' \in SUBSET Tenants
      BY DEF Users
    <3>3. /\ Cardinality(Users(w) \ Leaving(w)) <= Cardinality((Users(w) \ Leaving(w))')
          /\ Cardinality(Users(w) \ Leaving(w)) \in Nat /\ Cardinality((Users(w) \ Leaving(w))') \in Nat
      BY <3>1, <3>2, UsersFinite
    <3>4. refers[w] \in Int /\ refers[w] <= Cardinality(Users(w) \ Leaving(w))
      BY <1>0, <2>4 DEF Counted, TypeOK
    <3> QED
      BY <3>3, <3>4
  <2> QED
    BY <1>0, <2>2, <2>3, <2>4 DEF Counted
<1> QED
  BY <1>4, <1>5, <1>6

\* An upgrade counts its tenant down in the old version and, if the row is still
\* there, up in the new one.
LEMMA CountedUpgrade ==
  ASSUME IInv, TypeOK', NEW c \in Calls, NEW w \in Uids, CommitUpgrade(c)
  PROVE  Counted(w)'
<1> DEFINE u == req[c].uid
           v == req[c].old
           t == req[c].tenant
<1>0. TypeOK /\ Shape(c) /\ HoldUpgrade(c) /\ Counted(w) /\ pc[c] = "commit" /\ Commit(c)
  BY DEF IInv, CommitUpgrade, Holds, Commit
<1>1. u \in Uids /\ v \in Uids /\ t \in Tenants /\ instUid[t] = v /\ u # v
  BY <1>0, ShapeRequest DEF HoldUpgrade, CommitUpgrade
<1>2. Leaving(w)' \subseteq Leaving(w) /\ t \notin Leaving(w)'
  BY <1>0, CommitLeaving
<1>3. missed \subseteq missed'
  BY DEF CommitUpgrade
<1>4. ASSUME w \notin {u, v} PROVE Counted(w)'
  <2>1. Users(w)' = Users(w)
    BY <1>0, <1>1, <1>4 DEF CommitUpgrade, Users, TypeOK
  <2>2. /\ w \in plugins' <=> w \in plugins
        /\ refers'[w] = refers[w] /\ (w \in declarations => w \in declarations')
    BY <1>0, <1>1, <1>4 DEF CommitUpgrade, TypeOK
  <2> QED
    BY <1>0, <1>2, <1>3, <2>1, <2>2, CountedKept
<1>5. ASSUME w = v PROVE Counted(w)'
  <2>1. Users(w)' = Users(w) \ {t} /\ t \in Users(w)
    BY <1>0, <1>1, <1>5 DEF CommitUpgrade, Users, TypeOK
  <2>2. w \in plugins /\ cntOld[c] = refers[w] - 1 /\ refers[w] \in Int
    BY <1>0, <1>1, <1>5 DEF HoldUpgrade, TypeOK
  <2>3. refers'[w] = refers[w] - 1
    BY <1>0, <1>1, <1>5, <2>2 DEF CommitUpgrade, TypeOK
  <2>4. /\ w \in plugins' <=> refers[w] # 1
        /\ w \in plugins' => (w \in declarations => w \in declarations')
    BY <1>1, <1>5, <2>2 DEF CommitUpgrade
  <2> QED
    BY <1>0, <1>1, <1>2, <1>3, <2>1, <2>2, <2>3, <2>4, CountDown
<1>6. ASSUME w = u, c \in found PROVE Counted(w)'
  <2>1. Users(w)' = Users(w) \cup {t} /\ t \notin Users(w)
    BY <1>0, <1>1, <1>6 DEF CommitUpgrade, Users, TypeOK
  <2>2. /\ w \in plugins' /\ refers'[w] = Row(w) + 1
        /\ w \notin Remote => w \in declarations'
    BY <1>0, <1>1, <1>6 DEF CommitUpgrade, HoldUpgrade, TypeOK
  <2> QED
    BY <1>0, <1>1, <1>2, <1>3, <2>1, <2>2, CountUp
<1>7. ASSUME w = u, c \notin found PROVE Counted(w)'
  <2>1. Users(w)' = Users(w) \cup {t}
    BY <1>0, <1>1, <1>7 DEF CommitUpgrade, Users, TypeOK
  <2>2. /\ w \in plugins' <=> w \in plugins
        /\ refers'[w] = refers[w] /\ w \in missed'
        /\ w \notin Remote => w \in declarations'
    BY <1>0, <1>1, <1>7 DEF CommitUpgrade, TypeOK
  <2>3. ASSUME w \in plugins
        PROVE  refers[w] <= Cardinality((Users(w) \ Leaving(w))')
    <3>1. Users(w) \ Leaving(w) \subseteq (Users(w) \ Leaving(w))'
      BY <1>2, <2>1
    <3>2. Users(w) \ Leaving(w) \in SUBSET Tenants /\ (Users(w) \ Leaving(w))' \in SUBSET Tenants
      BY DEF Users
    <3>3. /\ Cardinality(Users(w) \ Leaving(w)) <= Cardinality((Users(w) \ Leaving(w))')
          /\ Cardinality(Users(w) \ Leaving(w)) \in Nat /\ Cardinality((Users(w) \ Leaving(w))') \in Nat
      BY <3>1, <3>2, UsersFinite
    <3>4. refers[w] \in Int /\ refers[w] <= Cardinality(Users(w) \ Leaving(w))
      BY <1>0, <2>3 DEF Counted, TypeOK
    <3> QED
      BY <3>3, <3>4
  <2> QED
    BY <1>0, <2>2, <2>3 DEF Counted
<1> QED
  BY <1>4, <1>5, <1>6, <1>7

------------------------------------------------------------------------------
(* The theorems *)

\* Nothing is installed and no transaction is under way.
LEMMA InitIInv == Init => IInv
<1> SUFFICES ASSUME Init PROVE IInv
  OBVIOUS
<1>1. \A u \in Uids : Users(u) \in SUBSET Tenants
  BY DEF Users
<1>2. \A u \in Uids : Cardinality(Users(u)) \in Nat /\ (Cardinality(Users(u)) = 0 <=> Users(u) = {})
  BY <1>1, UsersFinite
<1>3. TypeOK
  <2>1. TypeTables
    BY <1>2, ConstantsAssumption DEF Init, TypeTables
  <2>2. TypeLocks
    BY DEF Init, TypeLocks
  <2>3. TypeLocal
    BY DEF Init, TypeLocal, PCs
  <2> QED
    BY <2>1, <2>2, <2>3, TypeParts
<1>4. \A c \in Calls : Shape(c) /\ Holds(c)
  BY DEF Init, Shape, Holds
<1>5. ASSUME NEW u \in Uids PROVE Counted(u)
  <2>1. Leaving(u) = {}
    BY DEF Init, Leaving
  <2>2. Users(u) \ Leaving(u) = Users(u)
    BY <2>1
  <2>3. refers[u] = Cardinality(Users(u)) /\ (u \in plugins <=> Users(u) # {})
    BY DEF Init
  <2>4. u \in plugins \ Remote => u \in declarations
    BY DEF Init
  <2> QED
    BY <1>2, <2>2, <2>3, <2>4 DEF Counted, Row
<1> QED
  BY <1>3, <1>4, <1>5 DEF IInv

\* Every step of a transaction keeps the invariant.
LEMMA NextIInv == IInv /\ [Next]_vars => IInv'
<1>1. ASSUME IInv, UNCHANGED vars PROVE IInv'
  <2> USE <1>1 DEF vars, tables, locks, local
  <2>1. TypeOK'
    BY DEF IInv, TypeOK
  <2>2. \A c \in Calls : Shape(c)' /\ Holds(c)'
    BY DEF IInv, Shape, Holds, HoldInstall, HoldUninstall, HoldUpgrade, Row
  <2>3. \A u \in Uids : Counted(u)'
    <3>1. \A u \in Uids : Users(u)' = Users(u) /\ Leaving(u)' = Leaving(u) /\ Row(u)' = Row(u)
      BY DEF Users, Leaving, Row
    <3> QED
      BY <3>1 DEF IInv, Counted
  <2> QED
    BY <2>1, <2>2, <2>3 DEF IInv
<1>2. ASSUME IInv, NEW c \in Calls,
             Begin(c) \/ Step(c) \/ StatementFails(c) \/ DeadlockVictim(c)
      PROVE  IInv'
  <2>1. TypeOK /\ Shape(c) /\ Holds(c)
    BY <1>2 DEF IInv
  <2>2. TypeOK'
    BY <1>2, <2>1, TypeStep
  <2>3. Frame(c)
    BY <1>2, <2>1, FrameStep
  <2>4. ASSUME NEW d \in Calls PROVE Shape(d)' /\ Holds(d)'
    <3>1. CASE d = c
      BY <1>2, <3>1, OwnStep
    <3>2. CASE d # c
      BY <1>2, <2>1, <2>3, <3>2, FrameKeeps DEF IInv
    <3> QED
      BY <3>1, <3>2
  <2>5. ASSUME NEW u \in Uids PROVE Counted(u)'
    BY <1>2, <2>2, CountedNoCommit, CountedInstall, CountedUninstall, CountedUpgrade DEF Commit
  <2> QED
    BY <2>2, <2>4, <2>5 DEF IInv
<1> QED
  BY <1>1, <1>2 DEF Next

\* Whatever the requests do, the tables, the locked rows and the calls keep their
\* types (the rows atomic.go reads and writes).
THEOREM InstallationsType == Spec => []TypeOK
<1>1. IInv => TypeOK
  BY DEF IInv
<1> QED
  BY <1>1, InitIInv, NextIInv, PTL DEF Spec

\* The reference counts of atomic.go are exact for every version no upgrade has
\* missed, and never too high, for any numbers of requests, tenants and versions:
\* a transaction writes the count it read only while it still has that row locked.
THEOREM CountIsExact == Spec => []RefersExact
<1>1. ASSUME IInv PROVE RefersExact
  <2>1. ASSUME NEW u \in Uids \ missed
        PROVE  /\ (u \in plugins) <=> (Users(u) # {})
               /\ u \in plugins => refers[u] = Cardinality(Users(u))
               /\ u \in plugins \ Remote => u \in declarations
    BY <1>1 DEF IInv, Counted, Row
  <2>2. ASSUME NEW u \in plugins
        PROVE  1 <= refers[u] /\ refers[u] <= Cardinality(Users(u))
    <3>1. u \in Uids /\ refers[u] \in Int /\ Counted(u)
      BY <1>1 DEF IInv, TypeOK
    <3>2. Users(u) \in SUBSET Tenants /\ Users(u) \ Leaving(u) \in SUBSET Users(u)
      BY DEF Users
    <3>3. /\ Cardinality(Users(u) \ Leaving(u)) <= Cardinality(Users(u))
          /\ Cardinality(Users(u)) \in Nat
      BY <3>2, UsersFinite
    <3>4. Cardinality(Users(u) \ Leaving(u)) \in Nat
      BY <3>2, UsersFinite
    <3> QED
      BY <3>1, <3>3, <3>4 DEF Counted
  <2> QED
    BY <2>1, <2>2 DEF RefersExact
<1> QED
  BY <1>1, InitIInv, NextIInv, PTL DEF Spec
==============================================================================
