------------------------------ MODULE MCServices ------------------------------
(* NodeStatus, and the modules of the services, the debugging server and the       *)
(* packages, which are checked for safety, each on a small instance.  They share   *)
(* no state, so a behaviour is one of one unit.  NodeStatus has its own variables; *)
(* s1, s2, ... are the variables of whichever other unit it is.                    *)
EXTENDS NodeStatus, TLC

CONSTANTS x1, x2, t1, e1, e2, k1, k2, k3, pkgA, pkgB, icon

CONSTANTS
  TaskIds, Plugins,
  StoreProcs, StoreNames, StoreKeys, CleanPath, MaxBytes, Quota, MaxStoreOps,
  Conns, Parts, MaxConns, MaxAssets, MaxEnds,
  KeyCallers, MaxKeys, KeyTTL, MaxTicks, MaxLost,
  EpProcs, EpIds, MaxEpOps,
  MaxAnswers,
  Uploaders, PackageIds, Builds, Assets, AssetsOf, MaxFaults,
  PluginKinds, Official, OtherKeys, Categories, SizeLimits, NewNames, MaxSigns,
  WizCategories, ModelGrants, ReadmeLanguages, StorageSizes

VARIABLES unit, s1, s2, s3, s4, s5, s6, s7, s8, s9, s10, s11, s12

Task == INSTANCE InstallTask WITH
  rows <- s1, jobs <- s2, light <- s3, upgrades <- s4, installed <- s5,
  installing <- s6, timers <- s7, aged <- s8, copies <- s9, daemon <- s10,
  recycle <- s11, unwritten <- s12
Store == INSTANCE Persistence WITH
  stored <- s1, counted <- s2, cached <- s3, ops <- s4, drifted <- s5,
  suspect <- s6, storeOps <- s7
Debug == INSTANCE DebugServer WITH
  conns <- s1, loop <- s2, maxConn <- s3, currentConn <- s4, debugging <- s5,
  registry <- s6, installation <- s7, session <- s8, ends <- s9, early <- s10,
  overlapped <- s11, dbFailed <- s12
Key == INSTANCE ConnectionKey WITH
  id2key <- s1, key2id <- s2, call <- s3, drawn <- s4, ticks <- s5, lostCmds <- s6,
  parted <- s7
Ep == INSTANCE Endpoints WITH
  epRows <- s1, epSetups <- s2, epActive <- s3, epCache <- s4, reqs <- s5,
  epUsed <- s6, lostUpdate <- s7, overCounted <- s8, epSuspect <- s9, epOps <- s10
Resp == INSTANCE Responses WITH
  svc <- s1, answer <- s2, handler <- s3, reader <- s4, net <- s5, flags <- s6,
  gauge <- s7, outcomes <- s8
Pkg == INSTANCE Packages WITH
  media <- s1, bucket <- s2, declared <- s3, uploads <- s4, pkgFaults <- s5,
  mixed <- s6, before <- s7
Dp == INSTANCE Difypkg WITH
  src <- s1, archive <- s2, signs <- s3, edited <- s4, opened <- s5
Wiz == INSTANCE Wizard WITH
  started <- s1, menu <- s2, prof <- s3, lang <- s4, cat <- s5, perm <- s6,
  ver <- s7, disk <- s8, given <- s9

unitVars == <<s1, s2, s3, s4, s5, s6, s7, s8, s9, s10, s11, s12>>
servicesVars == <<unit, vars, unitVars>>

\* The assumptions of the instances on their constants.
ASSUME ServicesAssumption ==
  /\ Task!TaskAssumption
  /\ Store!StoreAssumption
  /\ Debug!DebugAssumption
  /\ Key!KeyAssumption
  /\ Ep!EpAssumption
  /\ Resp!AnswersAssumption
  /\ Pkg!PackagesAssumption
  /\ Dp!DpAssumption
  /\ Wiz!WizAssumption

ServicesInit ==
  /\ Init
  /\ \/ unit = "status"
        /\ s1 = 0 /\ s2 = 0 /\ s3 = 0 /\ s4 = 0 /\ s5 = 0 /\ s6 = 0 /\ s7 = 0 /\ s8 = 0
        /\ s9 = 0 /\ s10 = 0 /\ s11 = 0 /\ s12 = 0
     \/ unit = "task" /\ Task!TaskInit
     \/ unit = "store" /\ Store!StoreInit
        /\ s8 = 0 /\ s9 = 0 /\ s10 = 0 /\ s11 = 0 /\ s12 = 0
     \/ unit = "debug" /\ Debug!DebugInit
     \/ unit = "key" /\ Key!KeyInit
        /\ s8 = 0 /\ s9 = 0 /\ s10 = 0 /\ s11 = 0 /\ s12 = 0
     \/ unit = "endpoint" /\ Ep!EpInit
        /\ s11 = 0 /\ s12 = 0
     \/ unit = "response" /\ Resp!RespInit
        /\ s9 = 0 /\ s10 = 0 /\ s11 = 0 /\ s12 = 0
     \/ unit = "upload" /\ Pkg!PkgInit
        /\ s8 = 0 /\ s9 = 0 /\ s10 = 0 /\ s11 = 0 /\ s12 = 0
     \/ unit = "package" /\ Dp!DpInit
        /\ s6 = 0 /\ s7 = 0 /\ s8 = 0 /\ s9 = 0 /\ s10 = 0 /\ s11 = 0 /\ s12 = 0
     \/ unit = "wizard" /\ Wiz!WizInit
        /\ s10 = 0 /\ s11 = 0 /\ s12 = 0

ServicesNext ==
  \/ unit = "status" /\ Next /\ UNCHANGED <<unit, unitVars>>
  \/ unit = "task" /\ Task!TaskNext /\ UNCHANGED <<unit, vars>>
  \/ unit = "store" /\ Store!StoreNext /\ UNCHANGED <<unit, vars, s8, s9, s10, s11, s12>>
  \/ unit = "debug" /\ Debug!DebugNext /\ UNCHANGED <<unit, vars>>
  \/ unit = "key" /\ Key!KeyNext /\ UNCHANGED <<unit, vars, s8, s9, s10, s11, s12>>
  \/ unit = "endpoint" /\ Ep!EpNext /\ UNCHANGED <<unit, vars, s11, s12>>
  \/ unit = "response" /\ Resp!RespNext /\ UNCHANGED <<unit, vars, s9, s10, s11, s12>>
  \/ unit = "upload" /\ Pkg!PkgNext /\ UNCHANGED <<unit, vars, s8, s9, s10, s11, s12>>
  \/ unit = "package" /\ Dp!DpNext /\ UNCHANGED <<unit, vars, s6, s7, s8, s9, s10, s11, s12>>
  \/ unit = "wizard" /\ Wiz!WizNext /\ UNCHANGED <<unit, vars, s10, s11, s12>>

ServicesSpec == ServicesInit /\ [][ServicesNext]_servicesVars

------------------------------------------------------------------------------
\* Both packages refer to the same icon.
MCAssetsOf == [i \in PackageIds |-> Assets]

\* k3 is another way to write the path k1.
MCCleanPath == [n \in StoreNames |-> IF n = k3 THEN k1 ELSE n]

MCModelGrants == <<"model.llm">>
MCReadmeLanguages == <<"zh_Hans">>

\* x1 and x2 stand for the nodes, the plugins of a task, the connections or the
\* goroutines of requests of a unit, which are interchangeable; so are the two plugins
\* that are uploaded, whose declarations share one icon.
Symmetry == Permutations({x1, x2}) \cup Permutations({pkgA, pkgB})

------------------------------------------------------------------------------
(* The properties of each unit, stated one by one and explained in its module. *)

\* InstallTask: the count a tenant polls covers the plugins shown as installed and
\* is at most the total; what the record says has succeeded is installed; and a task
\* whose jobs have all returned is not shown as running, although monitor and
\* recycler write back whole records they read earlier.
TaskRecordIsTrue ==
  unit = "task" =>
       /\ Task!TaskTypeOK
       /\ Task!CompletedBounds
       /\ Task!SuccessIsInstalled
       /\ Task!ReturnedIsClosed

\* Persistence: the tenant's row counts exactly what is stored, up to the requests
\* under way and the races named there; it passes the quota by no more than what
\* they may add; and a cached object is the stored one, but for what a race, a failure or
\* a write under another key of its path left in the cache, until that expires.
StorageIsAccounted ==
  unit = "store" =>
       /\ Store!StoreTypeOK
       /\ Store!CountedExact
       /\ Store!QuotaOvershoot
       /\ Store!CacheCoherent

\* DebugServer: the limit on connections holds but for those subtracted without
\* having been added, a runtime is published only with a complete declaration, is
\* reachable and installed while it is the only connection of its plugin, leaves
\* nothing behind, and its sessions are told. ConnectionKey: the key a tenant holds
\* resolves to it, and one that was cleared does not.
DebuggingIsSound ==
  /\ unit = "debug" =>
       /\ Debug!DebugTypeOK
       /\ Debug!ConnectionLimit
       /\ Debug!PublishedIsComplete
       /\ Debug!NothingRemains
       /\ Debug!ConnectedIsReachable
       /\ Debug!SessionsAreTold
  /\ unit = "key" =>
       /\ Key!KeyTypeOK
       /\ Key!HeldKeyResolves
       /\ Key!ClearedIsGone

\* Endpoints: the counts of endpoints and of enabled ones are exact unless a save
\* overtook a change, and a call is served from the row as it is, a read that
\* overlapped a change apart.
EndpointsAreCurrent ==
  unit = "endpoint" =>
       /\ Ep!EpTypeOK
       /\ Ep!CountsExact
       /\ Ep!EndpointCacheFresh

\* Responses: a body that ended like a whole one is the whole answer; at most one
\* event is written after the handler has returned; a client that leaves does not
\* end an endpoint's session; and a request whose handler waited is completed once.
ResponsesAreWhole ==
  unit = "response" =>
       /\ Resp!RespTypeOK
       /\ Resp!EndedIsWhole
       /\ Resp!LateWritesBounded
       /\ Resp!SessionOutlivesClient
       /\ Resp!CompletedOnce

\* Packages: a failed upload that no other overlapped leaves the declarations as they
\* were, and the bucket but for plugins declared before and those its bundle had twice;
\* what is declared is stored and what was answered with success is declared, races of a
\* rollback apart, and icons can be fetched until a rollback. Difypkg: what Pack produced
\* opens and says what the directory says unless the manifest names a file by a path that
\* is not clean; what was signed with a trusted key is verified; and the contents of what
\* is verified were signed, in that order, though under which names nobody has signed.
PackagesAreKept ==
  /\ unit = "upload" =>
       /\ Pkg!PkgTypeOK
       /\ Pkg!FailedUploadLeavesNothing
       /\ Pkg!DeclaredIsStored
       /\ Pkg!SuccessIsDeclared
       /\ Pkg!IconsServed
  /\ unit = "package" =>
       /\ Dp!DpTypeOK
       /\ Dp!PackedOpens
       /\ Dp!PackageAgrees
       /\ Dp!SignedIsVerified
       /\ Dp!VerifiedIsSigned

\* Wizard: a project is created only under a valid name, has the provider file its
\* manifest names (a datasource apart) and the storage size given last, and what was
\* not created leaves no file.
ProjectIsComplete ==
  unit = "wizard" =>
       /\ Wiz!WizTypeOK
       /\ Wiz!CreatedUnderValidName
       /\ Wiz!LeftThroughLanguages
       /\ Wiz!CreatedHasProvider
       /\ Wiz!UnfinishedLeavesNothing
       /\ Wiz!StorageSizeAsGiven
===============================================================================
