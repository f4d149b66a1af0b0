----------------------------- MODULE Endpoints -----------------------------
(***************************************************************************)
(* The endpoints of an installed plugin (service/setup_endpoint.go,        *)
(* service/endpoint.go, service/install_service/endpoint.go) and the       *)
(* lookup of one when it is called (server/endpoint.go): rows in the       *)
(* database, counters in the row of the installation, and a cache in Redis *)
(* filled on a miss for thirty minutes.                                    *)
(*                                                                         *)
(* Requests run concurrently.  Enable, disable and remove lock the row in  *)
(* a transaction; setup and update read the row, wait for Dify to encrypt  *)
(* the settings, and save the whole row as they read it.  Settings are a   *)
(* number, 0 for the empty ones of a new endpoint.                         *)
(***************************************************************************)
EXTENDS Integers, FiniteSets, FiniteSetsExt

CONSTANTS
  EpProcs,   \* goroutines of requests
  EpIds,     \* endpoints; an id is set up once
  MaxEpOps   \* bound: requests of a behaviour

\* What is assumed of the constants.
EpAssumption == MaxEpOps \in Nat

VARIABLES
  epRows,     \* the table
  epSetups,   \* endpoints_setups of the installation
  epActive,   \* endpoints_active of the installation
  epCache,    \* cached rows
  reqs,       \* reqs[p]: the request a goroutine serves
  epUsed,     \* ids that were set up
  lostUpdate, \* history: a row was saved that had changed since it was read
  overCounted,\* history: a disabled endpoint was removed
  epSuspect,  \* history: endpoints whose cached row may be out of date
  epOps

epVars == <<epRows, epSetups, epActive, epCache, reqs, epUsed, lostUpdate, overCounted,
            epSuspect, epOps>>

NoRow == [there |-> FALSE, enabled |-> FALSE, settings |-> 0]
NewRow == [there |-> TRUE, enabled |-> TRUE, settings |-> 0]
IdleReq == [op |-> "none", pc |-> "idle", ep |-> "none", row |-> NoRow, new |-> 0]

EpInit ==
  /\ epRows = [e \in EpIds |-> NoRow] /\ epCache = epRows
  /\ epSetups = 0 /\ epActive = 0
  /\ reqs = [p \in EpProcs |-> IdleReq] /\ epUsed = {}
  /\ lostUpdate = FALSE /\ overCounted = FALSE /\ epSuspect = {} /\ epOps = 0

ReqAt(p, op, pc) == reqs[p].op = op /\ reqs[p].pc = pc
ReqGoes(p, pc) == reqs' = [reqs EXCEPT ![p].pc = pc]
ReqEnds(p) == reqs' = [reqs EXCEPT ![p] = IdleReq]
Ep(p) == reqs[p].ep
Cached(e) == \E p \in EpProcs : ReqAt(p, "invoke", "store") /\ Ep(p) = e

\* What a change of the row of e does to the history: a call that holds the old row may
\* cache it afterwards.
Changes(e) == epSuspect' = IF Cached(e) THEN epSuspect \cup {e} ELSE epSuspect

EpCall(p, op, e, new) ==
  /\ reqs[p].pc = "idle" /\ epOps < MaxEpOps
  /\ IF op = "setup" THEN e \notin epUsed ELSE e \in epUsed
  /\ reqs' = [reqs EXCEPT ![p] = [op |-> op, pc |-> "start", ep |-> e, row |-> NoRow, new |-> new]]
  /\ epOps' = epOps + 1
  /\ UNCHANGED <<epRows, epSetups, epActive, epCache, epUsed, lostUpdate, overCounted, epSuspect>>

------------------------------------------------------------------------------
(* SetupEndpoint and UpdateEndpoint *)

\* The checks of the plugin and the settings may refuse.  InstallEndpoint creates the row
\* and counts it in one transaction.
SetupInstall(p) ==
  /\ ReqAt(p, "setup", "start") /\ Ep(p) \notin epUsed
  /\ \/ /\ epRows' = [epRows EXCEPT ![Ep(p)] = NewRow]
        /\ epSetups' = epSetups + 1 /\ epActive' = epActive + 1
        /\ epUsed' = epUsed \cup {Ep(p)}
        /\ reqs' = [reqs EXCEPT ![p].pc = "save", ![p].row = NewRow]
     \/ ReqEnds(p) /\ UNCHANGED <<epRows, epSetups, epActive, epUsed>>
  /\ UNCHANGED <<epCache, lostUpdate, overCounted, epSuspect, epOps>>

\* The id was taken by another request of this model.
SetupTaken(p) ==
  /\ ReqAt(p, "setup", "start") /\ Ep(p) \in epUsed /\ ReqEnds(p)
  /\ UNCHANGED <<epRows, epSetups, epActive, epCache, epUsed, lostUpdate, overCounted, epSuspect, epOps>>

\* The row is read without a lock; it, the installation or the plugin may be missing.
UpdateRead(p) ==
  /\ ReqAt(p, "update", "start")
  /\ \/ /\ epRows[Ep(p)].there
        /\ reqs' = [reqs EXCEPT ![p].pc = "save", ![p].row = epRows[Ep(p)]]
     \/ ReqEnds(p)
  /\ UNCHANGED <<epRows, epSetups, epActive, epCache, epUsed, lostUpdate, overCounted, epSuspect, epOps>>

\* A secret that equals its mask is replaced by the old one: 0 stands for an update of
\* nothing but secrets left as they are.
NewSettings(p) == IF reqs[p].new = 0 THEN reqs[p].row.settings ELSE reqs[p].new

\* db.Update is gorm's Save: the whole row is written, and inserted when it is gone.  An
\* error of the encryption before it, or of the database, ends the request.  Setup leaves
\* the cache as it is: a call in between has cached the row with its empty settings.
SaveRow(p) ==
  /\ reqs[p].pc = "save"
  /\ \/ /\ epRows' = [epRows EXCEPT ![Ep(p)] = [reqs[p].row EXCEPT !.settings = NewSettings(p)]]
        /\ lostUpdate' = (lostUpdate \/ epRows[Ep(p)] # reqs[p].row)
        /\ \/ reqs[p].op = "update" /\ Changes(Ep(p)) /\ ReqGoes(p, "uncache")
           \/ /\ reqs[p].op = "setup" /\ ReqEnds(p)
              /\ IF epCache[Ep(p)].there THEN epSuspect' = epSuspect \cup {Ep(p)}
                 ELSE Changes(Ep(p))
     \/ ReqEnds(p) /\ UNCHANGED <<epRows, lostUpdate, epSuspect>>
  /\ UNCHANGED <<epSetups, epActive, epCache, epUsed, overCounted, epOps>>

------------------------------------------------------------------------------
(* RemoveEndpoint, EnableEndpoint, DisableEndpoint *)

\* UninstallEndpoint: a disabled endpoint is subtracted from the active ones as well.
RemoveRow(p) ==
  /\ ReqAt(p, "remove", "start")
  /\ \/ /\ epRows[Ep(p)].there
        /\ epRows' = [epRows EXCEPT ![Ep(p)] = NoRow]
        /\ epSetups' = epSetups - 1 /\ epActive' = epActive - 1
        /\ overCounted' = (overCounted \/ ~epRows[Ep(p)].enabled)
        /\ Changes(Ep(p)) /\ ReqGoes(p, "uncache")
     \/ ReqEnds(p) /\ UNCHANGED <<epRows, epSetups, epActive, overCounted, epSuspect>>
  /\ UNCHANGED <<epCache, epUsed, lostUpdate, epOps>>

\* An endpoint that is already in the wanted state changes nothing.
Counts(r, on) == IF r.enabled = on THEN 0 ELSE IF on THEN 1 ELSE -1

\* EnabledEndpoint and DisabledEndpoint
SwitchRow(p) ==
  /\ reqs[p].op \in {"enable", "disable"} /\ reqs[p].pc = "start"
  /\ LET on == reqs[p].op = "enable"
     IN \/ /\ epRows[Ep(p)].there
           /\ epRows' = [epRows EXCEPT ![Ep(p)].enabled = on]
           /\ epActive' = epActive + Counts(epRows[Ep(p)], on)
           /\ Changes(Ep(p)) /\ ReqGoes(p, "uncache")
        \/ ReqEnds(p) /\ UNCHANGED <<epRows, epActive, epSuspect>>
  /\ UNCHANGED <<epSetups, epCache, epUsed, lostUpdate, overCounted, epOps>>

\* Mutant: the cached row is left.
InvalidateEndpointCache_Kept(p) ==
  /\ reqs[p].pc = "uncache" /\ ReqEnds(p)
  /\ UNCHANGED <<epRows, epSetups, epActive, epCache, epUsed, lostUpdate, overCounted, epSuspect, epOps>>

\* cache.AutoDelete; its error is logged or ignored.
InvalidateEndpointCache(p) ==
  /\ reqs[p].pc = "uncache" /\ ReqEnds(p)
  /\ \/ epCache' = [epCache EXCEPT ![Ep(p)] = NoRow] /\ UNCHANGED epSuspect
     \/ epSuspect' = epSuspect \cup {Ep(p)} /\ UNCHANGED epCache
  /\ UNCHANGED <<epRows, epSetups, epActive, epUsed, lostUpdate, overCounted, epOps>>

------------------------------------------------------------------------------
(* EndpointHandler: cache.AutoGetWithGetter, then Endpoint *)

InvokeGet(p) ==
  /\ ReqAt(p, "invoke", "start")
  /\ \/ /\ epCache[Ep(p)].there
        /\ reqs' = [reqs EXCEPT ![p].pc = "serve", ![p].row = epCache[Ep(p)]]
     \/ ~epCache[Ep(p)].there /\ ReqGoes(p, "read")
     \/ ReqEnds(p)
  /\ UNCHANGED <<epRows, epSetups, epActive, epCache, epUsed, lostUpdate, overCounted, epSuspect, epOps>>

InvokeRead(p) ==
  /\ ReqAt(p, "invoke", "read")
  /\ \/ epRows[Ep(p)].there /\ reqs' = [reqs EXCEPT ![p].pc = "store", ![p].row = epRows[Ep(p)]]
     \/ ReqEnds(p)
  /\ UNCHANGED <<epRows, epSetups, epActive, epCache, epUsed, lostUpdate, overCounted, epSuspect, epOps>>

\* A failed store is an error of the request.
InvokeStore(p) ==
  /\ ReqAt(p, "invoke", "store")
  /\ \/ epCache' = [epCache EXCEPT ![Ep(p)] = reqs[p].row] /\ ReqGoes(p, "serve")
     \/ ReqEnds(p) /\ UNCHANGED epCache
  /\ UNCHANGED <<epRows, epSetups, epActive, epUsed, lostUpdate, overCounted, epSuspect, epOps>>

\* A disabled endpoint is not found; otherwise the plugin is invoked with the settings.
InvokeServe(p) ==
  /\ ReqAt(p, "invoke", "serve") /\ ReqEnds(p)
  /\ UNCHANGED <<epRows, epSetups, epActive, epCache, epUsed, lostUpdate, overCounted, epSuspect, epOps>>

EpCacheExpires(e) ==
  /\ epCache[e].there /\ epCache' = [epCache EXCEPT ![e] = NoRow]
  /\ UNCHANGED <<epRows, epSetups, epActive, reqs, epUsed, lostUpdate, overCounted, epSuspect, epOps>>

EpOver ==
  /\ epOps = MaxEpOps /\ \A p \in EpProcs : reqs[p].pc = "idle"
  /\ UNCHANGED epVars

EpNext ==
  \/ \E p \in EpProcs, e \in EpIds :
       \/ \E op \in {"remove", "enable", "disable", "invoke"} : EpCall(p, op, e, 0)
       \/ EpCall(p, "setup", e, 1)
       \/ \E new \in {0, 2} : EpCall(p, "update", e, new)
  \/ \E p \in EpProcs :
       \/ SetupInstall(p) \/ SetupTaken(p) \/ UpdateRead(p) \/ SaveRow(p)
       \/ RemoveRow(p) \/ SwitchRow(p) \/ InvalidateEndpointCache(p)
       \/ InvokeGet(p) \/ InvokeRead(p) \/ InvokeStore(p) \/ InvokeServe(p)
  \/ \E e \in EpIds : EpCacheExpires(e)
  \/ EpOver

EpSpec == EpInit /\ [][EpNext]_epVars

------------------------------------------------------------------------------
(* Properties *)

Rows_ == [there : BOOLEAN, enabled : BOOLEAN, settings : 0..2]

\* Types; a row that is gone has no contents, and only ids that were set up have rows.
EpTypeOK ==
  /\ epRows \in [EpIds -> Rows_] /\ epCache \in [EpIds -> Rows_]
  /\ epSetups \in Int /\ epActive \in Int /\ epUsed \subseteq EpIds
  /\ \A e \in EpIds : epRows[e].there => e \in epUsed
  /\ \A e \in EpIds : ~epRows[e].there => epRows[e] = NoRow
  /\ lostUpdate \in BOOLEAN /\ overCounted \in BOOLEAN /\ epSuspect \subseteq EpIds
  /\ \A p \in EpProcs : reqs[p].row \in Rows_ /\ reqs[p].pc \in
       {"idle", "start", "save", "uncache", "read", "store", "serve"}

\* The installation counts its endpoints and the enabled ones among them exactly, unless a
\* setup or an update saved a row that another request had changed or removed meanwhile
\* (it takes back an enable or disable, or brings the endpoint back uncounted).
CountsExact ==
  ~lostUpdate =>
    /\ epSetups = Cardinality({e \in EpIds : epRows[e].there})
    /\ ~overCounted => epActive = Cardinality({e \in EpIds : epRows[e].enabled})
    /\ epActive <= Cardinality({e \in EpIds : epRows[e].enabled})

\* A call is served from the row as it is, enabled or not and with these settings, once the
\* changes of it have returned; unless a call read the row while it was being changed or
\* set up, or the cache could not be cleared.
EndpointCacheFresh ==
  \A e \in EpIds \ epSuspect :
    (\A p \in EpProcs : ~(Ep(p) = e /\ reqs[p].pc \in {"save", "uncache"}))
      => epCache[e] \in {NoRow, epRows[e]}

------------------------------------------------------------------------------
(* The inductive invariant *)

ReqShape ==
  [op : {"none", "setup", "update", "remove", "enable", "disable", "invoke"},
   pc : {"idle", "start", "save", "uncache", "read", "store", "serve"},
   ep : EpIds \cup {"none"}, row : Rows_, new : 0..2]

EpShape == EpTypeOK /\ reqs \in [EpProcs -> ReqShape] /\ IsFiniteSet(epUsed)

\* What a request knows: its endpoint was set up, but for one that starts to do that; what
\* is saved was a row; and what is about to be cached is the row, unless that has changed.
Knows(p) ==
  /\ reqs[p].pc # "idle" =>
       /\ Ep(p) \in EpIds
       /\ (reqs[p].op = "setup" /\ reqs[p].pc = "start") \/ Ep(p) \in epUsed
  /\ reqs[p].pc = "save" => reqs[p].row.there
  /\ reqs[p].pc \in {"read", "store", "serve"} => reqs[p].op = "invoke"
  /\ reqs[p].pc = "store" /\ Ep(p) \notin epSuspect => reqs[p].row = epRows[Ep(p)]

\* A cached row is the row, unless a request is about to clear it.
CacheKnown ==
  /\ \A e \in EpIds \ epUsed : epCache[e] = NoRow
  /\ \A e \in EpIds \ epSuspect :
       (\A p \in EpProcs : ~(Ep(p) = e /\ reqs[p].pc = "uncache")) => epCache[e] \in {NoRow, epRows[e]}

EpIInv == EpShape /\ (\A p \in EpProcs : Knows(p)) /\ CacheKnown /\ CountsExact
=============================================================================
