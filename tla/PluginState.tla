----------------------------- MODULE PluginState -----------------------------
(***************************************************************************)
(* The registry that tells the nodes of the cluster where a plugin runs,   *)
(* and the redirection of a request along it.  internal/cluster/plugin.go, *)
(* node.go and redirect.go, plugin_manager/cluster_tunnel.go, and the      *)
(* middleware RedirectPluginInvoke.                                        *)
(*                                                                         *)
(* One plugin, the nodes of the cluster and one of them as the master that *)
(* collects; the election and the status of nodes are in Master and        *)
(* NodeStatus, so a node the master takes for disconnected is any node.    *)
(* Every command to Redis may fail.  Time is the age of an entry.          *)
(***************************************************************************)
EXTENDS Naturals, FiniteSets

CONSTANTS
  RegNodes,
  RegMaster,    \* the node that is the master
  MaxStarts,    \* bound: runtimes started on a node
  MaxTries,     \* maxRetries of UnregisterPlugin
  MaxFaults     \* bound: commands to Redis that fail

ASSUME RegistryAssumption == RegMaster \in RegNodes /\ MaxTries \in Nat \ {0}
                              /\ MaxFaults \in Nat

VARIABLES
  runtimes,    \* nodes on which a runtime of the plugin is up
  starts,      \* runtimes started so far, by node
  listed,      \* nodes whose map c.plugins holds the plugin
  entry,       \* the field of the node in the hash plugin_state: "none" or its age
  faults,      \* commands to Redis that have failed
  tunnel,      \* the thread of the ClusterTunnel on each node, with failed attempts
  loop,        \* the loop of the cluster on each node
  expired,     \* fields the collector has read as expired and not yet removed
  closed,      \* nodes that have left
  gaveUp,      \* history: nodes where UnregisterPlugin returned an error
  request      \* the node a request is at, or "ok" or "error"

regVars == <<runtimes, starts, listed, entry, faults, tunnel, loop, expired, closed, gaveUp, request>>

Ages == {"fresh", "stale", "expired"}   \* up to half the timeout, up to it, beyond
TunnelPCs == {"idle", "store", "check", "write", "remove", "delete"}

RegInit ==
  /\ runtimes = {} /\ starts = [n \in RegNodes |-> 0] /\ listed = {}
  /\ entry = [n \in RegNodes |-> "none"] /\ faults = 0
  /\ tunnel = [n \in RegNodes |-> [pc |-> "idle", tries |-> 0]]
  /\ loop = [n \in RegNodes |-> "idle"] /\ expired = {}
  /\ closed = {} /\ gaveUp = {} /\ request \in RegNodes

TunnelTo(n, l) == tunnel' = [tunnel EXCEPT ![n] = [pc |-> l, tries |-> 0]]
Fault == faults < MaxFaults /\ faults' = faults + 1
Put(n, age) == entry' = [entry EXCEPT ![n] = age]

------------------------------------------------------------------------------
(* OnLocalRuntimeReady, OnDebuggingRuntimeConnected: RegisterPlugin *)

\* A runtime is up; the tunnel is told.
RuntimeReady(n) ==
  /\ n \notin runtimes \cup closed /\ starts[n] < MaxStarts /\ tunnel[n].pc = "idle"
  /\ runtimes' = runtimes \cup {n} /\ starts' = [starts EXCEPT ![n] = @ + 1]
  /\ TunnelTo(n, "store")
  /\ UNCHANGED <<listed, entry, faults, loop, expired, closed, gaveUp, request>>

\* The plugin is put into the map, or its lifetime replaced there.
StorePlugin(n) ==
  /\ tunnel[n].pc = "store"
  /\ listed' = listed \cup {n}
  /\ TunnelTo(n, "check")
  /\ UNCHANGED <<runtimes, starts, entry, faults, loop, expired, closed, gaveUp, request>>

\* doPluginStateUpdate: is the plugin still listed?  If not its field is removed.
TunnelChecks(n) ==
  /\ tunnel[n].pc = "check"
  /\ IF n \in listed THEN TunnelTo(n, "write") /\ UNCHANGED <<entry, faults>>
     ELSE /\ TunnelTo(n, "idle")
          /\ \/ Put(n, "none") /\ UNCHANGED faults
             \/ UNCHANGED entry /\ Fault
  /\ UNCHANGED <<runtimes, starts, listed, loop, expired, closed, gaveUp, request>>

\* The second half: the field is written.  An error is logged by the tunnel.
TunnelWrites(n) ==
  /\ tunnel[n].pc = "write"
  /\ \/ Put(n, "fresh") /\ UNCHANGED faults
     \/ UNCHANGED entry /\ Fault
  /\ TunnelTo(n, "idle")
  /\ UNCHANGED <<runtimes, starts, listed, loop, expired, closed, gaveUp, request>>

------------------------------------------------------------------------------
(* OnLocalRuntimeStop, OnDebuggingRuntimeDisconnected: UnregisterPlugin *)

RuntimeStops(n) ==
  /\ n \in runtimes /\ tunnel[n].pc = "idle" /\ n \notin closed
  /\ runtimes' = runtimes \ {n}
  /\ TunnelTo(n, "remove")
  /\ UNCHANGED <<starts, listed, entry, faults, loop, expired, closed, gaveUp, request>>

\* The field is removed, with up to MaxTries attempts; then an error is returned and
\* the plugin stays listed.
RemoveState(n) ==
  /\ tunnel[n].pc = "remove"
  /\ \/ Put(n, "none") /\ TunnelTo(n, "delete") /\ UNCHANGED <<gaveUp, faults>>
     \/ /\ UNCHANGED entry /\ Fault
        /\ IF tunnel[n].tries + 1 < MaxTries
             THEN tunnel' = [tunnel EXCEPT ![n].tries = @ + 1] /\ UNCHANGED gaveUp
             ELSE TunnelTo(n, "idle") /\ gaveUp' = gaveUp \cup {n}
  /\ UNCHANGED <<runtimes, starts, listed, loop, expired, closed, request>>

\* Mutant: the plugin stays listed.
DeletePlugin_Kept(n) ==
  /\ tunnel[n].pc = "delete"
  /\ TunnelTo(n, "idle")
  /\ UNCHANGED <<runtimes, starts, listed, entry, faults, loop, expired, closed, gaveUp, request>>

DeletePlugin(n) ==
  /\ tunnel[n].pc = "delete"
  /\ listed' = listed \ {n}
  /\ TunnelTo(n, "idle")
  /\ UNCHANGED <<runtimes, starts, entry, faults, loop, expired, closed, gaveUp, request>>

------------------------------------------------------------------------------
(* The loop of the cluster: schedulePlugins on every node, the collector on the
   master.  One goroutine does both. *)

\* Time passes for the field of a node.
RegTick(n) ==
  /\ entry[n] \in {"fresh", "stale"}
  /\ entry' = [entry EXCEPT ![n] = IF @ = "fresh" THEN "stale" ELSE "expired"]
  /\ UNCHANGED <<runtimes, starts, listed, faults, tunnel, loop, expired, closed, gaveUp, request>>

\* schedulePlugins finds the plugin in the map, last scheduled long enough ago, and
\* looks for it again ...  (One unregistered between the two looks had its field removed
\* before it left the map; doPluginStateUpdate removes it once more, which changes nothing.)
ScheduleChecks(n) ==
  /\ loop[n] = "idle" /\ n \in listed \ closed
  /\ loop' = [loop EXCEPT ![n] = "write"]
  /\ UNCHANGED <<runtimes, starts, listed, entry, faults, tunnel, expired, closed, gaveUp, request>>

\* ... and writes its field, listed or not by now.
ScheduleWrites(n) ==
  /\ loop[n] = "write"
  /\ \/ Put(n, "fresh") /\ UNCHANGED faults
     \/ UNCHANGED entry /\ Fault
  /\ loop' = [loop EXCEPT ![n] = "idle"]
  /\ UNCHANGED <<runtimes, starts, listed, tunnel, expired, closed, gaveUp, request>>

\* forceGCNodePlugins of a node the master takes for disconnected; its own entry of
\* the map goes too.
CollectNode(n) ==
  /\ loop[RegMaster] = "idle" /\ entry[n] # "none"
  /\ Put(n, "none")
  /\ listed' = IF n = RegMaster THEN listed \ {n} ELSE listed
  /\ UNCHANGED <<runtimes, starts, faults, tunnel, loop, expired, closed, gaveUp, request>>

\* autoGCPlugins reads the fields that are not active any more ...
CollectScan ==
  /\ loop[RegMaster] = "idle"
  /\ expired' = {n \in RegNodes : entry[n] = "expired"} /\ expired' # {}
  /\ loop' = [loop EXCEPT ![RegMaster] = "collect"]
  /\ UNCHANGED <<runtimes, starts, listed, entry, faults, tunnel, closed, gaveUp, request>>

\* ... and removes each, whatever it is now, by its identity and by its key.
CollectOne(n) ==
  /\ loop[RegMaster] = "collect" /\ n \in expired
  /\ Put(n, "none")
  /\ listed' = IF n = RegMaster THEN listed \ {n} ELSE listed
  /\ expired' = expired \ {n}
  /\ loop' = IF expired' = {} THEN [loop EXCEPT ![RegMaster] = "idle"] ELSE loop
  /\ UNCHANGED <<runtimes, starts, faults, tunnel, closed, gaveUp, request>>

\* A command fails: the collection ends.
CollectFails ==
  /\ loop[RegMaster] = "collect"
  /\ Fault
  /\ expired' = {} /\ loop' = [loop EXCEPT ![RegMaster] = "idle"]
  /\ UNCHANGED <<runtimes, starts, listed, entry, tunnel, closed, gaveUp, request>>

\* A node other than the master closes (removeSelfNode, which may fail) or crashes; the
\* request it holds gets no answer but an error.
LeaveCluster(n) ==
  /\ n # RegMaster /\ n \notin closed
  /\ closed' = closed \cup {n} /\ runtimes' = runtimes \ {n} /\ listed' = listed \ {n}
  /\ TunnelTo(n, "idle") /\ loop' = [loop EXCEPT ![n] = "idle"]
  /\ Put(n, "none") \/ UNCHANGED entry
  /\ request' = IF request = n THEN "error" ELSE request
  /\ UNCHANGED <<starts, faults, expired, gaveUp>>

------------------------------------------------------------------------------
(* RedirectPluginInvoke *)

\* The runtime is on this node, or it is not.
NeedRedirecting(n) == n \notin runtimes

\* FetchPluginAvailableNodesById: the fields that are no longer fresh are removed ...
DropStale ==
  entry' = [m \in RegNodes |-> IF entry[m] = "fresh" THEN "fresh" ELSE "none"]

\* ... and of the others the nodes that this node knows are returned.
AvailableNodes(known) == {m \in known : entry[m] = "fresh"}

\* RedirectRequest: the request goes to the node, and one that has left does not answer.
RedirectRequest(m) == IF m \in closed THEN "error" ELSE m

\* RedirectPluginInvoke: without need the request is served here; otherwise it goes to
\* the first of the available nodes, which may be any, this one included.
Route(n) ==
  /\ request = n
  /\ \/ ~NeedRedirecting(n) /\ request' = "ok" /\ UNCHANGED <<entry, faults>>
     \/ /\ NeedRedirecting(n) /\ DropStale /\ UNCHANGED faults
        /\ \E known \in SUBSET RegNodes :
             IF AvailableNodes(known) = {} THEN request' = "error"
             ELSE \E m \in AvailableNodes(known) : request' = RedirectRequest(m)
     \/ NeedRedirecting(n) /\ request' = "error" /\ UNCHANGED entry /\ Fault
  /\ UNCHANGED <<runtimes, starts, listed, tunnel, loop, expired, closed, gaveUp>>

------------------------------------------------------------------------------
TunnelStep(n) ==
  \/ StorePlugin(n) \/ TunnelChecks(n) \/ TunnelWrites(n) \/ RemoveState(n) \/ DeletePlugin(n)

RegNext ==
  \/ \E n \in RegNodes :
       \/ RuntimeReady(n) \/ RuntimeStops(n) \/ TunnelStep(n) \/ RegTick(n)
       \/ ScheduleChecks(n) \/ ScheduleWrites(n) \/ CollectNode(n) \/ CollectOne(n)
       \/ LeaveCluster(n) \/ Route(n)
  \/ CollectScan \/ CollectFails

\* Time passes, threads and tickers go on; the bound on faults says that Redis does not
\* fail for ever.
RegFairness ==
  /\ \A n \in RegNodes :
       /\ WF_regVars(RegTick(n)) /\ WF_regVars(TunnelStep(n)) /\ WF_regVars(Route(n))
       /\ WF_regVars(ScheduleChecks(n)) /\ WF_regVars(ScheduleWrites(n))
       /\ WF_regVars(CollectOne(n))
  /\ SF_regVars(CollectScan)

------------------------------------------------------------------------------
(* Properties *)

\* The type of the state.
RegTypeOK ==
  /\ runtimes \subseteq RegNodes /\ listed \subseteq RegNodes /\ faults \in 0..MaxFaults
  /\ closed \subseteq RegNodes /\ gaveUp \subseteq RegNodes /\ expired \subseteq RegNodes
  /\ starts \in [RegNodes -> 0..MaxStarts] /\ entry \in [RegNodes -> Ages \cup {"none"}]
  /\ tunnel \in [RegNodes -> [pc : TunnelPCs, tries : 0..(MaxTries - 1)]]
  /\ loop \in [RegNodes -> {"idle", "write", "collect"}]
  /\ request \in RegNodes \cup {"ok", "error"}

\* "once a plugin is not removed, it will be gc by the master node" (plugin.go:127):
\* the field of a node without the runtime goes away, or a runtime comes up there,
\* although a scheduler that looked before the runtime stopped may write it again.
\* Not so where UnregisterPlugin has given up: the node goes on refreshing the field.
OrphanCollected ==
  \A n \in RegNodes :
    (entry[n] # "none" /\ n \notin runtimes) ~>
      (entry[n] = "none" \/ n \in runtimes \/ n \in gaveUp)

\* "RegisterPlugin registers a plugin to the cluster, and start to be scheduled": a
\* runtime on a node that is not the master is advertised, and again after a collection
\* on a reading that was out of date.  (The master that collects its own field forgets
\* the plugin.)
RuntimeAdvertised ==
  \A n \in RegNodes \ {RegMaster} :
    (n \in runtimes) ~> (entry[n] = "fresh" \/ n \notin runtimes)

\* A redirected request is answered: it does not travel for ever between nodes that
\* advertise the plugin and do not have it, unless UnregisterPlugin has given up.
RequestAnswered == <>(request \in {"ok", "error"} \/ gaveUp # {})
==============================================================================
