------------------------------ MODULE MCCluster ------------------------------
(* Small instances of Master and of PluginState in one run.  They share no state: *)
(* unit says which of them a behaviour is about, and the other rests.             *)
EXTENDS Master, PluginState

CONSTANTS n1, n2, n3

VARIABLE unit

clusterVars == <<unit, vars, regVars>>

ClusterInit ==
  /\ unit \in {"master", "registry"}
  /\ Init
  /\ RegInit /\ (unit = "master" => request = RegMaster)

ClusterNext ==
  \/ unit = "master" /\ Next /\ UNCHANGED <<unit, regVars>>
  \/ unit = "registry" /\ RegNext /\ UNCHANGED <<unit, vars>>

\* Fairness of Master and RegFairness, each of its own unit.
ClusterFairness ==
  /\ WF_vars(unit = "master" /\ Tick)
  /\ \A n \in Nodes : WF_vars(unit = "master" /\ LockTick(n))
  /\ \A n \in RegNodes :
       /\ WF_regVars(unit = "registry" /\ RegTick(n))
       /\ WF_regVars(unit = "registry" /\ TunnelStep(n))
       /\ WF_regVars(unit = "registry" /\ Route(n))
       /\ WF_regVars(unit = "registry" /\ ScheduleChecks(n))
       /\ WF_regVars(unit = "registry" /\ ScheduleWrites(n))
       /\ WF_regVars(unit = "registry" /\ CollectOne(n))
  /\ SF_regVars(unit = "registry" /\ CollectScan)

ClusterSpec == ClusterInit /\ [][ClusterNext]_clusterVars /\ ClusterFairness

\* The registry: a field without a runtime is collected, a runtime is advertised again
\* after a collection on an old reading, and a request that is redirected along the
\* registry is answered or refused (PluginState).
RegistryConverges ==
  /\ []RegTypeOK
  /\ OrphanCollected
  /\ RuntimeAdvertised
  /\ unit = "registry" => RequestAnswered
==============================================================================
