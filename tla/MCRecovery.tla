------------------------------ MODULE MCRecovery ------------------------------
(* What comes right again although a daemon or its locks were lost: the entry of  *)
(* a node (NodeStatus) and the record of an install task (InstallTask), in one    *)
(* run.  They share no state: unit says which of them a behaviour is about, and   *)
(* the other rests in an initial state.                                           *)
EXTENDS NodeStatus

CONSTANTS n1, n2, t1, p1

CONSTANTS TaskIds, Plugins   \* of InstallTask

VARIABLES unit, rows, jobs, light, upgrades, installed, installing, timers, aged,
          copies, daemon, recycle, unwritten

Task == INSTANCE InstallTask

taskVars == <<rows, jobs, light, upgrades, installed, installing, timers, aged, copies,
              daemon, recycle, unwritten>>
recoveryVars == <<unit, vars, taskVars>>

RecoveryInit ==
  /\ unit \in {"nodes", "task"}
  /\ Init
  /\ Task!TaskInit /\ (unit # "task" => installed = {})

RecoveryNext ==
  \/ unit = "nodes" /\ Next /\ UNCHANGED <<unit, taskVars>>
  \/ unit = "task" /\ Task!TaskNext /\ UNCHANGED <<unit, vars>>

\* The fairness of each module, of its own unit.
RecoveryFairness ==
  /\ \A t \in Threads :
       /\ WF_vars(unit = "nodes" /\ JobStep(t))
       /\ SF_vars(unit = "nodes" /\ BeginUpdate(t))
       /\ SF_vars(unit = "nodes" /\ job[t] = "update" /\ Lock(t))
  /\ \A n \in Nodes : WF_vars(unit = "nodes" /\ Expire(n))
  /\ \A t \in TaskIds : WF_taskVars(unit = "task" /\ Task!Age(t))
  /\ WF_taskVars(unit = "task" /\ Task!MonitorReads)
  /\ SF_taskVars(unit = "task" /\ Task!MonitorWrites)

RecoverySpec == RecoveryInit /\ [][RecoveryNext]_recoveryVars /\ RecoveryFairness

------------------------------------------------------------------------------
\* A node that stays comes back into the status map, even if a master removed its
\* entry on a stale reading and although attempts to lock fail (NodeStatus).
NodeIsListedAgain == unit = "nodes" => NodeReturns

\* A task does not stay running for ever, whatever becomes of its jobs and of the
\* daemon that ran them (InstallTask).
TaskIsClosed == unit = "task" => Task!TaskCloses
==============================================================================
