-------------------------------- MODULE Master --------------------------------
(***************************************************************************)
(* Master election of the cluster: preemptive.go and the tickerLockMaster  *)
(* case of clusterLifetime in internal/cluster.  The slot is a Redis key   *)
(* with a time to live.  A node that sets the key is the master from then  *)
(* on, and refreshes the key at every tick of its loop.                    *)
(*                                                                         *)
(* Time passes in steps of the action Tick.  The loop of a node also votes *)
(* (HTTP health checks of every address of every node), collects garbage   *)
(* and takes Redis locks, all of which can keep it from its next tick.     *)
(***************************************************************************)
EXTENDS Integers, FiniteSets

CONSTANTS
  Nodes,
  LockTTL,     \* masterLockExpiredTime
  Interval,    \* masterLockingInterval
  MaxLost,     \* bound: SETNX calls whose reply is lost
  None

ASSUME MasterAssumption ==
  /\ None \notin Nodes
  /\ LockTTL \in Nat /\ Interval \in Nat
  /\ 0 < Interval /\ Interval < LockTTL
  /\ MaxLost \in Nat

VARIABLES
  owner,      \* value of PREEMPTION_LOCK_KEY, or None
  ttl,        \* what is left of its time to live
  running,    \* nodes whose loop runs
  iAmMaster,  \* nodes whose flag is set
  since,      \* time since the last lock tick of a node
  lost,       \* replies lost so far
  late        \* history: a master has missed a refresh, or one has failed

vars == <<owner, ttl, running, iAmMaster, since, lost, late>>

\* The nodes that act as master: they collect the garbage of the cluster.
Masters == running \cap iAmMaster

Init ==
  /\ owner = None /\ ttl = 0
  /\ running = {} /\ iAmMaster = {}
  /\ since = [n \in Nodes |-> 0]
  /\ lost = 0 /\ late = FALSE

\* Launch of a process: NewCluster gives it a fresh flag.
Launch(n) ==
  /\ n \notin running
  /\ running' = running \cup {n}
  /\ iAmMaster' = iAmMaster \ {n}
  /\ since' = [since EXCEPT ![n] = 0]
  /\ UNCHANGED <<owner, ttl, lost, late>>

\* The process ends or Close stops the loop: the key is left to expire.
Stop(n) ==
  /\ n \in running
  /\ running' = running \ {n}
  /\ UNCHANGED <<owner, ttl, iAmMaster, since, lost, late>>

\* Mutant: SET in place of SETNX.
LockMaster_Set(n) ==
  /\ n \in running \ iAmMaster
  /\ owner' = n /\ ttl' = LockTTL /\ iAmMaster' = iAmMaster \cup {n}
  /\ since' = [since EXCEPT ![n] = 0]
  /\ UNCHANGED <<running, lost, late>>

\* Mutant: the node that has set the key does not note that it is the master.
LockMaster_NoFlag(n) ==
  /\ n \in running \ iAmMaster
  /\ IF owner = None THEN owner' = n /\ ttl' = LockTTL ELSE UNCHANGED <<owner, ttl>>
  /\ since' = [since EXCEPT ![n] = 0]
  /\ UNCHANGED <<running, iAmMaster, lost, late>>

\* lockMaster: SETNX, which sets the key only when it is absent.
LockMaster(n) ==
  /\ n \in running \ iAmMaster
  /\ IF owner = None
       THEN owner' = n /\ ttl' = LockTTL /\ iAmMaster' = iAmMaster \cup {n}
       ELSE UNCHANGED <<owner, ttl, iAmMaster>>
  /\ since' = [since EXCEPT ![n] = 0]
  /\ UNCHANGED <<running, lost, late>>

\* SETNX is done by the server but its reply is lost: the retry finds the key
\* present and lockMaster answers false.
LockMasterReplyLost(n) ==
  /\ n \in running \ iAmMaster
  /\ owner = None /\ lost < MaxLost
  /\ owner' = n /\ ttl' = LockTTL
  /\ since' = [since EXCEPT ![n] = 0]
  /\ lost' = lost + 1
  /\ UNCHANGED <<running, iAmMaster, late>>

\* Mutant: the master does not refresh the key.
UpdateMaster_Forgotten(n) ==
  /\ n \in Masters
  /\ since' = [since EXCEPT ![n] = 0]
  /\ UNCHANGED <<owner, ttl, running, iAmMaster, lost, late>>

\* updateMaster: EXPIRE refreshes whatever key is there; neither its absence nor
\* its value is looked at.
UpdateMaster(n) ==
  /\ n \in Masters
  /\ ttl' = IF owner = None THEN ttl ELSE LockTTL
  /\ since' = [since EXCEPT ![n] = 0]
  /\ UNCHANGED <<owner, running, iAmMaster, lost, late>>

\* A refresh that fails is only logged.
UpdateMasterFails(n) ==
  /\ n \in Masters
  /\ since' = [since EXCEPT ![n] = 0]
  /\ late' = TRUE
  /\ UNCHANGED <<owner, ttl, running, iAmMaster, lost>>

\* A unit of time; the key expires with its time to live.
Tick ==
  /\ late' = (late \/ \E n \in Masters : since[n] >= Interval)
  /\ since' = [n \in Nodes |-> IF since[n] < Interval THEN since[n] + 1 ELSE since[n]]
  /\ ttl' = IF ttl > 0 THEN ttl - 1 ELSE 0
  /\ owner' = IF ttl > 1 THEN owner ELSE None
  /\ UNCHANGED <<running, iAmMaster, lost>>

LockTick(n) == LockMaster(n) \/ UpdateMaster(n)

Next ==
  \/ \E n \in Nodes :
       \/ Launch(n) \/ Stop(n)
       \/ LockMaster(n) \/ UpdateMaster(n)
       \/ LockMasterReplyLost(n) \/ UpdateMasterFails(n)
  \/ Tick

\* A running loop reaches its tick again and again, and time passes.
Fairness == WF_vars(Tick) /\ \A n \in Nodes : WF_vars(LockTick(n))

Spec == Init /\ [][Next]_vars /\ Fairness

------------------------------------------------------------------------------
TypeOK ==
  /\ owner \in Nodes \cup {None}
  /\ ttl \in 0..LockTTL
  /\ running \in SUBSET Nodes /\ iAmMaster \in SUBSET Nodes
  /\ since \in [Nodes -> 0..Interval]
  /\ lost \in Nat /\ late \in BOOLEAN

\* At most one node acts as master ("multiple master" is an error of the tests).
AtMostOneMaster == \A m, n \in Masters : m = n

\* As long as the masters refresh the key in time there is at most one of them,
\* although nodes crash, restart and lose replies.
OneWhilePunctual == ~late => AtMostOneMaster

\* Why: a running master still owns the key, whose remaining time covers what is
\* left until the latest moment of the next refresh.
MasterOwnsKey ==
  ~late => \A n \in Masters : owner = n /\ LockTTL - since[n] <= ttl

\* A node that keeps running gets a master to work with: one that has crashed or
\* was closed, or whose SETNX reply was lost, is replaced after the key expires.
MasterEventually ==
  \A n \in Nodes : n \in running ~> (Masters # {} \/ n \notin running)
==============================================================================
