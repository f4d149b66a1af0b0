----------------------------- MODULE MasterProofs -----------------------------
(***************************************************************************)
(* Proofs about module Master: as long as no master is late, at most one   *)
(* node acts as master, for any number of nodes and any pair of intervals  *)
(* with Interval < LockTTL.                                                *)
(***************************************************************************)
EXTENDS Master, TLAPS

\* Every reachable state has its type (the state lockMaster, updateMaster and the
\* clock work on).
THEOREM MasterType == Spec => []TypeOK
<1>1. ASSUME Init PROVE TypeOK
  <2>1. late \in BOOLEAN
    BY <1>1, Zenon DEF Init
  <2> QED
    BY <1>1, <2>1, MasterAssumption DEF Init, TypeOK
<1>2. TypeOK /\ [Next]_vars => TypeOK'
  <2> SUFFICES ASSUME TypeOK, [Next]_vars PROVE TypeOK'
    OBVIOUS
  <2> USE MasterAssumption DEF TypeOK, Masters
  <2>1. ASSUME NEW n \in Nodes, Launch(n) PROVE TypeOK'
    BY <2>1 DEF Launch
  <2>2. ASSUME NEW n \in Nodes, Stop(n) PROVE TypeOK'
    BY <2>2 DEF Stop
  <2>3. ASSUME NEW n \in Nodes, LockMaster(n) PROVE TypeOK'
    BY <2>3 DEF LockMaster
  <2>4. ASSUME NEW n \in Nodes, UpdateMaster(n) PROVE TypeOK'
    BY <2>4 DEF UpdateMaster
  <2>5. ASSUME NEW n \in Nodes, LockMasterReplyLost(n) PROVE TypeOK'
    BY <2>5 DEF LockMasterReplyLost
  <2>6. ASSUME NEW n \in Nodes, UpdateMasterFails(n) PROVE TypeOK'
    BY <2>6 DEF UpdateMasterFails
  <2>7. CASE Tick
    BY <2>7 DEF Tick
  <2>8. CASE UNCHANGED vars
    BY <2>8 DEF vars
  <2> QED
    BY <2>1, <2>2, <2>3, <2>4, <2>5, <2>6, <2>7, <2>8 DEF Next
<1> QED
  BY <1>1, <1>2, PTL DEF Spec

\* The inductive step: a refresh leaves the full time to live, a unit of time
\* takes as much from the key as it adds to the time since the last refresh, and
\* no master that is in time lets more than Interval pass.
LEMMA MasterOwnsKeyStep ==
  ASSUME TypeOK, MasterOwnsKey, [Next]_vars
  PROVE  MasterOwnsKey'
<1> USE MasterAssumption DEF TypeOK, MasterOwnsKey, Masters
<1>1. ASSUME NEW n \in Nodes, Launch(n) PROVE MasterOwnsKey'
  BY <1>1 DEF Launch
<1>2. ASSUME NEW n \in Nodes, Stop(n) PROVE MasterOwnsKey'
  BY <1>2 DEF Stop
<1>3. ASSUME NEW n \in Nodes, LockMaster(n) PROVE MasterOwnsKey'
  BY <1>3 DEF LockMaster
<1>4. ASSUME NEW n \in Nodes, UpdateMaster(n) PROVE MasterOwnsKey'
  BY <1>4 DEF UpdateMaster
<1>5. ASSUME NEW n \in Nodes, LockMasterReplyLost(n) PROVE MasterOwnsKey'
  BY <1>5 DEF LockMasterReplyLost
<1>6. ASSUME NEW n \in Nodes, UpdateMasterFails(n) PROVE MasterOwnsKey'
  BY <1>6 DEF UpdateMasterFails
<1>7. CASE Tick
  <2> SUFFICES ASSUME ~late', NEW n \in running, n \in iAmMaster
               PROVE  owner' = n /\ LockTTL - since'[n] <= ttl'
    BY <1>7 DEF Tick
  <2>0. ~late /\ ~(\E m \in Masters : since[m] >= Interval)
    <3>1. late' = (late \/ \E m \in Masters : since[m] >= Interval)
      BY <1>7 DEF Tick
    <3> HIDE DEF TypeOK, MasterOwnsKey, Masters
    <3> QED
      BY <3>1, Zenon
  <2>1. since[n] < Interval /\ since'[n] = since[n] + 1
    BY <1>7, <2>0 DEF Tick
  <2>2. owner = n /\ LockTTL - since[n] <= ttl
    BY <2>0
  <2>3. ttl > 1 /\ ttl' = ttl - 1 /\ owner' = owner
    BY <1>7, <2>1, <2>2 DEF Tick
  <2> QED
    BY <2>1, <2>2, <2>3
<1>8. CASE UNCHANGED vars
  BY <1>8 DEF vars
<1> QED
  BY <1>1, <1>2, <1>3, <1>4, <1>5, <1>6, <1>7, <1>8 DEF Next

\* A running master owns the key for as long as its next refresh can take.
THEOREM MasterOwns == Spec => []MasterOwnsKey
<1>1. Init => MasterOwnsKey
  BY DEF Init, MasterOwnsKey, Masters
<1> QED
  BY <1>1, MasterType, MasterOwnsKeyStep, PTL DEF Spec

\* And so two nodes never act as master at the same time while they are punctual: both would own the key.
THEOREM OneMaster == Spec => []OneWhilePunctual
<1>1. MasterOwnsKey => OneWhilePunctual
  BY DEF MasterOwnsKey, OneWhilePunctual, AtMostOneMaster
<1> QED
  BY <1>1, MasterOwns, PTL
==============================================================================
