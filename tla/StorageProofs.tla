---------------------------- MODULE StorageProofs ----------------------------
(***************************************************************************)
(* Proofs about the units of MCServices that keep shared records:          *)
(* NodeStatus, the entries of the nodes in Redis, and Persistence, the     *)
(* objects of a tenant.                                                    *)
(***************************************************************************)
EXTENDS MCServices, SequenceTheorems, Sequences, FiniteSetTheorems, TLAPS

------------------------------------------------------------------------------
(* NodeStatus: as long as no attempt to lock fails, the lock of an entry keeps the
   threads of all nodes apart, and no ping and no vote is overwritten, for any number
   of nodes and any length of time, with crashes, failing commands and locks left
   behind. *)

\* A thread in its section has set the lock key itself, and a thread at work has
\* a job: only updates and votes read an entry, and what they are about to write
\* back is there.
HolderHasLock ==
  \A t \in Threads :
    /\ InSection(t) => lock[target[t]] = t
    /\ pc[t] \notin {"idle", "end"} => job[t] # "none"
    /\ pc[t] = "read" => job[t] \in {"update", "vote"}
    /\ pc[t] = "write" => copy[t] # None

StatusInv == TypeOK /\ HolderHasLock /\ NoLostUpdate

\* A thread belongs to a node.
LEMMA ThreadNode == \A t \in Threads : t[1] \in Nodes
  BY NodeStatusAssumption DEF Threads, Loops

\* The invariant is preserved by every step, one action after the other.
LEMMA StatusStep ==
  ASSUME "lock" \notin Faults, StatusInv, [Next]_vars
  PROVE  StatusInv'
<1> USE NodeStatusAssumption, NoneAssumption, ThreadNode
    DEF StatusInv, TypeOK, HolderHasLock, NoLostUpdate, InSection, Goto, local, PCs, Jobs, Status
<1>1. ASSUME NEW t \in Threads, BeginUpdate(t) PROVE StatusInv'
  BY <1>1 DEF BeginUpdate, Start
<1>2. ASSUME NEW t \in Threads, BeginVote(t) PROVE StatusInv'
  BY <1>2 DEF BeginVote, Start, Present
<1>3. ASSUME NEW t \in Threads, BeginGC(t) PROVE StatusInv'
  BY <1>3 DEF BeginGC, Start, Present
<1>4. ASSUME NEW t \in Threads, BeginLeave(t) PROVE StatusInv'
  BY <1>4 DEF BeginLeave, Start
<1>5. ASSUME NEW t \in Threads, NextEntry(t) PROVE StatusInv'
  <2>1. TypeOK'
    <3>1. ASSUME NEW m \in todo[t],
                 target' = [target EXCEPT ![t] = m],
                 view' = IF job[t] = "vote" THEN view ELSE [view EXCEPT ![t[1]] = @ \ {m}]
          PROVE  target' \in [Threads -> Nodes] /\ view' \in [Nodes -> SUBSET Nodes]
      <4>1. m \in Nodes /\ t[1] \in Nodes
        OBVIOUS
      <4>2. view[t[1]] \ {m} \in SUBSET Nodes
        BY <4>1
      <4> QED
        BY <3>1, <4>1, <4>2
    <3>2. target' \in [Threads -> Nodes] /\ view' \in [Nodes -> SUBSET Nodes]
      BY <1>5, <3>1 DEF NextEntry
    <3>3. /\ pc' \in [Threads -> PCs] /\ job' \in [Threads -> Jobs]
          /\ todo' \in [Threads -> SUBSET Nodes]
      BY <1>5 DEF NextEntry
    <3>4. UNCHANGED <<now, status, lock, copy>>
      BY <1>5 DEF NextEntry
    <3> QED
      BY <3>2, <3>3, <3>4
  <2>2. HolderHasLock'
    BY <1>5 DEF NextEntry
  <2>3. NoLostUpdate'
    BY <1>5 DEF NextEntry
  <2> QED
    BY <2>1, <2>2, <2>3
<1>6. ASSUME NEW t \in Threads, Lock(t) PROVE StatusInv'
  <2>1. TypeOK'
    BY <1>6 DEF Lock
  <2>2. HolderHasLock'
    BY <1>6 DEF Lock
  <2>3. NoLostUpdate'
    BY <1>6 DEF Lock
  <2> QED
    BY <2>1, <2>2, <2>3
<1>7. ASSUME NEW t \in Threads, LockFails(t) PROVE StatusInv'
  BY <1>7 DEF LockFails
<1>8. ASSUME NEW t \in Threads, Read(t) PROVE StatusInv'
  <2>1. TypeOK'
    BY <1>8 DEF Read
  <2>2. HolderHasLock'
    BY <1>8 DEF Read
  <2>3. NoLostUpdate'
    BY <1>8 DEF Read
  <2> QED
    BY <2>1, <2>2, <2>3
<1>9. ASSUME NEW t \in Threads, Write(t) PROVE StatusInv'
  BY <1>9 DEF Write
<1>10. ASSUME NEW t \in Threads, FetchNodes(t) PROVE StatusInv'
  BY <1>10 DEF FetchNodes, Present
<1>11. ASSUME NEW t \in Threads, StoreNodes(t) PROVE StatusInv'
  BY <1>11 DEF StoreNodes
<1>12. ASSUME NEW t \in Threads, Delete(t) PROVE StatusInv'
  BY <1>12 DEF Delete
<1>13. ASSUME NEW t \in Threads, Unlock(t) PROVE StatusInv'
  <2>1. TypeOK'
    <3>1. CASE job[t] # "update"
      BY <1>13, <3>1 DEF Unlock, Continue
    <3>2. CASE job[t] = "update" /\ t \in Loops
      BY <1>13, <3>2 DEF Unlock, Continue
    <3>3. CASE job[t] = "update" /\ t \notin Loops
      <4>1. Present \ {t[1]} \in SUBSET Nodes
        BY DEF Present
      <4>2. todo' \in [Threads -> SUBSET Nodes]
        BY <1>13, <3>3, <4>1 DEF Unlock, Continue
      <4> QED
        BY <1>13, <3>3, <4>2 DEF Unlock, Continue
    <3> QED
      BY <3>1, <3>2, <3>3
  <2>2. HolderHasLock'
    BY <1>13 DEF Unlock, Continue, Present
  <2>3. NoLostUpdate'
    BY <1>13 DEF Unlock, Continue, Present
  <2> QED
    BY <2>1, <2>2, <2>3
<1>14. ASSUME NEW t \in Threads, SectionFails(t) PROVE StatusInv'
  BY <1>14 DEF SectionFails
<1>15. ASSUME NEW t \in Threads, UnlockFails(t) PROVE StatusInv'
  <2>1. TypeOK'
    <3>1. CASE job[t] # "update"
      BY <1>15, <3>1 DEF UnlockFails, Continue
    <3>2. CASE job[t] = "update" /\ t \in Loops
      BY <1>15, <3>2 DEF UnlockFails, Continue
    <3>3. CASE job[t] = "update" /\ t \notin Loops
      <4>1. Present \ {t[1]} \in SUBSET Nodes
        BY DEF Present
      <4>2. todo' \in [Threads -> SUBSET Nodes]
        BY <1>15, <3>3, <4>1 DEF UnlockFails, Continue
      <4> QED
        BY <1>15, <3>3, <4>2 DEF UnlockFails, Continue
    <3> QED
      BY <3>1, <3>2, <3>3
  <2>2. HolderHasLock'
    BY <1>15 DEF UnlockFails, Continue, Present
  <2>3. NoLostUpdate'
    BY <1>15 DEF UnlockFails, Continue, Present
  <2> QED
    BY <2>1, <2>2, <2>3
<1>16. ASSUME NEW n \in Nodes, Crash(n) PROVE StatusInv'
  BY <1>16 DEF Crash
<1>17. ASSUME NEW n \in Nodes, Expire(n) PROVE StatusInv'
  BY <1>17 DEF Expire
<1>18. CASE Tick
  BY <1>18 DEF Tick
<1>19. CASE UNCHANGED vars
  BY <1>19 DEF vars
<1> QED
  BY <1>1, <1>2, <1>3, <1>4, <1>5, <1>6, <1>7, <1>8, <1>9, <1>10, <1>11, <1>12,
     <1>13, <1>14, <1>15, <1>16, <1>17, <1>18, <1>19 DEF Next, JobStep

\* All three parts hold of every reachable state.
THEOREM StatusHolds == ASSUME "lock" \notin Faults PROVE Spec => []StatusInv
<1>1. Init => StatusInv
  BY NodeStatusAssumption, ThreadNode
     DEF Init, StatusInv, TypeOK, HolderHasLock, NoLostUpdate, InSection, PCs, Jobs
<1> QED
  BY <1>1, StatusStep, PTL DEF Spec

\* Two threads are never in the section of one entry: both would hold its lock.
THEOREM Exclusive == ASSUME "lock" \notin Faults PROVE Spec => []SectionExclusive
<1>1. StatusInv => SectionExclusive
  BY DEF StatusInv, HolderHasLock, SectionExclusive
<1> QED
  BY <1>1, StatusHolds, PTL

\* What voteAddresses and updateNodeStatus write back replaces the very version
\* they have read.
THEOREM UpdatesKept == ASSUME "lock" \notin Faults PROVE Spec => []NoLostUpdate
<1>1. StatusInv => NoLostUpdate
  BY DEF StatusInv
<1> QED
  BY <1>1, StatusHolds, PTL

------------------------------------------------------------------------------
(* Persistence: sums of sizes *)

\* The instance takes these operators from FiniteSets, too.
LEMMA StoreFiniteSets ==
  ASSUME NEW S
  PROVE  (Store!IsFiniteSet(S) <=> IsFiniteSet(S)) /\ Store!Cardinality(S) = Cardinality(S)
<1>1. Store!IsFiniteSet(S) <=> IsFiniteSet(S)
  BY Zenon DEF Store!IsFiniteSet, IsFiniteSet
<1>2. Store!Cardinality(S) = Cardinality(S)
  BY Zenon DEF Store!Cardinality, Cardinality
<1> QED
  BY <1>1, <1>2

\* The bytes of all but one and the bytes of that one are all the bytes.
LEMMA BytesSplit ==
  ASSUME MaxBytes \in Nat, NEW S, IsFiniteSet(S), NEW f \in [S -> 0..MaxBytes], NEW k \in S
  PROVE  LET rest == Cardinality(Store!BytesOf(S \ {k}, f))
         IN  /\ rest \in Nat /\ rest <= (Cardinality(S) - 1) * MaxBytes
             /\ Cardinality(Store!BytesOf(S, f)) = rest + f[k]
<1> DEFINE R == Store!BytesOf(S \ {k}, f)
           K == {k} \X (1..f[k])
<1>1. IsFiniteSet(S \ {k}) /\ Cardinality(S \ {k}) = Cardinality(S) - 1
  BY FS_RemoveElement
<1>2. f[k] \in Nat /\ f[k] <= MaxBytes
  OBVIOUS
<1>3. ASSUME NEW n \in Nat PROVE IsFiniteSet(1..n) /\ Cardinality(1..n) = n
  <2>1. Cardinality(1..n) = IF 1 > n THEN 0 ELSE n - 1 + 1
    BY FS_Interval
  <2> QED
    BY <2>1, FS_Interval
<1>4. IsFiniteSet((S \ {k}) \X (1..MaxBytes))
      /\ Cardinality((S \ {k}) \X (1..MaxBytes)) = (Cardinality(S) - 1) * MaxBytes
  <2>1. Cardinality((S \ {k}) \X (1..MaxBytes)) = Cardinality(S \ {k}) * Cardinality(1..MaxBytes)
    BY <1>1, <1>3, FS_Product, Zenon
  <2>2. IsFiniteSet((S \ {k}) \X (1..MaxBytes))
    BY <1>1, <1>3, FS_Product, Zenon
  <2> QED
    BY <1>1, <1>3, <2>1, <2>2, Zenon
<1>5. R \in SUBSET ((S \ {k}) \X (1..MaxBytes))
  BY DEF Store!BytesOf
<1>6. IsFiniteSet(R) /\ Cardinality(R) <= (Cardinality(S) - 1) * MaxBytes
  <2>1. IsFiniteSet(R) /\ Cardinality(R) <= Cardinality((S \ {k}) \X (1..MaxBytes))
    BY <1>4, <1>5, FS_Subset, Zenon
  <2> QED
    BY <1>4, <2>1
<1>7. IsFiniteSet({k}) /\ Cardinality({k}) = 1
  BY FS_Singleton
<1>8. IsFiniteSet(K) /\ Cardinality(K) = f[k]
  <2>1. IsFiniteSet(K) /\ Cardinality(K) = Cardinality({k}) * Cardinality(1..f[k])
    <3>1. IsFiniteSet({k}) /\ IsFiniteSet(1..f[k])
      BY <1>2, <1>3, <1>7
    <3> QED
      BY <3>1, FS_Product, Zenon
  <2>2. Cardinality(1..f[k]) = f[k]
    BY <1>2, <1>3
  <2> HIDE DEF K
  <2> QED
    BY <2>1, <2>2, <1>2, <1>7
<1>9. Store!BytesOf(S, f) = R \cup K
  <2>1. ASSUME NEW c \in Store!BytesOf(S, f) PROVE c \in R \cup K
    <3>1. PICK x \in S, n \in 1..MaxBytes : c = <<x, n>> /\ n <= f[x]
      BY <2>1 DEF Store!BytesOf
    <3>2. CASE x = k
      BY <3>1, <3>2, <1>2
    <3>3. CASE x # k
      BY <3>1, <3>3 DEF Store!BytesOf
    <3> QED
      BY <3>2, <3>3
  <2>2. ASSUME NEW c \in R PROVE c \in Store!BytesOf(S, f)
    BY <2>2 DEF Store!BytesOf
  <2>3. ASSUME NEW c \in K PROVE c \in Store!BytesOf(S, f)
    BY <2>3, <1>2 DEF Store!BytesOf
  <2> QED
    BY <2>1, <2>2, <2>3
<1>10. R \cap K = {}
  BY DEF Store!BytesOf
<1>11. Cardinality(R \cap K) = 0
  BY <1>10, FS_EmptySet
<1>12. Cardinality(R \cup K) = Cardinality(R) + Cardinality(K) - Cardinality(R \cap K)
  BY <1>6, <1>8, FS_Union
<1>13. Cardinality(R) \in Nat
  BY <1>6, FS_CardinalityType
<1> HIDE DEF R, K
<1>14. Cardinality(Store!BytesOf(S, f)) = Cardinality(R) + f[k]
  BY <1>8, <1>9, <1>11, <1>12, <1>13, <1>2
<1> QED
  BY <1>6, <1>13, <1>14 DEF R

\* The number of bytes, and a bound on it.
LEMMA BytesCount ==
  ASSUME MaxBytes \in Nat, NEW S, IsFiniteSet(S), NEW f \in [S -> 0..MaxBytes], NEW k \in S
  PROVE  /\ Cardinality(Store!BytesOf(S, f)) \in Nat
         /\ Cardinality(Store!BytesOf(S, f)) <= (Cardinality(S) - 1) * MaxBytes + f[k]
         /\ (Cardinality(S) - 1) * MaxBytes \in Nat
<1> DEFINE rest == Cardinality(Store!BytesOf(S \ {k}, f))
           most == (Cardinality(S) - 1) * MaxBytes
<1>1. /\ rest \in Nat /\ rest <= most
      /\ Cardinality(Store!BytesOf(S, f)) = rest + f[k]
  BY BytesSplit
<1>2. most \in Int
  BY FS_CardinalityType
<1>3. f[k] \in Nat
  OBVIOUS
<1> HIDE DEF rest, most
<1>4. Cardinality(Store!BytesOf(S, f)) \in Nat /\ Cardinality(Store!BytesOf(S, f)) <= most + f[k] /\ most \in Nat
  BY <1>1, <1>2, <1>3
<1> QED
  BY <1>4 DEF most

\* When one size changes, so does the number of all bytes.
LEMMA BytesUpdate ==
  ASSUME MaxBytes \in Nat, NEW S, IsFiniteSet(S), NEW k \in S,
         NEW f \in [S -> 0..MaxBytes], NEW g \in [S -> 0..MaxBytes],
         \A x \in S \ {k} : g[x] = f[x]
  PROVE  Cardinality(Store!BytesOf(S, g)) = Cardinality(Store!BytesOf(S, f)) - f[k] + g[k]
<1>1. Store!BytesOf(S \ {k}, f) = Store!BytesOf(S \ {k}, g)
  BY DEF Store!BytesOf
<1> DEFINE rest == Cardinality(Store!BytesOf(S \ {k}, f))
<1>2. rest \in Nat /\ Cardinality(Store!BytesOf(S, f)) = rest + f[k]
  BY BytesSplit
<1>3. Cardinality(Store!BytesOf(S, g)) = Cardinality(Store!BytesOf(S \ {k}, g)) + g[k]
  BY BytesSplit
<1>4. f[k] \in Int /\ g[k] \in Int
  OBVIOUS
<1> HIDE DEF rest
<1>5. Cardinality(Store!BytesOf(S, g)) = rest + g[k]
  BY <1>1, <1>3 DEF rest
<1> QED
  BY <1>2, <1>4, <1>5

\* Nothing has no bytes.
LEMMA BytesNone ==
  ASSUME MaxBytes \in Nat, NEW S, NEW f, \A x \in S : f[x] = 0
  PROVE  Cardinality(Store!BytesOf(S, f)) = 0
<1>1. Store!BytesOf(S, f) = {}
  BY DEF Store!BytesOf
<1> QED
  BY <1>1, FS_EmptySet

------------------------------------------------------------------------------
(* Persistence: the count *)

\* The bytes in the store, those stored and not yet counted, those replaced or removed
\* and still counted, and those the Saves that passed the quota will add.
InStore == Cardinality(Store!BytesOf(StoreKeys, s1))
NotYet == Cardinality(Store!BytesOf(StoreProcs, [q \in StoreProcs |-> Store!Uncounted(q)]))
Still == Cardinality(Store!BytesOf(StoreProcs, [q \in StoreProcs |-> Store!Overcounted(q)]))
Coming == Cardinality(Store!BytesOf(StoreProcs, [q \in StoreProcs |-> Store!Adds(q)]))
Slack == (Cardinality(StoreProcs) - 1) * MaxBytes

\* What the fields of an operation may be.
LEMMA OpFields ==
  ASSUME Store!StoreTypeOK, NEW q \in StoreProcs
  PROVE  /\ s4[q].val \in 0..MaxBytes /\ s4[q].old \in 0..MaxBytes /\ s4[q].pc \in Store!StorePCs
         /\ s4[q].key \in StoreKeys \cup {"none"}
         /\ s4[q].op \in {"none", "Save", "Load", "Delete", "Exist"}
BY DEF Store!StoreTypeOK, Store!OpShape

\* What a request counts is a size.
LEMMA StoreSizes ==
  ASSUME Store!StoreAssumption, Store!StoreTypeOK
  PROVE  /\ [q \in StoreProcs |-> Store!Uncounted(q)] \in [StoreProcs -> 0..MaxBytes]
         /\ [q \in StoreProcs |-> Store!Overcounted(q)] \in [StoreProcs -> 0..MaxBytes]
         /\ [q \in StoreProcs |-> Store!Adds(q)] \in [StoreProcs -> 0..MaxBytes]
         /\ s1 \in [StoreKeys -> 0..MaxBytes]
<1>1. ASSUME NEW q \in StoreProcs
      PROVE  Store!Uncounted(q) \in 0..MaxBytes /\ Store!Overcounted(q) \in 0..MaxBytes
             /\ Store!Adds(q) \in 0..MaxBytes
  <2>1. s4[q].val \in 0..MaxBytes /\ s4[q].old \in 0..MaxBytes /\ MaxBytes \in Nat
    BY OpFields DEF Store!StoreAssumption
  <2> QED
    BY <2>1 DEF Store!Uncounted, Store!Overcounted, Store!Adds
<1> QED
  BY <1>1 DEF Store!StoreTypeOK

\* How the sums change when one request moves and one object changes.
LEMMA StoreSums ==
  ASSUME Store!StoreAssumption, Store!StoreTypeOK, Store!StoreTypeOK',
         NEW q \in StoreProcs, \A r \in StoreProcs \ {q} : s4'[r] = s4[r]
  PROVE  /\ NotYet' = NotYet - Store!Uncounted(q) + Store!Uncounted(q)'
         /\ Still' = Still - Store!Overcounted(q) + Store!Overcounted(q)'
         /\ Coming' = Coming - Store!Adds(q) + Store!Adds(q)'
         /\ Coming' <= Slack + Store!Adds(q)'
         /\ NotYet \in Int /\ Still \in Int /\ Coming \in Nat /\ Slack \in Nat
         /\ Store!Uncounted(q) \in 0..MaxBytes /\ Store!Uncounted(q)' \in 0..MaxBytes
         /\ Store!Overcounted(q) \in 0..MaxBytes /\ Store!Overcounted(q)' \in 0..MaxBytes
         /\ Store!Adds(q) \in 0..MaxBytes /\ Store!Adds(q)' \in 0..MaxBytes
         /\ Store!Cardinality(StoreProcs) = Cardinality(StoreProcs)
<1> DEFINE U == [r \in StoreProcs |-> Store!Uncounted(r)]
           O == [r \in StoreProcs |-> Store!Overcounted(r)]
           A == [r \in StoreProcs |-> Store!Adds(r)]
<1>1. MaxBytes \in Nat /\ IsFiniteSet(StoreProcs)
  BY StoreFiniteSets DEF Store!StoreAssumption
<1>2. U \in [StoreProcs -> 0..MaxBytes] /\ O \in [StoreProcs -> 0..MaxBytes] /\ A \in [StoreProcs -> 0..MaxBytes]
  BY StoreSizes
<1>3. U' \in [StoreProcs -> 0..MaxBytes] /\ O' \in [StoreProcs -> 0..MaxBytes] /\ A' \in [StoreProcs -> 0..MaxBytes]
  <2>1. ASSUME NEW r \in StoreProcs
        PROVE  Store!Uncounted(r)' \in 0..MaxBytes /\ Store!Overcounted(r)' \in 0..MaxBytes
               /\ Store!Adds(r)' \in 0..MaxBytes
    <3>1. s4'[r].val \in 0..MaxBytes /\ s4'[r].old \in 0..MaxBytes
      BY DEF Store!StoreTypeOK, Store!OpShape
    <3> QED
      BY <3>1, <1>1 DEF Store!Uncounted, Store!Overcounted, Store!Adds
  <2> QED
    BY <2>1
<1>4. \A r \in StoreProcs \ {q} : U'[r] = U[r] /\ O'[r] = O[r] /\ A'[r] = A[r]
  BY DEF Store!Uncounted, Store!Overcounted, Store!Adds
<1>5. /\ U[q] = Store!Uncounted(q) /\ U'[q] = Store!Uncounted(q)'
      /\ O[q] = Store!Overcounted(q) /\ O'[q] = Store!Overcounted(q)'
      /\ A[q] = Store!Adds(q) /\ A'[q] = Store!Adds(q)'
  OBVIOUS
<1>6. NotYet = Cardinality(Store!BytesOf(StoreProcs, U)) /\ NotYet' = Cardinality(Store!BytesOf(StoreProcs, U'))
  BY DEF NotYet
<1>7. Still = Cardinality(Store!BytesOf(StoreProcs, O)) /\ Still' = Cardinality(Store!BytesOf(StoreProcs, O'))
  BY DEF Still
<1>8. Coming = Cardinality(Store!BytesOf(StoreProcs, A)) /\ Coming' = Cardinality(Store!BytesOf(StoreProcs, A'))
  BY DEF Coming
<1> HIDE DEF U, O, A
<1>9. NotYet' = NotYet - U[q] + U'[q]
  BY <1>1, <1>2, <1>3, <1>4, <1>6, BytesUpdate, ZenonT(30)
<1>10. Still' = Still - O[q] + O'[q]
  BY <1>1, <1>2, <1>3, <1>4, <1>7, BytesUpdate, ZenonT(30)
<1>11. Coming' = Coming - A[q] + A'[q]
  BY <1>1, <1>2, <1>3, <1>4, <1>8, BytesUpdate, ZenonT(30)
<1>12. NotYet \in Nat
  BY <1>1, <1>2, <1>6, BytesCount, ZenonT(30)
<1>13. Still \in Nat
  BY <1>1, <1>2, <1>7, BytesCount, ZenonT(30)
<1>14. Coming \in Nat
  BY <1>1, <1>2, <1>8, BytesCount, ZenonT(30)
<1>15. Coming' <= Slack + A'[q]
  BY <1>1, <1>3, <1>8, BytesCount, ZenonT(30) DEF Slack
<1>16. Slack \in Nat
  BY <1>1, <1>2, BytesCount, ZenonT(30) DEF Slack
<1>17. Store!Cardinality(StoreProcs) = Cardinality(StoreProcs)
  BY StoreFiniteSets
<1> QED
  BY <1>2, <1>3, <1>5, <1>9, <1>10, <1>11, <1>12, <1>13, <1>14, <1>15, <1>16, <1>17

------------------------------------------------------------------------------
(* Persistence: steps *)

\* What an operation becomes when it goes on or returns; the others stay.
LEMMA OpGoes ==
  ASSUME s4 \in [StoreProcs -> Store!OpShape], NEW q \in StoreProcs, NEW l \in Store!StorePCs,
         Store!GoOn(q, l)
  PROVE  /\ s4' \in [StoreProcs -> Store!OpShape]
         /\ s4'[q].op = s4[q].op /\ s4'[q].pc = l /\ s4'[q].key = s4[q].key /\ s4'[q].name = s4[q].name
         /\ s4'[q].val = s4[q].val /\ s4'[q].old = s4[q].old
         /\ \A r \in StoreProcs \ {q} : s4'[r] = s4[r]
BY DEF Store!GoOn, Store!OpShape

\* The same with a size read from the store into old.
LEMMA OpReadsOld ==
  ASSUME s4 \in [StoreProcs -> Store!OpShape], NEW q \in StoreProcs, NEW l \in Store!StorePCs,
         NEW n \in 0..MaxBytes, s4' = [s4 EXCEPT ![q].pc = l, ![q].old = n]
  PROVE  /\ s4' \in [StoreProcs -> Store!OpShape]
         /\ s4'[q].op = s4[q].op /\ s4'[q].pc = l /\ s4'[q].key = s4[q].key /\ s4'[q].name = s4[q].name
         /\ s4'[q].val = s4[q].val /\ s4'[q].old = n
         /\ \A r \in StoreProcs \ {q} : s4'[r] = s4[r]
BY DEF Store!OpShape

\* The same with an object read from the store into val.
LEMMA OpReadsVal ==
  ASSUME s4 \in [StoreProcs -> Store!OpShape], NEW q \in StoreProcs, NEW l \in Store!StorePCs,
         NEW n \in 0..MaxBytes, s4' = [s4 EXCEPT ![q].pc = l, ![q].val = n]
  PROVE  /\ s4' \in [StoreProcs -> Store!OpShape]
         /\ s4'[q].op = s4[q].op /\ s4'[q].pc = l /\ s4'[q].key = s4[q].key /\ s4'[q].name = s4[q].name
         /\ s4'[q].val = n /\ s4'[q].old = s4[q].old
         /\ \A r \in StoreProcs \ {q} : s4'[r] = s4[r]
BY DEF Store!OpShape

\* An operation that returns.
LEMMA OpReturns ==
  ASSUME s4 \in [StoreProcs -> Store!OpShape], NEW q \in StoreProcs, MaxBytes \in Nat,
         Store!Return(q)
  PROVE  /\ s4' \in [StoreProcs -> Store!OpShape]
         /\ s4'[q].op = "none" /\ s4'[q].pc = "idle" /\ s4'[q].key = "none" /\ s4'[q].name = "none"
         /\ s4'[q].val = 0 /\ s4'[q].old = 0
         /\ \A r \in StoreProcs \ {q} : s4'[r] = s4[r]
<1>1. Store!Idle \in Store!OpShape
  BY DEF Store!Idle, Store!OpShape, Store!StorePCs
<1> QED
  BY <1>1 DEF Store!Return, Store!Idle

\* An operation that starts.
LEMMA OpStarts ==
  ASSUME s4 \in [StoreProcs -> Store!OpShape], NEW q \in StoreProcs, NEW n \in StoreNames,
         NEW k \in StoreKeys,
         NEW o \in {"Save", "Load", "Delete", "Exist"}, NEW v \in 0..MaxBytes, MaxBytes \in Nat,
         s4' = [s4 EXCEPT ![q] = [op |-> o, pc |-> o, name |-> n, key |-> k, val |-> v, old |-> 0]]
  PROVE  /\ s4' \in [StoreProcs -> Store!OpShape]
         /\ s4'[q].op = o /\ s4'[q].pc = o /\ s4'[q].key = k /\ s4'[q].name = n
         /\ s4'[q].val = v /\ s4'[q].old = 0
         /\ \A r \in StoreProcs \ {q} : s4'[r] = s4[r]
<1>1. [op |-> o, pc |-> o, name |-> n, key |-> k, val |-> v, old |-> 0] \in Store!OpShape
  BY DEF Store!OpShape, Store!StorePCs
<1> QED
  BY <1>1

\* How the bytes in the store change when one object does.
LEMMA StoredSums ==
  ASSUME Store!StoreAssumption, s1 \in [StoreKeys -> 0..MaxBytes], s1' \in [StoreKeys -> 0..MaxBytes],
         NEW k \in StoreKeys, \A j \in StoreKeys \ {k} : s1'[j] = s1[j]
  PROVE  InStore' = InStore - s1[k] + s1'[k] /\ InStore \in Nat /\ s1[k] \in Nat /\ s1'[k] \in Nat
<1>1. MaxBytes \in Nat /\ IsFiniteSet(StoreKeys)
  BY StoreFiniteSets DEF Store!StoreAssumption
<1>2. InStore = Cardinality(Store!BytesOf(StoreKeys, s1)) /\ InStore' = Cardinality(Store!BytesOf(StoreKeys, s1'))
  BY DEF InStore
<1>3. InStore' = InStore - s1[k] + s1'[k]
  BY <1>1, <1>2, BytesUpdate, ZenonT(30)
<1>4. InStore \in Nat
  BY <1>1, <1>2, BytesCount, ZenonT(30)
<1> QED
  BY <1>3, <1>4

\* CountedExact and QuotaKnown in terms of these sums.
LEMMA StoreCounts ==
  /\ Store!CountedExact <=> (~s5 => Store!Row_ = InStore - NotYet + Still)
  /\ Store!QuotaKnown <=>
       (~s5 => /\ s2 # <<>> => StoreProcs # {}
               /\ StoreProcs # {} => Store!Row_ + Coming <= Quota + Slack)
  /\ Store!CountedExact' <=> (~s5' => Store!Row_' = InStore' - NotYet' + Still')
  /\ Store!QuotaKnown' <=>
       (~s5' => /\ s2' # <<>> => StoreProcs # {}
                /\ StoreProcs # {} => Store!Row_' + Coming' <= Quota + Slack)
<1>1. /\ InStore = Store!Cardinality(Store!BytesOf(StoreKeys, s1))
      /\ NotYet = Store!Cardinality(Store!BytesOf(StoreProcs, [q \in StoreProcs |-> Store!Uncounted(q)]))
      /\ Still = Store!Cardinality(Store!BytesOf(StoreProcs, [q \in StoreProcs |-> Store!Overcounted(q)]))
      /\ Coming = Store!Cardinality(Store!BytesOf(StoreProcs, [q \in StoreProcs |-> Store!Adds(q)]))
      /\ Slack = (Store!Cardinality(StoreProcs) - 1) * MaxBytes
  BY StoreFiniteSets, Zenon DEF InStore, NotYet, Still, Coming, Slack
<1>2. /\ InStore' = Store!Cardinality(Store!BytesOf(StoreKeys, s1'))
      /\ NotYet' = Store!Cardinality(Store!BytesOf(StoreProcs, [q \in StoreProcs |-> Store!Uncounted(q)']))
      /\ Still' = Store!Cardinality(Store!BytesOf(StoreProcs, [q \in StoreProcs |-> Store!Overcounted(q)']))
      /\ Coming' = Store!Cardinality(Store!BytesOf(StoreProcs, [q \in StoreProcs |-> Store!Adds(q)']))
  BY StoreFiniteSets, Zenon DEF InStore, NotYet, Still, Coming, Slack
<1>3. Store!CountedExact <=> (~s5 => Store!Row_ = InStore - NotYet + Still)
  BY <1>1, Zenon DEF Store!CountedExact
<1>4. Store!QuotaKnown <=>
       (~s5 => /\ s2 # <<>> => StoreProcs # {}
               /\ StoreProcs # {} => Store!Row_ + Coming <= Quota + Slack)
  BY <1>1, Zenon DEF Store!QuotaKnown
<1>5. Store!CountedExact' <=> (~s5' => Store!Row_' = InStore' - NotYet' + Still')
  BY <1>2, Zenon DEF Store!CountedExact
<1>6. Store!QuotaKnown' <=>
       (~s5' => /\ s2' # <<>> => StoreProcs # {}
                /\ StoreProcs # {} => Store!Row_' + Coming' <= Quota + Slack)
  BY <1>1, <1>2, Zenon DEF Store!QuotaKnown
<1> QED
  BY <1>3, <1>4, <1>5, <1>6

\* A row that was the balance of three sums stays it when they change as it does.
LEMMA SumsBalance ==
  ASSUME NEW row \in Int, NEW after \in Int, NEW total \in Int, NEW less \in Int, NEW more \in Int,
         NEW b \in Int, NEW a \in Int, NEW ub \in Int, NEW ua \in Int, NEW ob \in Int, NEW oa \in Int,
         row = total - less + more, after - row = (a - b) - (ua - ub) + (oa - ob)
  PROVE  after = (total - b + a) - (less - ub + ua) + (more - ob + oa)
OBVIOUS

\* CountedExact and QuotaKnown after a step of a request on a key.
LEMMA CountStep ==
  ASSUME Store!StoreAssumption, Store!StoreIInv, Store!StoreTypeOK',
         NEW q \in StoreProcs, \A r \in StoreProcs \ {q} : s4'[r] = s4[r],
         NEW k \in StoreKeys, \A j \in StoreKeys \ {k} : s1'[j] = s1[j],
         ~s5' =>
           /\ ~s5
           /\ Store!Row_' - Store!Row_ = (s1'[k] - s1[k]) - (Store!Uncounted(q)' - Store!Uncounted(q))
                                           + (Store!Overcounted(q)' - Store!Overcounted(q))
           /\ \/ Store!Row_' + Store!Adds(q)' <= Store!Row_ + Store!Adds(q)
              \/ Store!Row_' + Store!Adds(q)' <= Quota
  PROVE  Store!CountedExact' /\ Store!QuotaKnown'
<1>1. CASE s5'
  BY <1>1, StoreCounts
<1>2. CASE ~s5'
  <2>1. /\ NotYet' = NotYet - Store!Uncounted(q) + Store!Uncounted(q)'
        /\ Still' = Still - Store!Overcounted(q) + Store!Overcounted(q)'
        /\ Coming' = Coming - Store!Adds(q) + Store!Adds(q)'
        /\ Coming' <= Slack + Store!Adds(q)'
        /\ NotYet \in Int /\ Still \in Int /\ Coming \in Nat /\ Slack \in Nat
        /\ Store!Uncounted(q) \in 0..MaxBytes /\ Store!Uncounted(q)' \in 0..MaxBytes
        /\ Store!Overcounted(q) \in 0..MaxBytes /\ Store!Overcounted(q)' \in 0..MaxBytes
        /\ Store!Adds(q) \in 0..MaxBytes /\ Store!Adds(q)' \in 0..MaxBytes
    BY StoreSums DEF Store!StoreIInv
  <2>2. InStore' = InStore - s1[k] + s1'[k] /\ InStore \in Nat /\ s1[k] \in Nat /\ s1'[k] \in Nat
    <3>1. s1 \in [StoreKeys -> 0..MaxBytes] /\ s1' \in [StoreKeys -> 0..MaxBytes]
      BY DEF Store!StoreIInv, Store!StoreTypeOK
    <3> QED
      BY <3>1, StoredSums
  <2>3. Store!Row_ \in Int /\ Store!Row_' \in Int /\ Quota \in Nat
    BY DEF Store!Row_, Store!StoreIInv, Store!StoreTypeOK, Store!StoreAssumption
  <2>4. Store!Row_ = InStore - NotYet + Still /\ Store!Row_ + Coming <= Quota + Slack
    BY <1>2, StoreCounts DEF Store!StoreIInv
  <2>7. /\ Store!Uncounted(q) \in Int /\ Store!Uncounted(q)' \in Int
        /\ Store!Overcounted(q) \in Int /\ Store!Overcounted(q)' \in Int
    BY <2>1
  <2>8. Store!Row_' - Store!Row_ = (s1'[k] - s1[k]) - (Store!Uncounted(q)' - Store!Uncounted(q))
                                     + (Store!Overcounted(q)' - Store!Overcounted(q))
    BY <1>2
  <2>5. Store!Row_' = InStore' - NotYet' + Still'
    <3>1. /\ InStore' \in Int /\ NotYet' \in Int /\ Still' \in Int /\ InStore \in Int
          /\ s1[k] \in Int /\ s1'[k] \in Int
      BY <2>1, <2>2, <2>7
    <3>2. /\ Store!Row_ = InStore - NotYet + Still
          /\ NotYet \in Int /\ Still \in Int /\ Store!Row_ \in Int /\ Store!Row_' \in Int
      BY <2>1, <2>3, <2>4
    <3>3. Store!Row_' = (InStore - s1[k] + s1'[k]) - (NotYet - Store!Uncounted(q) + Store!Uncounted(q)')
                          + (Still - Store!Overcounted(q) + Store!Overcounted(q)')
      BY ONLY <2>7, <2>8, <3>1, <3>2, SMT
    <3> QED
      BY <2>1, <2>2, <3>3, Zenon
  <2>6. Store!Row_' + Coming' <= Quota + Slack
    BY <1>2, <2>1, <2>3, <2>4
  <2> QED
    BY <2>5, <2>6, StoreCounts
<1> QED
  BY <1>1, <1>2

\* What a request that does not move knows of its operation stays true.
LEMMA OthersKnow ==
  ASSUME Store!StoreIInv, NEW q \in StoreProcs, \A r \in StoreProcs \ {q} : s4'[r] = s4[r],
         s2 # <<>> => s2' # <<>>, Store!OpKnows(q)'
  PROVE  \A r \in StoreProcs : Store!OpKnows(r)'
<1>1. ASSUME NEW r \in StoreProcs \ {q} PROVE Store!OpKnows(r)'
  BY <1>1 DEF Store!StoreIInv, Store!OpKnows
<1> QED
  BY <1>1

\* What a request in an operation is, at each point.
LEMMA OpAt ==
  ASSUME Store!StoreAssumption, Store!StoreIInv, NEW q \in StoreProcs
  PROVE  /\ Store!OpKnows(q) /\ Store!CacheKnows(q)
         /\ s4[q].pc # "idle" => /\ s4[q].name \in StoreNames /\ s4[q].key = CleanPath[s4[q].name]
                                 /\ s4[q].key \in StoreKeys
         /\ s4[q].pc \in {"Save", "put", "quota", "create", "inc", "uncache"} => s4[q].op = "Save"
         /\ s4[q].pc \in {"Load", "fetch", "fill"} => s4[q].op = "Load"
         /\ s4[q].pc \in {"Delete", "size", "remove", "dec"} => s4[q].op = "Delete"
         /\ s4[q].pc \in {"Exist", "stat"} => s4[q].op = "Exist"
         /\ s4[q].pc = "idle" => s4[q].op = "none"
<1>1. Store!OpKnows(q) /\ Store!CacheKnows(q)
  BY DEF Store!StoreIInv
<1>2. s4[q].pc \in Store!StorePCs
  BY OpFields DEF Store!StoreIInv
<1>3. CleanPath \in [StoreNames -> StoreKeys]
  BY DEF Store!StoreAssumption
<1> QED
  BY <1>1, <1>2, <1>3 DEF Store!OpKnows, Store!StorePCs

\* The requests that do not move still know the old sizes they read, and writes still
\* exclude each other.
LEMMA CountKnownStep ==
  ASSUME Store!StoreAssumption, Store!StoreIInv, NEW q \in StoreProcs, \A r \in StoreProcs \ {q} : s4'[r] = s4[r],
         ~s5' => ~s5, s4'[q].op \in Store!Writes => s4[q].op \in Store!Writes /\ s4'[q].key = s4[q].key,
         \A j \in StoreKeys : s1'[j] # s1[j] => s4[q].op \in Store!Writes /\ j = s4[q].key,
         ~s5' => Store!OldKnown(q)' /\ Len(s2') <= 1
  PROVE  Store!CountKnown'
<1> SUFFICES ASSUME ~s5'
             PROVE  /\ \A q1, r1 \in StoreProcs :
                         q1 # r1 /\ s4'[q1].op \in Store!Writes /\ s4'[r1].op \in Store!Writes
                           => s4'[q1].key # s4'[r1].key
                    /\ \A r \in StoreProcs : Store!OldKnown(r)'
  BY DEF Store!CountKnown
<1>1. /\ \A q1, r1 \in StoreProcs :
           q1 # r1 /\ s4[q1].op \in Store!Writes /\ s4[r1].op \in Store!Writes
             => s4[q1].key # s4[r1].key
      /\ \A r \in StoreProcs : Store!OldKnown(r)
  BY DEF Store!StoreIInv, Store!CountKnown
<1>2. ASSUME NEW q1 \in StoreProcs, NEW r1 \in StoreProcs, q1 # r1,
             s4'[q1].op \in Store!Writes, s4'[r1].op \in Store!Writes
      PROVE  s4'[q1].key # s4'[r1].key
  <2>1. \A r \in StoreProcs : s4'[r].op \in Store!Writes => s4[r].op \in Store!Writes /\ s4'[r].key = s4[r].key
    OBVIOUS
  <2> QED
    BY <1>1, <1>2, <2>1
<1>3. ASSUME NEW r \in StoreProcs \ {q} PROVE Store!OldKnown(r)'
  <2>1. s4'[r] = s4[r] /\ Store!OldKnown(r)
    BY <1>1
  <2>2. CASE s4[r].pc \in {"put", "remove"}
    <3>1. s4[r].op \in Store!Writes /\ s4[r].key \in StoreKeys
      BY <2>2, OpAt DEF Store!Writes
    <3>2. s1'[s4[r].key] = s1[s4[r].key]
      BY <3>1, <1>1
    <3> QED
      BY <2>1, <2>2, <3>2 DEF Store!OldKnown
  <2>3. CASE s4[r].pc \notin {"put", "remove"}
    BY <2>1, <2>3 DEF Store!OldKnown
  <2> QED
    BY <2>2, <2>3
<1> QED
  BY <1>2, <1>3

\* What requests that do not move know of the cache stays true: a write of the store or
\* of an entry that is not suspect excludes theirs.
LEMMA CacheKnowsStep ==
  ASSUME Store!StoreAssumption, Store!StoreIInv, NEW q \in StoreProcs, \A r \in StoreProcs \ {q} : s4'[r] = s4[r],
         s6 \subseteq s6',
         \/ s4'[q].op = s4[q].op /\ s4'[q].key = s4[q].key /\ s4'[q].name = s4[q].name
         \/ s4'[q].op = "none",
         \A j \in StoreKeys : s1'[j] # s1[j] => s4[q].op \in Store!Writes /\ j = s4[q].key,
         \A j \in StoreNames : s3'[j] # s3[j] => s4[q].op \in {"Load"} \cup Store!Writes /\ j = s4[q].name,
         Store!CacheKnows(q)'
  PROVE  \A r \in StoreProcs : Store!CacheKnows(r)'
<1>1. ASSUME NEW r \in StoreProcs \ {q} PROVE Store!CacheKnows(r)'
  <2> DEFINE n == s4[r].name
             k == s4[r].key
  <2>1. s4'[r] = s4[r] /\ Store!CacheKnows(r) /\ Store!CacheKnows(q)
    BY OpAt
  <2>0. s4[r].op \in Store!Writes => Store!Aliases(n) \subseteq s6'
    BY <2>1 DEF Store!CacheKnows
  <2> SUFFICES ASSUME n \in StoreNames \ s6'
               PROVE  /\ s4[r].pc = "fill" => s4[r].val = s1'[k]
                      /\ s4[r].pc \in {"Save", "put", "Delete"} => s3'[n] \in {0, s1'[k]}
                      /\ s4[r].pc \in {"size", "remove", "dec"} => s3'[n] = 0
                      /\ s4[r].op \in Store!Writes => Store!OnKey(r, k, {"Load"} \cup Store!Writes)' = {}
    BY <2>0, <2>1 DEF Store!CacheKnows
  <2>2. n \in StoreNames \ s6
    OBVIOUS
  <2>3. /\ s4[r].pc = "fill" => s4[r].val = s1[k]
        /\ s4[r].pc \in {"Save", "put", "Delete"} => s3[n] \in {0, s1[k]}
        /\ s4[r].pc \in {"size", "remove", "dec"} => s3[n] = 0
        /\ s4[r].op \in Store!Writes => Store!OnKey(r, k, {"Load"} \cup Store!Writes) = {}
    BY <2>1, <2>2 DEF Store!CacheKnows
  <2>4. s4[r].op \in Store!Writes => ~(s4[q].key = k /\ s4[q].op \in {"Load"} \cup Store!Writes)
    BY <2>3 DEF Store!OnKey
  <2>11. ASSUME s4[r].op \in {"Load"} \cup Store!Writes PROVE k \in StoreKeys /\ k = CleanPath[n]
    BY <2>11, OpAt DEF Store!Writes
  <2>12. ASSUME s4[q].op \in {"Load"} \cup Store!Writes
         PROVE  s4[q].name \in StoreNames /\ s4[q].key = CleanPath[s4[q].name]
    BY <2>12, OpAt DEF Store!Writes
  <2>5. ASSUME s4[q].op \in Store!Writes, s4[q].key = k, s4[r].op \in {"Load"} \cup Store!Writes PROVE FALSE
    <3>1. CASE s4[q].name = n
      BY <2>1, <2>2, <2>5, <3>1 DEF Store!CacheKnows, Store!OnKey
    <3>2. CASE s4[q].name # n
      <4>1. CleanPath[n] = CleanPath[s4[q].name]
        BY <2>5, <2>11, <2>12
      <4>2. n \in Store!Aliases(s4[q].name)
        BY <2>2, <3>2, <4>1 DEF Store!Aliases, Store!NamesOf
      <4> QED
        BY <2>1, <2>2, <2>5, <4>2 DEF Store!CacheKnows
    <3> QED
      BY <3>1, <3>2
  <2>6. ASSUME s4[r].op \in {"Load"} \cup Store!Writes PROVE s1'[k] = s1[k]
    BY <2>5, <2>6, <2>11
  <2>7. ASSUME s4[r].op \in Store!Writes PROVE s3'[n] = s3[n]
    <3>1. CASE s4[q].op \in {"Load"} \cup Store!Writes /\ s4[q].name = n
      BY <2>4, <2>7, <2>11, <2>12, <3>1
    <3>2. CASE ~(s4[q].op \in {"Load"} \cup Store!Writes /\ s4[q].name = n)
      BY <2>2, <3>2
    <3> QED
      BY <3>1, <3>2
  <2>8. s4[r].pc = "fill" => s4[r].op \in {"Load"} \cup Store!Writes
    BY OpAt
  <2>9. s4[r].pc \in {"Save", "put", "Delete", "size", "remove", "dec"} => s4[r].op \in Store!Writes
    BY OpAt DEF Store!Writes
  <2>10. s4[r].op \in Store!Writes => Store!OnKey(r, k, {"Load"} \cup Store!Writes)' = {}
    BY <2>3, <2>4 DEF Store!OnKey, Store!Writes
  <2> HIDE DEF k, n
  <2> QED
    BY <2>3, <2>6, <2>7, <2>8, <2>9, <2>10
<1> QED
  BY <1>1

\* A cached object stays the stored one.
LEMMA CoherentStep ==
  ASSUME Store!StoreAssumption, Store!StoreIInv, NEW q \in StoreProcs, \A r \in StoreProcs \ {q} : s4'[r] = s4[r],
         s6 \subseteq s6',
         \/ s4'[q].op = s4[q].op /\ s4'[q].key = s4[q].key /\ s4'[q].name = s4[q].name
         \/ s4'[q].op = "none",
         \A j \in StoreKeys : s1'[j] # s1[j] => s4[q].op \in Store!Writes /\ j = s4[q].key,
         \A j \in StoreNames :
           s3'[j] # s3[j] => /\ s4[q].op \in {"Load"} \cup Store!Writes /\ j = s4[q].name
                             /\ s4[q].op = "Load" => s3'[j] = s1[s4[q].key] \/ j \in s6',
         s4[q].op \in Store!Writes /\ s4'[q].op = "none" /\ s4[q].name \in StoreNames \ s6' =>
           s3'[s4[q].name] \in {0, s1'[s4[q].key]}
  PROVE  Store!CacheCoherent'
<1> SUFFICES ASSUME NEW n \in StoreNames \ s6',
                    \A r \in StoreProcs : ~(s4'[r].key = CleanPath[n] /\ s4'[r].op \in Store!Writes)
             PROVE  s3'[n] \in {0, s1'[CleanPath[n]]}
  BY DEF Store!CacheCoherent
<1> DEFINE k == CleanPath[n]
<1>0. k \in StoreKeys
  BY DEF Store!StoreAssumption
<1>1. \A r \in StoreProcs \ {q} : ~(s4[r].key = k /\ s4[r].op \in Store!Writes)
  OBVIOUS
<1>4. ASSUME s4[q].op \in {"Load"} \cup Store!Writes
      PROVE  s4[q].name \in StoreNames /\ s4[q].key = CleanPath[s4[q].name]
  BY <1>4, OpAt DEF Store!Writes
<1>2. CASE s4[q].op \in Store!Writes /\ s4[q].key = k
  <2>1. s4'[q].op = "none"
    BY <1>2
  <2>2. s4[q].name = n
    <3>1. CASE s4[q].name # n
      <4>1. n \in Store!Aliases(s4[q].name)
        BY <1>2, <1>4, <3>1 DEF Store!Aliases, Store!NamesOf
      <4>2. Store!Aliases(s4[q].name) \subseteq s6
        BY <1>2, OpAt DEF Store!CacheKnows
      <4> QED
        BY <4>1, <4>2
    <3> QED
      BY <3>1
  <2> QED
    BY <1>2, <2>1, <2>2
<1>3. CASE ~(s4[q].op \in Store!Writes /\ s4[q].key = k)
  <2>1. \A r \in StoreProcs : ~(s4[r].key = k /\ s4[r].op \in Store!Writes)
    BY <1>1, <1>3
  <2>2. s3[n] \in {0, s1[k]}
    BY <2>1 DEF Store!StoreIInv, Store!CacheCoherent
  <2>3. s1'[k] = s1[k]
    BY <1>0, <1>3
  <2>4. s3'[n] = s3[n] \/ s3'[n] = s1[k]
    <3>1. CASE s3'[n] # s3[n]
      <4>1. s4[q].op \in {"Load"} \cup Store!Writes /\ n = s4[q].name
        BY <3>1
      <4>2. s4[q].key = k
        BY <1>4, <4>1
      <4> QED
        BY <1>3, <3>1, <4>1, <4>2
    <3> QED
      BY <3>1
  <2> QED
    BY <2>2, <2>3, <2>4
<1> QED
  BY <1>2, <1>3

\* The same amount is added to every row.
LEMMA RowsAdded ==
  ASSUME NEW s \in Seq(Int), NEW d \in Int, NEW t, t = [i \in DOMAIN s |-> s[i] + d]
  PROVE  /\ t \in Seq(Int) /\ Len(t) = Len(s) /\ (s = <<>> <=> t = <<>>)
         /\ s # <<>> => t[1] = s[1] + d
<1>1. \A i \in 1..Len(s) : s[i] \in Int
  OBVIOUS
<1>2. t \in [1..Len(s) -> Int]
  BY <1>1
<1>3. t \in Seq(Int) /\ Len(t) = Len(s)
  BY <1>2
<1>4. s # <<>> => Len(s) >= 1
  OBVIOUS
<1> QED
  BY <1>3, <1>4

\* The same amount is subtracted from every row.
LEMMA RowsSubtracted ==
  ASSUME NEW s \in Seq(Int), NEW d \in Int, NEW t, t = [i \in DOMAIN s |-> s[i] - d]
  PROVE  /\ t \in Seq(Int) /\ Len(t) = Len(s) /\ (s = <<>> <=> t = <<>>)
         /\ s # <<>> => t[1] = s[1] - d
<1>1. \A i \in 1..Len(s) : s[i] \in Int
  OBVIOUS
<1>2. t \in [1..Len(s) -> Int]
  BY <1>1
<1>3. t \in Seq(Int) /\ Len(t) = Len(s)
  BY <1>2
<1>4. s # <<>> => Len(s) >= 1
  OBVIOUS
<1> QED
  BY <1>3, <1>4

\* Before there is a row, what is stored is still that of Saves under way.
LEMMA RowKnownStep ==
  ASSUME Store!StoreAssumption, Store!StoreIInv, NEW q \in StoreProcs, \A r \in StoreProcs \ {q} : s4'[r] = s4[r],
         ~s5' => ~s5,
         ~s5' /\ s2' = <<>> =>
           /\ s2 = <<>> /\ s4'[q].pc # "dec"
           /\ s4[q].pc \in {"quota", "create"} => s4'[q].key = s4[q].key /\ s4'[q].pc \in {"quota", "create"}
           /\ \A j \in StoreKeys : s1'[j] \notin {0, s1[j]} => s4'[q].key = j /\ s4'[q].pc \in {"quota", "create"}
  PROVE  Store!RowKnown'
<1> SUFFICES ASSUME ~s5', s2' = <<>> PROVE Store!RowKnown'
  BY DEF Store!RowKnown
<1>1. /\ \A r \in StoreProcs : s4[r].pc # "dec"
      /\ \A j \in StoreKeys : s1[j] # 0 =>
           \E r \in StoreProcs : s4[r].key = j /\ s4[r].pc \in {"quota", "create"}
  BY DEF Store!StoreIInv, Store!RowKnown
<1>2. \A r \in StoreProcs : s4'[r].pc # "dec"
  BY <1>1
<1>3. \A r \in StoreProcs :
        s4[r].pc \in {"quota", "create"} => s4'[r].key = s4[r].key /\ s4'[r].pc \in {"quota", "create"}
  OBVIOUS
<1>4. ASSUME NEW j \in StoreKeys, s1'[j] # 0
      PROVE  \E r \in StoreProcs : s4'[r].key = j /\ s4'[r].pc \in {"quota", "create"}
  <2>1. CASE s1'[j] = s1[j]
    <3>1. PICK r \in StoreProcs : s4[r].key = j /\ s4[r].pc \in {"quota", "create"}
      BY <1>1, <1>4, <2>1
    <3> QED
      BY <3>1, <1>3
  <2>2. CASE s1'[j] # s1[j]
    BY <1>4, <2>2
  <2> QED
    BY <2>1, <2>2
<1> QED
  BY <1>2, <1>4 DEF Store!RowKnown

\* A request returns, having changed nothing that others wait for.
LEMMA StoreReturns ==
  ASSUME Store!StoreAssumption, Store!StoreIInv, NEW q \in StoreProcs, Store!Return(q),
         s4[q].pc \in {"put", "Load", "fetch", "fill", "Delete", "size", "remove", "Exist", "stat"},
         UNCHANGED <<s1, s2, s3, s5, s6, s7>>
  PROVE  Store!StoreIInv'
<1> DEFINE k == s4[q].key
<1>0. /\ k \in StoreKeys /\ s4[q].name \in StoreNames /\ k = CleanPath[s4[q].name] /\ s4 \in [StoreProcs -> Store!OpShape] /\ MaxBytes \in Nat
      /\ s1 \in [StoreKeys -> 0..MaxBytes] /\ s3 \in [StoreNames -> 0..MaxBytes] /\ s2 \in Seq(Int)
      /\ s6 \subseteq StoreNames /\ s4[q].val \in 0..MaxBytes /\ s4[q].old \in 0..MaxBytes
      /\ s5 \in BOOLEAN /\ s1[k] \in 0..MaxBytes
      /\ s1' = s1 /\ s2' = s2 /\ s3' = s3 /\ s5' = s5 /\ s6' = s6 /\ s7' = s7
      /\ s4[q].op \in Store!Writes => (s4[q].op = "Save" /\ s4[q].pc = "put") \/ s4[q].pc \in {"Delete", "size", "remove"}
      /\ Store!CacheKnows(q) /\ Store!OpKnows(q)
  BY OpAt, OpFields DEF Store!Writes, Store!At, Store!StoreIInv, Store!StoreTypeOK, Store!StoreAssumption
<1>1. /\ s4' \in [StoreProcs -> Store!OpShape]
      /\ s4'[q].op = "none" /\ s4'[q].pc = "idle" /\ s4'[q].key = "none" /\ s4'[q].name = "none"
      /\ s4'[q].val = 0 /\ s4'[q].old = 0
      /\ \A r \in StoreProcs \ {q} : s4'[r] = s4[r]
  BY <1>0, OpReturns
<1>2. Store!StoreTypeOK'
  BY <1>0, <1>1 DEF Store!StoreTypeOK, Store!StoreIInv
<1>3. \A r \in StoreProcs : Store!OpKnows(r)'
  <2>1. Store!OpKnows(q)'
    BY <1>0, <1>1 DEF Store!OpKnows
  <2>2. s2 # <<>> => s2' # <<>>
    BY <1>0, <1>1
  <2> QED
    BY <1>1, <2>1, <2>2, OthersKnow
<1>4. Store!CountedExact' /\ Store!QuotaKnown'
  <2>1. /\ Store!Uncounted(q) = 0 /\ Store!Uncounted(q)' = 0 /\ Store!Overcounted(q) = 0
        /\ Store!Overcounted(q)' = 0 /\ Store!Adds(q) = 0 /\ Store!Adds(q)' = 0
        /\ Store!Row_' = Store!Row_ /\ Store!Row_ \in Int
    BY <1>0, <1>1 DEF Store!Uncounted, Store!Overcounted, Store!Adds, Store!Row_
  <2>2. ASSUME ~s5'
        PROVE  /\ ~s5
               /\ Store!Row_' - Store!Row_ = (s1'[k] - s1[k]) - (Store!Uncounted(q)' - Store!Uncounted(q))
                                               + (Store!Overcounted(q)' - Store!Overcounted(q))
               /\ \/ Store!Row_' + Store!Adds(q)' <= Store!Row_ + Store!Adds(q)
                  \/ Store!Row_' + Store!Adds(q)' <= Quota
    <3>1. ~s5
      BY <1>0, <1>1, <2>2
    <3>2. s1[k] \in Int /\ s1'[k] \in Int
      BY <1>0, <1>1
    <3> QED
      BY <1>0, <1>1, <2>1, <2>2, <3>1, <3>2
  <2>3. k \in StoreKeys /\ \A j \in StoreKeys \ {k} : s1'[j] = s1[j]
    BY <1>0, <1>1
  <2> QED
    BY <1>1, <1>2, <2>2, <2>3, CountStep
<1>8. /\ (s4'[q].op = s4[q].op /\ s4'[q].key = s4[q].key /\ s4'[q].name = s4[q].name) \/ s4'[q].op = "none"
      /\ s4'[q].op \in Store!Writes => s4[q].op \in Store!Writes /\ s4'[q].key = s4[q].key
      /\ \A j \in StoreKeys : s1'[j] # s1[j] => s4[q].op \in Store!Writes /\ j = s4[q].key
      /\ \A j \in StoreNames :
           s3'[j] # s3[j] => /\ s4[q].op \in {"Load"} \cup Store!Writes /\ j = s4[q].name
                             /\ s4[q].op = "Load" => s3'[j] = s1[s4[q].key] \/ j \in s6'
      /\ s6 \subseteq s6' /\ (~s5' => ~s5)
  BY <1>0, <1>1 DEF Store!Writes, Store!CacheKnows
<1>5. Store!CountKnown'
  <2>1. ~s5' => Store!OldKnown(q)' /\ Len(s2') <= 1
    BY <1>0, <1>1 DEF Store!CountKnown, Store!OldKnown, Store!StoreIInv
  <2> QED
    BY <1>1, <1>8, <2>1, CountKnownStep
<1>6. \A r \in StoreProcs : Store!CacheKnows(r)'
  <2>1. Store!CacheKnows(q)'
    BY <1>0, <1>1 DEF Store!CacheKnows, Store!OnKey, Store!Writes
  <2> QED
    BY <1>1, <1>8, <2>1, CacheKnowsStep
<1>7. Store!CacheCoherent'
  <2>1. s4[q].op \in Store!Writes /\ s4'[q].op = "none" /\ s4[q].name \in StoreNames \ s6' =>
          s3'[s4[q].name] \in {0, s1'[s4[q].key]}
    BY <1>0, <1>1 DEF Store!CacheKnows, Store!Writes
  <2> QED
    BY <1>1, <1>8, <2>1, CoherentStep
<1>9. Store!RowKnown'
  <2>1. ASSUME ~s5', s2' = <<>>
        PROVE  /\ s2 = <<>> /\ s4'[q].pc # "dec"
               /\ s4[q].pc \in {"quota", "create"} => s4'[q].key = k /\ s4'[q].pc \in {"quota", "create"}
               /\ \A j \in StoreKeys : s1'[j] \notin {0, s1[j]} => s4'[q].key = j /\ s4'[q].pc \in {"quota", "create"}
    BY <1>0, <1>1, <2>1
  <2> QED
    BY <1>1, <1>8, <2>1, RowKnownStep
<1> QED
  BY <1>2, <1>3, <1>4, <1>5, <1>6, <1>7, <1>9 DEF Store!StoreIInv

\* Save has looked for the old object.
LEMMA SaveLooks ==
  ASSUME Store!StoreAssumption, Store!StoreIInv, NEW q \in StoreProcs, s4[q].pc = "Save", Store!SaveOldSize(q), UNCHANGED <<s1, s2, s3, s6, s7>>
  PROVE  Store!StoreIInv'
<1> DEFINE k == s4[q].key
<1>0. /\ k \in StoreKeys /\ s4[q].name \in StoreNames /\ k = CleanPath[s4[q].name] /\ s4 \in [StoreProcs -> Store!OpShape] /\ MaxBytes \in Nat
      /\ s1 \in [StoreKeys -> 0..MaxBytes] /\ s3 \in [StoreNames -> 0..MaxBytes] /\ s2 \in Seq(Int)
      /\ s6 \subseteq StoreNames /\ s4[q].val \in 0..MaxBytes /\ s4[q].old \in 0..MaxBytes
      /\ s5 \in BOOLEAN /\ s1[k] \in 0..MaxBytes
      /\ s1' = s1 /\ s2' = s2 /\ s3' = s3 /\ s6' = s6 /\ s7' = s7
      /\ s4[q].op = "Save"
      /\ Store!CacheKnows(q) /\ Store!OpKnows(q)
  BY OpAt, OpFields DEF Store!Writes, Store!At, Store!StoreIInv, Store!StoreTypeOK, Store!StoreAssumption
<1>1. /\ s4' \in [StoreProcs -> Store!OpShape]
      /\ s4'[q].op = "Save" /\ s4'[q].pc = "put" /\ s4'[q].key = k /\ s4'[q].name = s4[q].name /\ s4'[q].val = s4[q].val
      /\ \A r \in StoreProcs \ {q} : s4'[r] = s4[r]
      /\ s4'[q].old = s1[k] \/ s4'[q].old = s4[q].old
      /\ s5' \in BOOLEAN /\ (~s5' => ~s5 /\ s4'[q].old = s1[k])
  <2>0. "put" \in Store!StorePCs
    BY DEF Store!StorePCs
  <2>1. CASE s4' = [s4 EXCEPT ![q].pc = "put", ![q].old = s1[k]] /\ s5' = s5
    BY <2>0, <2>1, <1>0, OpReadsOld, ZenonT(60)
  <2>2. CASE s4' = [s4 EXCEPT ![q].pc = "put"] /\ s5' = (s5 \/ s1[k] # 0)
    <3>1. Store!GoOn(q, "put")
      BY <2>2 DEF Store!GoOn
    <3>2. ~s5 => s4[q].old = 0
      BY <1>0 DEF Store!StoreIInv, Store!CountKnown, Store!OldKnown
    <3> QED
      BY <2>0, <2>2, <3>1, <3>2, <1>0, OpGoes
  <2> QED
    BY <2>1, <2>2 DEF Store!SaveOldSize
<1>2. Store!StoreTypeOK'
  BY <1>0, <1>1 DEF Store!StoreTypeOK, Store!StoreIInv
<1>3. \A r \in StoreProcs : Store!OpKnows(r)'
  <2>1. Store!OpKnows(q)'
    BY <1>0, <1>1 DEF Store!OpKnows
  <2>2. s2 # <<>> => s2' # <<>>
    BY <1>0, <1>1
  <2> QED
    BY <1>1, <2>1, <2>2, OthersKnow
<1>4. Store!CountedExact' /\ Store!QuotaKnown'
  <2>1. /\ Store!Uncounted(q) = 0 /\ Store!Uncounted(q)' = 0 /\ Store!Overcounted(q) = 0
        /\ Store!Overcounted(q)' = 0 /\ Store!Adds(q) = 0 /\ Store!Adds(q)' = 0
        /\ Store!Row_' = Store!Row_ /\ Store!Row_ \in Int
    BY <1>0, <1>1 DEF Store!Uncounted, Store!Overcounted, Store!Adds, Store!Row_
  <2>2. ASSUME ~s5'
        PROVE  /\ ~s5
               /\ Store!Row_' - Store!Row_ = (s1'[k] - s1[k]) - (Store!Uncounted(q)' - Store!Uncounted(q))
                                               + (Store!Overcounted(q)' - Store!Overcounted(q))
               /\ \/ Store!Row_' + Store!Adds(q)' <= Store!Row_ + Store!Adds(q)
                  \/ Store!Row_' + Store!Adds(q)' <= Quota
    <3>1. ~s5
      BY <1>0, <1>1, <2>2
    <3>2. s1[k] \in Int /\ s1'[k] \in Int
      BY <1>0, <1>1
    <3> QED
      BY <1>0, <1>1, <2>1, <2>2, <3>1, <3>2
  <2>3. k \in StoreKeys /\ \A j \in StoreKeys \ {k} : s1'[j] = s1[j]
    BY <1>0, <1>1
  <2> QED
    BY <1>1, <1>2, <2>2, <2>3, CountStep
<1>8. /\ (s4'[q].op = s4[q].op /\ s4'[q].key = s4[q].key /\ s4'[q].name = s4[q].name) \/ s4'[q].op = "none"
      /\ s4'[q].op \in Store!Writes => s4[q].op \in Store!Writes /\ s4'[q].key = s4[q].key
      /\ \A j \in StoreKeys : s1'[j] # s1[j] => s4[q].op \in Store!Writes /\ j = s4[q].key
      /\ \A j \in StoreNames :
           s3'[j] # s3[j] => /\ s4[q].op \in {"Load"} \cup Store!Writes /\ j = s4[q].name
                             /\ s4[q].op = "Load" => s3'[j] = s1[s4[q].key] \/ j \in s6'
      /\ s6 \subseteq s6' /\ (~s5' => ~s5)
  BY <1>0, <1>1 DEF Store!Writes, Store!CacheKnows
<1>5. Store!CountKnown'
  <2>1. ~s5' => Store!OldKnown(q)' /\ Len(s2') <= 1
    BY <1>0, <1>1 DEF Store!CountKnown, Store!OldKnown, Store!StoreIInv
  <2> QED
    BY <1>1, <1>8, <2>1, CountKnownStep
<1>6. \A r \in StoreProcs : Store!CacheKnows(r)'
  <2>1. Store!CacheKnows(q)'
    BY <1>0, <1>1 DEF Store!CacheKnows, Store!OnKey, Store!Writes
  <2> QED
    BY <1>1, <1>8, <2>1, CacheKnowsStep
<1>7. Store!CacheCoherent'
  <2>1. s4[q].op \in Store!Writes /\ s4'[q].op = "none" /\ s4[q].name \in StoreNames \ s6' =>
          s3'[s4[q].name] \in {0, s1'[s4[q].key]}
    BY <1>0, <1>1 DEF Store!CacheKnows, Store!Writes
  <2> QED
    BY <1>1, <1>8, <2>1, CoherentStep
<1>9. Store!RowKnown'
  <2>1. ASSUME ~s5', s2' = <<>>
        PROVE  /\ s2 = <<>> /\ s4'[q].pc # "dec"
               /\ s4[q].pc \in {"quota", "create"} => s4'[q].key = k /\ s4'[q].pc \in {"quota", "create"}
               /\ \A j \in StoreKeys : s1'[j] \notin {0, s1[j]} => s4'[q].key = j /\ s4'[q].pc \in {"quota", "create"}
    BY <1>0, <1>1, <2>1
  <2> QED
    BY <1>1, <1>8, <2>1, RowKnownStep
<1> QED
  BY <1>2, <1>3, <1>4, <1>5, <1>6, <1>7, <1>9 DEF Store!StoreIInv

\* The cache has no object: Load and Exist ask the store.
LEMMA StoreMisses ==
  ASSUME Store!StoreAssumption, Store!StoreIInv, NEW q \in StoreProcs, NEW l, Store!GoOn(q, l),
         \/ s4[q].pc = "Load" /\ l = "fetch"
         \/ s4[q].pc = "Exist" /\ l = "stat",
         UNCHANGED <<s1, s2, s3, s5, s6, s7>>
  PROVE  Store!StoreIInv'
<1> DEFINE k == s4[q].key
<1>0. /\ k \in StoreKeys /\ s4[q].name \in StoreNames /\ k = CleanPath[s4[q].name] /\ s4 \in [StoreProcs -> Store!OpShape] /\ MaxBytes \in Nat
      /\ s1 \in [StoreKeys -> 0..MaxBytes] /\ s3 \in [StoreNames -> 0..MaxBytes] /\ s2 \in Seq(Int)
      /\ s6 \subseteq StoreNames /\ s4[q].val \in 0..MaxBytes /\ s4[q].old \in 0..MaxBytes
      /\ s5 \in BOOLEAN /\ s1[k] \in 0..MaxBytes
      /\ s1' = s1 /\ s2' = s2 /\ s3' = s3 /\ s5' = s5 /\ s6' = s6 /\ s7' = s7
      /\ s4[q].op \notin Store!Writes
      /\ Store!CacheKnows(q) /\ Store!OpKnows(q)
  BY OpAt, OpFields DEF Store!Writes, Store!At, Store!StoreIInv, Store!StoreTypeOK, Store!StoreAssumption
<1>1. /\ s4' \in [StoreProcs -> Store!OpShape]
      /\ s4'[q].op = s4[q].op /\ s4'[q].pc = l /\ s4'[q].key = k /\ s4'[q].name = s4[q].name
      /\ s4'[q].val = s4[q].val /\ s4'[q].old = s4[q].old
      /\ \A r \in StoreProcs \ {q} : s4'[r] = s4[r]
  BY <1>0, OpGoes DEF Store!StorePCs
<1>2. Store!StoreTypeOK'
  BY <1>0, <1>1 DEF Store!StoreTypeOK, Store!StoreIInv
<1>3. \A r \in StoreProcs : Store!OpKnows(r)'
  <2>1. Store!OpKnows(q)'
    BY <1>0, <1>1 DEF Store!OpKnows
  <2>2. s2 # <<>> => s2' # <<>>
    BY <1>0, <1>1
  <2> QED
    BY <1>1, <2>1, <2>2, OthersKnow
<1>4. Store!CountedExact' /\ Store!QuotaKnown'
  <2>1. /\ Store!Uncounted(q) = 0 /\ Store!Uncounted(q)' = 0 /\ Store!Overcounted(q) = 0
        /\ Store!Overcounted(q)' = 0 /\ Store!Adds(q) = 0 /\ Store!Adds(q)' = 0
        /\ Store!Row_' = Store!Row_ /\ Store!Row_ \in Int
    BY <1>0, <1>1 DEF Store!Uncounted, Store!Overcounted, Store!Adds, Store!Row_
  <2>2. ASSUME ~s5'
        PROVE  /\ ~s5
               /\ Store!Row_' - Store!Row_ = (s1'[k] - s1[k]) - (Store!Uncounted(q)' - Store!Uncounted(q))
                                               + (Store!Overcounted(q)' - Store!Overcounted(q))
               /\ \/ Store!Row_' + Store!Adds(q)' <= Store!Row_ + Store!Adds(q)
                  \/ Store!Row_' + Store!Adds(q)' <= Quota
    <3>1. ~s5
      BY <1>0, <1>1, <2>2
    <3>2. s1[k] \in Int /\ s1'[k] \in Int
      BY <1>0, <1>1
    <3> QED
      BY <1>0, <1>1, <2>1, <2>2, <3>1, <3>2
  <2>3. k \in StoreKeys /\ \A j \in StoreKeys \ {k} : s1'[j] = s1[j]
    BY <1>0, <1>1
  <2> QED
    BY <1>1, <1>2, <2>2, <2>3, CountStep
<1>8. /\ (s4'[q].op = s4[q].op /\ s4'[q].key = s4[q].key /\ s4'[q].name = s4[q].name) \/ s4'[q].op = "none"
      /\ s4'[q].op \in Store!Writes => s4[q].op \in Store!Writes /\ s4'[q].key = s4[q].key
      /\ \A j \in StoreKeys : s1'[j] # s1[j] => s4[q].op \in Store!Writes /\ j = s4[q].key
      /\ \A j \in StoreNames :
           s3'[j] # s3[j] => /\ s4[q].op \in {"Load"} \cup Store!Writes /\ j = s4[q].name
                             /\ s4[q].op = "Load" => s3'[j] = s1[s4[q].key] \/ j \in s6'
      /\ s6 \subseteq s6' /\ (~s5' => ~s5)
  BY <1>0, <1>1 DEF Store!Writes, Store!CacheKnows
<1>5. Store!CountKnown'
  <2>1. ~s5' => Store!OldKnown(q)' /\ Len(s2') <= 1
    BY <1>0, <1>1 DEF Store!CountKnown, Store!OldKnown, Store!StoreIInv
  <2> QED
    BY <1>1, <1>8, <2>1, CountKnownStep
<1>6. \A r \in StoreProcs : Store!CacheKnows(r)'
  <2>1. Store!CacheKnows(q)'
    BY <1>0, <1>1 DEF Store!CacheKnows, Store!OnKey, Store!Writes
  <2> QED
    BY <1>1, <1>8, <2>1, CacheKnowsStep
<1>7. Store!CacheCoherent'
  <2>1. s4[q].op \in Store!Writes /\ s4'[q].op = "none" /\ s4[q].name \in StoreNames \ s6' =>
          s3'[s4[q].name] \in {0, s1'[s4[q].key]}
    BY <1>0, <1>1 DEF Store!CacheKnows, Store!Writes
  <2> QED
    BY <1>1, <1>8, <2>1, CoherentStep
<1>9. Store!RowKnown'
  <2>1. ASSUME ~s5', s2' = <<>>
        PROVE  /\ s2 = <<>> /\ s4'[q].pc # "dec"
               /\ s4[q].pc \in {"quota", "create"} => s4'[q].key = k /\ s4'[q].pc \in {"quota", "create"}
               /\ \A j \in StoreKeys : s1'[j] \notin {0, s1[j]} => s4'[q].key = j /\ s4'[q].pc \in {"quota", "create"}
    BY <1>0, <1>1, <2>1
  <2> QED
    BY <1>1, <1>8, <2>1, RowKnownStep
<1> QED
  BY <1>2, <1>3, <1>4, <1>5, <1>6, <1>7, <1>9 DEF Store!StoreIInv

\* Load has read the object.
LEMMA LoadReads ==
  ASSUME Store!StoreAssumption, Store!StoreIInv, NEW q \in StoreProcs, s4[q].pc = "fetch",
         s4' = [s4 EXCEPT ![q].pc = "fill", ![q].val = s1[s4[q].key]],
         UNCHANGED <<s1, s2, s3, s5, s6, s7>>
  PROVE  Store!StoreIInv'
<1> DEFINE k == s4[q].key
<1>0. /\ k \in StoreKeys /\ s4[q].name \in StoreNames /\ k = CleanPath[s4[q].name] /\ s4 \in [StoreProcs -> Store!OpShape] /\ MaxBytes \in Nat
      /\ s1 \in [StoreKeys -> 0..MaxBytes] /\ s3 \in [StoreNames -> 0..MaxBytes] /\ s2 \in Seq(Int)
      /\ s6 \subseteq StoreNames /\ s4[q].val \in 0..MaxBytes /\ s4[q].old \in 0..MaxBytes
      /\ s5 \in BOOLEAN /\ s1[k] \in 0..MaxBytes
      /\ s1' = s1 /\ s2' = s2 /\ s3' = s3 /\ s5' = s5 /\ s6' = s6 /\ s7' = s7
      /\ s4[q].op = "Load"
      /\ Store!CacheKnows(q) /\ Store!OpKnows(q)
  BY OpAt, OpFields DEF Store!Writes, Store!At, Store!StoreIInv, Store!StoreTypeOK, Store!StoreAssumption
<1>1. /\ s4' \in [StoreProcs -> Store!OpShape]
      /\ s4'[q].op = s4[q].op /\ s4'[q].pc = "fill" /\ s4'[q].key = k /\ s4'[q].name = s4[q].name
      /\ s4'[q].val = s1[k] /\ s4'[q].old = s4[q].old
      /\ \A r \in StoreProcs \ {q} : s4'[r] = s4[r]
  <2>1. "fill" \in Store!StorePCs
    BY DEF Store!StorePCs
  <2> QED
    BY <1>0, <2>1, OpReadsVal
<1>2. Store!StoreTypeOK'
  BY <1>0, <1>1 DEF Store!StoreTypeOK, Store!StoreIInv
<1>3. \A r \in StoreProcs : Store!OpKnows(r)'
  <2>1. Store!OpKnows(q)'
    BY <1>0, <1>1 DEF Store!OpKnows
  <2>2. s2 # <<>> => s2' # <<>>
    BY <1>0, <1>1
  <2> QED
    BY <1>1, <2>1, <2>2, OthersKnow
<1>4. Store!CountedExact' /\ Store!QuotaKnown'
  <2>1. /\ Store!Uncounted(q) = 0 /\ Store!Uncounted(q)' = 0 /\ Store!Overcounted(q) = 0
        /\ Store!Overcounted(q)' = 0 /\ Store!Adds(q) = 0 /\ Store!Adds(q)' = 0
        /\ Store!Row_' = Store!Row_ /\ Store!Row_ \in Int
    BY <1>0, <1>1 DEF Store!Uncounted, Store!Overcounted, Store!Adds, Store!Row_
  <2>2. ASSUME ~s5'
        PROVE  /\ ~s5
               /\ Store!Row_' - Store!Row_ = (s1'[k] - s1[k]) - (Store!Uncounted(q)' - Store!Uncounted(q))
                                               + (Store!Overcounted(q)' - Store!Overcounted(q))
               /\ \/ Store!Row_' + Store!Adds(q)' <= Store!Row_ + Store!Adds(q)
                  \/ Store!Row_' + Store!Adds(q)' <= Quota
    <3>1. ~s5
      BY <1>0, <1>1, <2>2
    <3>2. s1[k] \in Int /\ s1'[k] \in Int
      BY <1>0, <1>1
    <3> QED
      BY <1>0, <1>1, <2>1, <2>2, <3>1, <3>2
  <2>3. k \in StoreKeys /\ \A j \in StoreKeys \ {k} : s1'[j] = s1[j]
    BY <1>0, <1>1
  <2> QED
    BY <1>1, <1>2, <2>2, <2>3, CountStep
<1>8. /\ (s4'[q].op = s4[q].op /\ s4'[q].key = s4[q].key /\ s4'[q].name = s4[q].name) \/ s4'[q].op = "none"
      /\ s4'[q].op \in Store!Writes => s4[q].op \in Store!Writes /\ s4'[q].key = s4[q].key
      /\ \A j \in StoreKeys : s1'[j] # s1[j] => s4[q].op \in Store!Writes /\ j = s4[q].key
      /\ \A j \in StoreNames :
           s3'[j] # s3[j] => /\ s4[q].op \in {"Load"} \cup Store!Writes /\ j = s4[q].name
                             /\ s4[q].op = "Load" => s3'[j] = s1[s4[q].key] \/ j \in s6'
      /\ s6 \subseteq s6' /\ (~s5' => ~s5)
  BY <1>0, <1>1 DEF Store!Writes, Store!CacheKnows
<1>5. Store!CountKnown'
  <2>1. ~s5' => Store!OldKnown(q)' /\ Len(s2') <= 1
    BY <1>0, <1>1 DEF Store!CountKnown, Store!OldKnown, Store!StoreIInv
  <2> QED
    BY <1>1, <1>8, <2>1, CountKnownStep
<1>6. \A r \in StoreProcs : Store!CacheKnows(r)'
  <2>1. Store!CacheKnows(q)'
    BY <1>0, <1>1 DEF Store!CacheKnows, Store!OnKey, Store!Writes
  <2> QED
    BY <1>1, <1>8, <2>1, CacheKnowsStep
<1>7. Store!CacheCoherent'
  <2>1. s4[q].op \in Store!Writes /\ s4'[q].op = "none" /\ s4[q].name \in StoreNames \ s6' =>
          s3'[s4[q].name] \in {0, s1'[s4[q].key]}
    BY <1>0, <1>1 DEF Store!CacheKnows, Store!Writes
  <2> QED
    BY <1>1, <1>8, <2>1, CoherentStep
<1>9. Store!RowKnown'
  <2>1. ASSUME ~s5', s2' = <<>>
        PROVE  /\ s2 = <<>> /\ s4'[q].pc # "dec"
               /\ s4[q].pc \in {"quota", "create"} => s4'[q].key = k /\ s4'[q].pc \in {"quota", "create"}
               /\ \A j \in StoreKeys : s1'[j] \notin {0, s1[j]} => s4'[q].key = j /\ s4'[q].pc \in {"quota", "create"}
    BY <1>0, <1>1, <2>1
  <2> QED
    BY <1>1, <1>8, <2>1, RowKnownStep
<1> QED
  BY <1>2, <1>3, <1>4, <1>5, <1>6, <1>7, <1>9 DEF Store!StoreIInv

\* Delete has read the size of the object.
LEMMA DeleteReads ==
  ASSUME Store!StoreAssumption, Store!StoreIInv, NEW q \in StoreProcs, s4[q].pc = "size", s1[s4[q].key] # 0,
         s4' = [s4 EXCEPT ![q].pc = "remove", ![q].old = s1[s4[q].key]],
         UNCHANGED <<s1, s2, s3, s5, s6, s7>>
  PROVE  Store!StoreIInv'
<1> DEFINE k == s4[q].key
<1>0. /\ k \in StoreKeys /\ s4[q].name \in StoreNames /\ k = CleanPath[s4[q].name] /\ s4 \in [StoreProcs -> Store!OpShape] /\ MaxBytes \in Nat
      /\ s1 \in [StoreKeys -> 0..MaxBytes] /\ s3 \in [StoreNames -> 0..MaxBytes] /\ s2 \in Seq(Int)
      /\ s6 \subseteq StoreNames /\ s4[q].val \in 0..MaxBytes /\ s4[q].old \in 0..MaxBytes
      /\ s5 \in BOOLEAN /\ s1[k] \in 0..MaxBytes
      /\ s1' = s1 /\ s2' = s2 /\ s3' = s3 /\ s5' = s5 /\ s6' = s6 /\ s7' = s7
      /\ s4[q].op = "Delete"
      /\ Store!CacheKnows(q) /\ Store!OpKnows(q)
  BY OpAt, OpFields DEF Store!Writes, Store!At, Store!StoreIInv, Store!StoreTypeOK, Store!StoreAssumption
<1>1. /\ s4' \in [StoreProcs -> Store!OpShape]
      /\ s4'[q].op = s4[q].op /\ s4'[q].pc = "remove" /\ s4'[q].key = k /\ s4'[q].name = s4[q].name
      /\ s4'[q].val = s4[q].val /\ s4'[q].old = s1[k]
      /\ \A r \in StoreProcs \ {q} : s4'[r] = s4[r]
  <2>1. "remove" \in Store!StorePCs
    BY DEF Store!StorePCs
  <2> QED
    BY <1>0, <2>1, OpReadsOld
<1>2. Store!StoreTypeOK'
  BY <1>0, <1>1 DEF Store!StoreTypeOK, Store!StoreIInv
<1>3. \A r \in StoreProcs : Store!OpKnows(r)'
  <2>1. Store!OpKnows(q)'
    BY <1>0, <1>1 DEF Store!OpKnows
  <2>2. s2 # <<>> => s2' # <<>>
    BY <1>0, <1>1
  <2> QED
    BY <1>1, <2>1, <2>2, OthersKnow
<1>4. Store!CountedExact' /\ Store!QuotaKnown'
  <2>1. /\ Store!Uncounted(q) = 0 /\ Store!Uncounted(q)' = 0 /\ Store!Overcounted(q) = 0
        /\ Store!Overcounted(q)' = 0 /\ Store!Adds(q) = 0 /\ Store!Adds(q)' = 0
        /\ Store!Row_' = Store!Row_ /\ Store!Row_ \in Int
    BY <1>0, <1>1 DEF Store!Uncounted, Store!Overcounted, Store!Adds, Store!Row_
  <2>2. ASSUME ~s5'
        PROVE  /\ ~s5
               /\ Store!Row_' - Store!Row_ = (s1'[k] - s1[k]) - (Store!Uncounted(q)' - Store!Uncounted(q))
                                               + (Store!Overcounted(q)' - Store!Overcounted(q))
               /\ \/ Store!Row_' + Store!Adds(q)' <= Store!Row_ + Store!Adds(q)
                  \/ Store!Row_' + Store!Adds(q)' <= Quota
    <3>1. ~s5
      BY <1>0, <1>1, <2>2
    <3>2. s1[k] \in Int /\ s1'[k] \in Int
      BY <1>0, <1>1
    <3> QED
      BY <1>0, <1>1, <2>1, <2>2, <3>1, <3>2
  <2>3. k \in StoreKeys /\ \A j \in StoreKeys \ {k} : s1'[j] = s1[j]
    BY <1>0, <1>1
  <2> QED
    BY <1>1, <1>2, <2>2, <2>3, CountStep
<1>8. /\ (s4'[q].op = s4[q].op /\ s4'[q].key = s4[q].key /\ s4'[q].name = s4[q].name) \/ s4'[q].op = "none"
      /\ s4'[q].op \in Store!Writes => s4[q].op \in Store!Writes /\ s4'[q].key = s4[q].key
      /\ \A j \in StoreKeys : s1'[j] # s1[j] => s4[q].op \in Store!Writes /\ j = s4[q].key
      /\ \A j \in StoreNames :
           s3'[j] # s3[j] => /\ s4[q].op \in {"Load"} \cup Store!Writes /\ j = s4[q].name
                             /\ s4[q].op = "Load" => s3'[j] = s1[s4[q].key] \/ j \in s6'
      /\ s6 \subseteq s6' /\ (~s5' => ~s5)
  BY <1>0, <1>1 DEF Store!Writes, Store!CacheKnows
<1>5. Store!CountKnown'
  <2>1. ~s5' => Store!OldKnown(q)' /\ Len(s2') <= 1
    BY <1>0, <1>1 DEF Store!CountKnown, Store!OldKnown, Store!StoreIInv
  <2> QED
    BY <1>1, <1>8, <2>1, CountKnownStep
<1>6. \A r \in StoreProcs : Store!CacheKnows(r)'
  <2>1. Store!CacheKnows(q)'
    BY <1>0, <1>1 DEF Store!CacheKnows, Store!OnKey, Store!Writes
  <2> QED
    BY <1>1, <1>8, <2>1, CacheKnowsStep
<1>7. Store!CacheCoherent'
  <2>1. s4[q].op \in Store!Writes /\ s4'[q].op = "none" /\ s4[q].name \in StoreNames \ s6' =>
          s3'[s4[q].name] \in {0, s1'[s4[q].key]}
    BY <1>0, <1>1 DEF Store!CacheKnows, Store!Writes
  <2> QED
    BY <1>1, <1>8, <2>1, CoherentStep
<1>9. Store!RowKnown'
  <2>1. ASSUME ~s5', s2' = <<>>
        PROVE  /\ s2 = <<>> /\ s4'[q].pc # "dec"
               /\ s4[q].pc \in {"quota", "create"} => s4'[q].key = k /\ s4'[q].pc \in {"quota", "create"}
               /\ \A j \in StoreKeys : s1'[j] \notin {0, s1[j]} => s4'[q].key = j /\ s4'[q].pc \in {"quota", "create"}
    BY <1>0, <1>1, <2>1
  <2> QED
    BY <1>1, <1>8, <2>1, RowKnownStep
<1> QED
  BY <1>2, <1>3, <1>4, <1>5, <1>6, <1>7, <1>9 DEF Store!StoreIInv

\* Save returns an error after it has stored: the count has drifted.
LEMMA SaveAbandons ==
  ASSUME Store!StoreAssumption, Store!StoreIInv, NEW q \in StoreProcs, Store!Abandon(q), s4[q].pc \in {"quota", "create", "inc"},
         UNCHANGED <<s1, s2, s3, s7>>
  PROVE  Store!StoreIInv'
<1> DEFINE k == s4[q].key
<1>0. /\ k \in StoreKeys /\ s4[q].name \in StoreNames /\ k = CleanPath[s4[q].name] /\ s4 \in [StoreProcs -> Store!OpShape] /\ MaxBytes \in Nat
      /\ s1 \in [StoreKeys -> 0..MaxBytes] /\ s3 \in [StoreNames -> 0..MaxBytes] /\ s2 \in Seq(Int)
      /\ s6 \subseteq StoreNames /\ s4[q].val \in 0..MaxBytes /\ s4[q].old \in 0..MaxBytes
      /\ s5 \in BOOLEAN /\ s1[k] \in 0..MaxBytes
      /\ s1' = s1 /\ s2' = s2 /\ s3' = s3 /\ s7' = s7
      /\ s4[q].op = "Save"
      /\ Store!CacheKnows(q) /\ Store!OpKnows(q)
  BY OpAt, OpFields DEF Store!Writes, Store!At, Store!StoreIInv, Store!StoreTypeOK, Store!StoreAssumption
<1>1. /\ s4' \in [StoreProcs -> Store!OpShape]
      /\ s4'[q].op = "none" /\ s4'[q].pc = "idle" /\ s4'[q].key = "none" /\ s4'[q].name = "none"
      /\ s4'[q].val = 0 /\ s4'[q].old = 0
      /\ \A r \in StoreProcs \ {q} : s4'[r] = s4[r]
      /\ s5' = TRUE /\ s6' = s6 \cup {s4[q].name}
  BY <1>0, OpReturns DEF Store!Abandon
<1>2. Store!StoreTypeOK'
  BY <1>0, <1>1 DEF Store!StoreTypeOK, Store!StoreIInv
<1>3. \A r \in StoreProcs : Store!OpKnows(r)'
  <2>1. Store!OpKnows(q)'
    BY <1>0, <1>1 DEF Store!OpKnows
  <2>2. s2 # <<>> => s2' # <<>>
    BY <1>0, <1>1
  <2> QED
    BY <1>1, <2>1, <2>2, OthersKnow
<1>4. Store!CountedExact' /\ Store!QuotaKnown'
  BY <1>0, <1>1, StoreCounts
<1>8. /\ (s4'[q].op = s4[q].op /\ s4'[q].key = s4[q].key /\ s4'[q].name = s4[q].name) \/ s4'[q].op = "none"
      /\ s4'[q].op \in Store!Writes => s4[q].op \in Store!Writes /\ s4'[q].key = s4[q].key
      /\ \A j \in StoreKeys : s1'[j] # s1[j] => s4[q].op \in Store!Writes /\ j = s4[q].key
      /\ \A j \in StoreNames :
           s3'[j] # s3[j] => /\ s4[q].op \in {"Load"} \cup Store!Writes /\ j = s4[q].name
                             /\ s4[q].op = "Load" => s3'[j] = s1[s4[q].key] \/ j \in s6'
      /\ s6 \subseteq s6' /\ (~s5' => ~s5)
  BY <1>0, <1>1 DEF Store!Writes, Store!CacheKnows
<1>5. Store!CountKnown'
  <2>1. ~s5' => Store!OldKnown(q)' /\ Len(s2') <= 1
    BY <1>0, <1>1 DEF Store!CountKnown, Store!OldKnown, Store!StoreIInv
  <2> QED
    BY <1>1, <1>8, <2>1, CountKnownStep
<1>6. \A r \in StoreProcs : Store!CacheKnows(r)'
  <2>1. Store!CacheKnows(q)'
    BY <1>0, <1>1 DEF Store!CacheKnows, Store!OnKey, Store!Writes
  <2> QED
    BY <1>1, <1>8, <2>1, CacheKnowsStep
<1>7. Store!CacheCoherent'
  <2>1. s4[q].op \in Store!Writes /\ s4'[q].op = "none" /\ s4[q].name \in StoreNames \ s6' =>
          s3'[s4[q].name] \in {0, s1'[s4[q].key]}
    BY <1>0, <1>1 DEF Store!CacheKnows, Store!Writes
  <2> QED
    BY <1>1, <1>8, <2>1, CoherentStep
<1>9. Store!RowKnown'
  <2>1. ASSUME ~s5', s2' = <<>>
        PROVE  /\ s2 = <<>> /\ s4'[q].pc # "dec"
               /\ s4[q].pc \in {"quota", "create"} => s4'[q].key = k /\ s4'[q].pc \in {"quota", "create"}
               /\ \A j \in StoreKeys : s1'[j] \notin {0, s1[j]} => s4'[q].key = j /\ s4'[q].pc \in {"quota", "create"}
    BY <1>0, <1>1, <2>1
  <2> QED
    BY <1>1, <1>8, <2>1, RowKnownStep
<1> QED
  BY <1>2, <1>3, <1>4, <1>5, <1>6, <1>7, <1>9 DEF Store!StoreIInv

\* Save has stored the object.
LEMMA SaveStores ==
  ASSUME Store!StoreAssumption, Store!StoreIInv, NEW q \in StoreProcs, s4[q].pc = "put",
         s1' = [s1 EXCEPT ![s4[q].key] = s4[q].val], Store!GoOn(q, "quota"),
         UNCHANGED <<s2, s3, s5, s6, s7>>
  PROVE  Store!StoreIInv'
<1> DEFINE k == s4[q].key
<1>0. /\ k \in StoreKeys /\ s4[q].name \in StoreNames /\ k = CleanPath[s4[q].name] /\ s4 \in [StoreProcs -> Store!OpShape] /\ MaxBytes \in Nat
      /\ s1 \in [StoreKeys -> 0..MaxBytes] /\ s3 \in [StoreNames -> 0..MaxBytes] /\ s2 \in Seq(Int)
      /\ s6 \subseteq StoreNames /\ s4[q].val \in 0..MaxBytes /\ s4[q].old \in 0..MaxBytes
      /\ s5 \in BOOLEAN /\ s1[k] \in 0..MaxBytes
      /\ s2' = s2 /\ s3' = s3 /\ s5' = s5 /\ s6' = s6 /\ s7' = s7
      /\ s4[q].op = "Save"
      /\ Store!CacheKnows(q) /\ Store!OpKnows(q)
  BY OpAt, OpFields DEF Store!Writes, Store!At, Store!StoreIInv, Store!StoreTypeOK, Store!StoreAssumption
<1>1. /\ s4' \in [StoreProcs -> Store!OpShape]
      /\ s4'[q].op = s4[q].op /\ s4'[q].pc = "quota" /\ s4'[q].key = k /\ s4'[q].name = s4[q].name
      /\ s4'[q].val = s4[q].val /\ s4'[q].old = s4[q].old
      /\ \A r \in StoreProcs \ {q} : s4'[r] = s4[r]
      /\ s1'[k] = s4[q].val /\ \A j \in StoreKeys \ {k} : s1'[j] = s1[j]
      /\ s1' \in [StoreKeys -> 0..MaxBytes]
      /\ ~s5 => s4[q].old = s1[k]
  BY <1>0, OpGoes DEF Store!StorePCs, Store!StoreIInv, Store!CountKnown, Store!OldKnown
<1>2. Store!StoreTypeOK'
  BY <1>0, <1>1 DEF Store!StoreTypeOK, Store!StoreIInv
<1>3. \A r \in StoreProcs : Store!OpKnows(r)'
  <2>1. Store!OpKnows(q)'
    BY <1>0, <1>1 DEF Store!OpKnows
  <2>2. s2 # <<>> => s2' # <<>>
    BY <1>0, <1>1
  <2> QED
    BY <1>1, <2>1, <2>2, OthersKnow
<1>4. Store!CountedExact' /\ Store!QuotaKnown'
  <2>1. /\ Store!Uncounted(q) = 0 /\ Store!Uncounted(q)' = s4[q].val /\ Store!Overcounted(q) = 0
        /\ Store!Overcounted(q)' = s4[q].old /\ Store!Adds(q) = 0 /\ Store!Adds(q)' = 0
        /\ Store!Row_' = Store!Row_ /\ Store!Row_ \in Int
    BY <1>0, <1>1 DEF Store!Uncounted, Store!Overcounted, Store!Adds, Store!Row_
  <2>2. ASSUME ~s5'
        PROVE  /\ ~s5
               /\ Store!Row_' - Store!Row_ = (s1'[k] - s1[k]) - (Store!Uncounted(q)' - Store!Uncounted(q))
                                               + (Store!Overcounted(q)' - Store!Overcounted(q))
               /\ \/ Store!Row_' + Store!Adds(q)' <= Store!Row_ + Store!Adds(q)
                  \/ Store!Row_' + Store!Adds(q)' <= Quota
    <3>1. ~s5
      BY <1>0, <1>1, <2>2
    <3>2. s1[k] \in Int /\ s1'[k] \in Int
      BY <1>0, <1>1
    <3> QED
      BY <1>0, <1>1, <2>1, <2>2, <3>1, <3>2
  <2>3. k \in StoreKeys /\ \A j \in StoreKeys \ {k} : s1'[j] = s1[j]
    BY <1>0, <1>1
  <2> QED
    BY <1>1, <1>2, <2>2, <2>3, CountStep
<1>8. /\ (s4'[q].op = s4[q].op /\ s4'[q].key = s4[q].key /\ s4'[q].name = s4[q].name) \/ s4'[q].op = "none"
      /\ s4'[q].op \in Store!Writes => s4[q].op \in Store!Writes /\ s4'[q].key = s4[q].key
      /\ \A j \in StoreKeys : s1'[j] # s1[j] => s4[q].op \in Store!Writes /\ j = s4[q].key
      /\ \A j \in StoreNames :
           s3'[j] # s3[j] => /\ s4[q].op \in {"Load"} \cup Store!Writes /\ j = s4[q].name
                             /\ s4[q].op = "Load" => s3'[j] = s1[s4[q].key] \/ j \in s6'
      /\ s6 \subseteq s6' /\ (~s5' => ~s5)
  BY <1>0, <1>1 DEF Store!Writes, Store!CacheKnows
<1>5. Store!CountKnown'
  <2>1. ~s5' => Store!OldKnown(q)' /\ Len(s2') <= 1
    BY <1>0, <1>1 DEF Store!CountKnown, Store!OldKnown, Store!StoreIInv
  <2> QED
    BY <1>1, <1>8, <2>1, CountKnownStep
<1>6. \A r \in StoreProcs : Store!CacheKnows(r)'
  <2>1. Store!CacheKnows(q)'
    BY <1>0, <1>1 DEF Store!CacheKnows, Store!OnKey, Store!Writes
  <2> QED
    BY <1>1, <1>8, <2>1, CacheKnowsStep
<1>7. Store!CacheCoherent'
  <2>1. s4[q].op \in Store!Writes /\ s4'[q].op = "none" /\ s4[q].name \in StoreNames \ s6' =>
          s3'[s4[q].name] \in {0, s1'[s4[q].key]}
    BY <1>0, <1>1 DEF Store!CacheKnows, Store!Writes
  <2> QED
    BY <1>1, <1>8, <2>1, CoherentStep
<1>9. Store!RowKnown'
  <2>1. ASSUME ~s5', s2' = <<>>
        PROVE  /\ s2 = <<>> /\ s4'[q].pc # "dec"
               /\ s4[q].pc \in {"quota", "create"} => s4'[q].key = k /\ s4'[q].pc \in {"quota", "create"}
               /\ \A j \in StoreKeys : s1'[j] \notin {0, s1[j]} => s4'[q].key = j /\ s4'[q].pc \in {"quota", "create"}
    BY <1>0, <1>1, <2>1
  <2> QED
    BY <1>1, <1>8, <2>1, RowKnownStep
<1> QED
  BY <1>2, <1>3, <1>4, <1>5, <1>6, <1>7, <1>9 DEF Store!StoreIInv

\* Save has passed the quota.
LEMMA SavePasses ==
  ASSUME Store!StoreAssumption, Store!StoreIInv, NEW q \in StoreProcs, NEW l, Store!GoOn(q, l), s4[q].pc = "quota",
         \/ l = "create" /\ s2 = <<>> /\ Store!Diff(q) <= Quota
         \/ l = "inc" /\ \E i \in DOMAIN s2 : Store!Diff(q) + s2[i] <= Quota,
         UNCHANGED <<s1, s2, s3, s5, s6, s7>>
  PROVE  Store!StoreIInv'
<1> DEFINE k == s4[q].key
<1>0. /\ k \in StoreKeys /\ s4[q].name \in StoreNames /\ k = CleanPath[s4[q].name] /\ s4 \in [StoreProcs -> Store!OpShape] /\ MaxBytes \in Nat
      /\ s1 \in [StoreKeys -> 0..MaxBytes] /\ s3 \in [StoreNames -> 0..MaxBytes] /\ s2 \in Seq(Int)
      /\ s6 \subseteq StoreNames /\ s4[q].val \in 0..MaxBytes /\ s4[q].old \in 0..MaxBytes
      /\ s5 \in BOOLEAN /\ s1[k] \in 0..MaxBytes
      /\ s1' = s1 /\ s2' = s2 /\ s3' = s3 /\ s5' = s5 /\ s6' = s6 /\ s7' = s7
      /\ s4[q].op = "Save"
      /\ Store!CacheKnows(q) /\ Store!OpKnows(q)
  BY OpAt, OpFields DEF Store!Writes, Store!At, Store!StoreIInv, Store!StoreTypeOK, Store!StoreAssumption
<1>1. /\ s4' \in [StoreProcs -> Store!OpShape]
      /\ s4'[q].op = s4[q].op /\ s4'[q].pc = l /\ s4'[q].key = k /\ s4'[q].name = s4[q].name
      /\ s4'[q].val = s4[q].val /\ s4'[q].old = s4[q].old
      /\ \A r \in StoreProcs \ {q} : s4'[r] = s4[r]
      /\ l \in {"create", "inc"} /\ (l = "inc" => s2 # <<>>)
      /\ ~s5 => Store!Row_ + (s4[q].val - s4[q].old) <= Quota
  <2>1. /\ s4' \in [StoreProcs -> Store!OpShape]
        /\ s4'[q].op = s4[q].op /\ s4'[q].pc = l /\ s4'[q].key = k /\ s4'[q].name = s4[q].name
        /\ s4'[q].val = s4[q].val /\ s4'[q].old = s4[q].old
        /\ \A r \in StoreProcs \ {q} : s4'[r] = s4[r]
    BY <1>0, OpGoes DEF Store!StorePCs
  <2>2. l \in {"create", "inc"} /\ (l = "inc" => s2 # <<>>)
    BY <1>0
  <2>3. ASSUME ~s5 PROVE Store!Row_ + (s4[q].val - s4[q].old) <= Quota
    <3>1. Len(s2) <= 1
      BY <2>3 DEF Store!StoreIInv, Store!CountKnown
    <3> QED
      BY <1>0, <3>1 DEF Store!Row_, Store!Diff
  <2> QED
    BY <2>1, <2>2, <2>3
<1>2. Store!StoreTypeOK'
  BY <1>0, <1>1 DEF Store!StoreTypeOK, Store!StoreIInv
<1>3. \A r \in StoreProcs : Store!OpKnows(r)'
  <2>1. Store!OpKnows(q)'
    BY <1>0, <1>1 DEF Store!OpKnows
  <2>2. s2 # <<>> => s2' # <<>>
    BY <1>0, <1>1
  <2> QED
    BY <1>1, <2>1, <2>2, OthersKnow
<1>4. Store!CountedExact' /\ Store!QuotaKnown'
  <2>1. /\ Store!Uncounted(q) = s4[q].val /\ Store!Uncounted(q)' = s4[q].val
        /\ Store!Overcounted(q) = s4[q].old /\ Store!Overcounted(q)' = s4[q].old
        /\ Store!Adds(q) = 0 /\ (Store!Adds(q)' = 0 \/ Store!Adds(q)' = s4[q].val - s4[q].old)
        /\ Store!Row_' = Store!Row_ /\ Store!Row_ \in Int
    BY <1>0, <1>1 DEF Store!Uncounted, Store!Overcounted, Store!Adds, Store!Row_
  <2>2. ASSUME ~s5'
        PROVE  /\ ~s5
               /\ Store!Row_' - Store!Row_ = (s1'[k] - s1[k]) - (Store!Uncounted(q)' - Store!Uncounted(q))
                                               + (Store!Overcounted(q)' - Store!Overcounted(q))
               /\ \/ Store!Row_' + Store!Adds(q)' <= Store!Row_ + Store!Adds(q)
                  \/ Store!Row_' + Store!Adds(q)' <= Quota
    <3>1. ~s5
      BY <1>0, <1>1, <2>2
    <3>2. s1[k] \in Int /\ s1'[k] \in Int
      BY <1>0, <1>1
    <3> QED
      BY <1>0, <1>1, <2>1, <2>2, <3>1, <3>2
  <2>3. k \in StoreKeys /\ \A j \in StoreKeys \ {k} : s1'[j] = s1[j]
    BY <1>0, <1>1
  <2> QED
    BY <1>1, <1>2, <2>2, <2>3, CountStep
<1>8. /\ (s4'[q].op = s4[q].op /\ s4'[q].key = s4[q].key /\ s4'[q].name = s4[q].name) \/ s4'[q].op = "none"
      /\ s4'[q].op \in Store!Writes => s4[q].op \in Store!Writes /\ s4'[q].key = s4[q].key
      /\ \A j \in StoreKeys : s1'[j] # s1[j] => s4[q].op \in Store!Writes /\ j = s4[q].key
      /\ \A j \in StoreNames :
           s3'[j] # s3[j] => /\ s4[q].op \in {"Load"} \cup Store!Writes /\ j = s4[q].name
                             /\ s4[q].op = "Load" => s3'[j] = s1[s4[q].key] \/ j \in s6'
      /\ s6 \subseteq s6' /\ (~s5' => ~s5)
  BY <1>0, <1>1 DEF Store!Writes, Store!CacheKnows
<1>5. Store!CountKnown'
  <2>1. ~s5' => Store!OldKnown(q)' /\ Len(s2') <= 1
    BY <1>0, <1>1 DEF Store!CountKnown, Store!OldKnown, Store!StoreIInv
  <2> QED
    BY <1>1, <1>8, <2>1, CountKnownStep
<1>6. \A r \in StoreProcs : Store!CacheKnows(r)'
  <2>1. Store!CacheKnows(q)'
    BY <1>0, <1>1 DEF Store!CacheKnows, Store!OnKey, Store!Writes
  <2> QED
    BY <1>1, <1>8, <2>1, CacheKnowsStep
<1>7. Store!CacheCoherent'
  <2>1. s4[q].op \in Store!Writes /\ s4'[q].op = "none" /\ s4[q].name \in StoreNames \ s6' =>
          s3'[s4[q].name] \in {0, s1'[s4[q].key]}
    BY <1>0, <1>1 DEF Store!CacheKnows, Store!Writes
  <2> QED
    BY <1>1, <1>8, <2>1, CoherentStep
<1>9. Store!RowKnown'
  <2>1. ASSUME ~s5', s2' = <<>>
        PROVE  /\ s2 = <<>> /\ s4'[q].pc # "dec"
               /\ s4[q].pc \in {"quota", "create"} => s4'[q].key = k /\ s4'[q].pc \in {"quota", "create"}
               /\ \A j \in StoreKeys : s1'[j] \notin {0, s1[j]} => s4'[q].key = j /\ s4'[q].pc \in {"quota", "create"}
    BY <1>0, <1>1, <2>1
  <2> QED
    BY <1>1, <1>8, <2>1, RowKnownStep
<1> QED
  BY <1>2, <1>3, <1>4, <1>5, <1>6, <1>7, <1>9 DEF Store!StoreIInv

\* Save has created the row.
LEMMA SaveCreates ==
  ASSUME Store!StoreAssumption, Store!StoreIInv, NEW q \in StoreProcs, s4[q].pc = "create", Store!GoOn(q, "uncache"),
         s2' = Append(s2, Store!Diff(q)), s5' = (s5 \/ s2 # <<>>),
         UNCHANGED <<s1, s3, s6, s7>>
  PROVE  Store!StoreIInv'
<1> DEFINE k == s4[q].key
<1>0. /\ k \in StoreKeys /\ s4[q].name \in StoreNames /\ k = CleanPath[s4[q].name] /\ s4 \in [StoreProcs -> Store!OpShape] /\ MaxBytes \in Nat
      /\ s1 \in [StoreKeys -> 0..MaxBytes] /\ s3 \in [StoreNames -> 0..MaxBytes] /\ s2 \in Seq(Int)
      /\ s6 \subseteq StoreNames /\ s4[q].val \in 0..MaxBytes /\ s4[q].old \in 0..MaxBytes
      /\ s5 \in BOOLEAN /\ s1[k] \in 0..MaxBytes
      /\ s1' = s1 /\ s3' = s3 /\ s6' = s6 /\ s7' = s7
      /\ s4[q].op = "Save"
      /\ Store!CacheKnows(q) /\ Store!OpKnows(q)
  BY OpAt, OpFields DEF Store!Writes, Store!At, Store!StoreIInv, Store!StoreTypeOK, Store!StoreAssumption
<1>1. /\ s4' \in [StoreProcs -> Store!OpShape]
      /\ s4'[q].op = s4[q].op /\ s4'[q].pc = "uncache" /\ s4'[q].key = k /\ s4'[q].name = s4[q].name
      /\ s4'[q].val = s4[q].val /\ s4'[q].old = s4[q].old
      /\ \A r \in StoreProcs \ {q} : s4'[r] = s4[r]
      /\ s2' \in Seq(Int) /\ s2' # <<>> /\ s5' \in BOOLEAN /\ (s5 => s5')
      /\ ~s5' => s2 = <<>> /\ Len(s2') = 1 /\ s2'[1] = s4[q].val - s4[q].old
  <2>1. /\ s4' \in [StoreProcs -> Store!OpShape]
        /\ s4'[q].op = s4[q].op /\ s4'[q].pc = "uncache" /\ s4'[q].key = k /\ s4'[q].name = s4[q].name
        /\ s4'[q].val = s4[q].val /\ s4'[q].old = s4[q].old
        /\ \A r \in StoreProcs \ {q} : s4'[r] = s4[r]
    BY <1>0, OpGoes DEF Store!StorePCs
  <2>2. s2' \in Seq(Int) /\ s2' # <<>>
    BY <1>0 DEF Store!Diff
  <2>3. s5' \in BOOLEAN /\ (s5 => s5')
    BY <1>0
  <2>4. ASSUME ~s5' PROVE s2 = <<>> /\ Len(s2') = 1 /\ s2'[1] = s4[q].val - s4[q].old
    <3>1. s2 = <<>> /\ s2' = Append(<<>>, s4[q].val - s4[q].old)
      BY <2>4 DEF Store!Diff
    <3> QED
      BY <1>0, <3>1
  <2> QED
    BY <2>1, <2>2, <2>3, <2>4
<1>2. Store!StoreTypeOK'
  BY <1>0, <1>1 DEF Store!StoreTypeOK, Store!StoreIInv
<1>3. \A r \in StoreProcs : Store!OpKnows(r)'
  <2>1. Store!OpKnows(q)'
    BY <1>0, <1>1 DEF Store!OpKnows
  <2>2. s2 # <<>> => s2' # <<>>
    BY <1>0, <1>1
  <2> QED
    BY <1>1, <2>1, <2>2, OthersKnow
<1>4. Store!CountedExact' /\ Store!QuotaKnown'
  <2>1. /\ Store!Uncounted(q) = s4[q].val /\ Store!Uncounted(q)' = 0
        /\ Store!Overcounted(q) = s4[q].old /\ Store!Overcounted(q)' = 0
        /\ Store!Adds(q) \in Nat /\ Store!Adds(q) >= s4[q].val - s4[q].old /\ Store!Adds(q)' = 0
        /\ Store!Row_ \in Int /\ (~s5' => Store!Row_' = Store!Row_ + (s4[q].val - s4[q].old))
    BY <1>0, <1>1, SMTT(30) DEF Store!Uncounted, Store!Overcounted, Store!Adds, Store!Row_
  <2>2. ASSUME ~s5'
        PROVE  /\ ~s5
               /\ Store!Row_' - Store!Row_ = (s1'[k] - s1[k]) - (Store!Uncounted(q)' - Store!Uncounted(q))
                                               + (Store!Overcounted(q)' - Store!Overcounted(q))
               /\ \/ Store!Row_' + Store!Adds(q)' <= Store!Row_ + Store!Adds(q)
                  \/ Store!Row_' + Store!Adds(q)' <= Quota
    <3>1. ~s5
      BY <1>0, <1>1, <2>2
    <3>2. s1[k] \in Int /\ s1'[k] \in Int
      BY <1>0, <1>1
    <3> QED
      BY <1>0, <1>1, <2>1, <2>2, <3>1, <3>2, SMTT(30)
  <2>3. k \in StoreKeys /\ \A j \in StoreKeys \ {k} : s1'[j] = s1[j]
    BY <1>0, <1>1
  <2> QED
    BY <1>1, <1>2, <2>2, <2>3, CountStep
<1>8. /\ (s4'[q].op = s4[q].op /\ s4'[q].key = s4[q].key /\ s4'[q].name = s4[q].name) \/ s4'[q].op = "none"
      /\ s4'[q].op \in Store!Writes => s4[q].op \in Store!Writes /\ s4'[q].key = s4[q].key
      /\ \A j \in StoreKeys : s1'[j] # s1[j] => s4[q].op \in Store!Writes /\ j = s4[q].key
      /\ \A j \in StoreNames :
           s3'[j] # s3[j] => /\ s4[q].op \in {"Load"} \cup Store!Writes /\ j = s4[q].name
                             /\ s4[q].op = "Load" => s3'[j] = s1[s4[q].key] \/ j \in s6'
      /\ s6 \subseteq s6' /\ (~s5' => ~s5)
  BY <1>0, <1>1 DEF Store!Writes, Store!CacheKnows
<1>5. Store!CountKnown'
  <2>1. ~s5' => Store!OldKnown(q)' /\ Len(s2') <= 1
    BY <1>0, <1>1 DEF Store!CountKnown, Store!OldKnown, Store!StoreIInv
  <2> QED
    BY <1>1, <1>8, <2>1, CountKnownStep
<1>6. \A r \in StoreProcs : Store!CacheKnows(r)'
  <2>1. Store!CacheKnows(q)'
    BY <1>0, <1>1 DEF Store!CacheKnows, Store!OnKey, Store!Writes
  <2> QED
    BY <1>1, <1>8, <2>1, CacheKnowsStep
<1>7. Store!CacheCoherent'
  <2>1. s4[q].op \in Store!Writes /\ s4'[q].op = "none" /\ s4[q].name \in StoreNames \ s6' =>
          s3'[s4[q].name] \in {0, s1'[s4[q].key]}
    BY <1>0, <1>1 DEF Store!CacheKnows, Store!Writes
  <2> QED
    BY <1>1, <1>8, <2>1, CoherentStep
<1>9. Store!RowKnown'
  <2>1. ASSUME ~s5', s2' = <<>>
        PROVE  /\ s2 = <<>> /\ s4'[q].pc # "dec"
               /\ s4[q].pc \in {"quota", "create"} => s4'[q].key = k /\ s4'[q].pc \in {"quota", "create"}
               /\ \A j \in StoreKeys : s1'[j] \notin {0, s1[j]} => s4'[q].key = j /\ s4'[q].pc \in {"quota", "create"}
    BY <1>0, <1>1, <2>1
  <2> QED
    BY <1>1, <1>8, <2>1, RowKnownStep
<1> QED
  BY <1>2, <1>3, <1>4, <1>5, <1>6, <1>7, <1>9 DEF Store!StoreIInv

\* Save has added to every row.
LEMMA SaveIncrements ==
  ASSUME Store!StoreAssumption, Store!StoreIInv, NEW q \in StoreProcs, s4[q].pc = "inc", Store!GoOn(q, "uncache"),
         s2' = [i \in DOMAIN s2 |-> s2[i] + Store!Diff(q)],
         UNCHANGED <<s1, s3, s5, s6, s7>>
  PROVE  Store!StoreIInv'
<1> DEFINE k == s4[q].key
<1>0. /\ k \in StoreKeys /\ s4[q].name \in StoreNames /\ k = CleanPath[s4[q].name] /\ s4 \in [StoreProcs -> Store!OpShape] /\ MaxBytes \in Nat
      /\ s1 \in [StoreKeys -> 0..MaxBytes] /\ s3 \in [StoreNames -> 0..MaxBytes] /\ s2 \in Seq(Int)
      /\ s6 \subseteq StoreNames /\ s4[q].val \in 0..MaxBytes /\ s4[q].old \in 0..MaxBytes
      /\ s5 \in BOOLEAN /\ s1[k] \in 0..MaxBytes
      /\ s1' = s1 /\ s3' = s3 /\ s5' = s5 /\ s6' = s6 /\ s7' = s7
      /\ s4[q].op = "Save"
      /\ Store!CacheKnows(q) /\ Store!OpKnows(q)
  BY OpAt, OpFields DEF Store!Writes, Store!At, Store!StoreIInv, Store!StoreTypeOK, Store!StoreAssumption
<1>1. /\ s4' \in [StoreProcs -> Store!OpShape]
      /\ s4'[q].op = s4[q].op /\ s4'[q].pc = "uncache" /\ s4'[q].key = k /\ s4'[q].name = s4[q].name
      /\ s4'[q].val = s4[q].val /\ s4'[q].old = s4[q].old
      /\ \A r \in StoreProcs \ {q} : s4'[r] = s4[r]
      /\ s2' \in Seq(Int) /\ s2' # <<>> /\ s2 # <<>> /\ Len(s2') = Len(s2)
      /\ s2'[1] = s2[1] + (s4[q].val - s4[q].old)
  <2>1. /\ s4' \in [StoreProcs -> Store!OpShape]
        /\ s4'[q].op = s4[q].op /\ s4'[q].pc = "uncache" /\ s4'[q].key = k /\ s4'[q].name = s4[q].name
        /\ s4'[q].val = s4[q].val /\ s4'[q].old = s4[q].old
        /\ \A r \in StoreProcs \ {q} : s4'[r] = s4[r]
    BY <1>0, OpGoes DEF Store!StorePCs
  <2>2. s2 # <<>>
    BY OpAt DEF Store!OpKnows
  <2>3. s4[q].val - s4[q].old \in Int /\ s2' = [i \in DOMAIN s2 |-> s2[i] + (s4[q].val - s4[q].old)]
    BY <1>0 DEF Store!Diff
  <2> QED
    BY <1>0, <2>1, <2>2, <2>3, RowsAdded
<1>2. Store!StoreTypeOK'
  BY <1>0, <1>1 DEF Store!StoreTypeOK, Store!StoreIInv
<1>3. \A r \in StoreProcs : Store!OpKnows(r)'
  <2>1. Store!OpKnows(q)'
    BY <1>0, <1>1 DEF Store!OpKnows
  <2>2. s2 # <<>> => s2' # <<>>
    BY <1>0, <1>1
  <2> QED
    BY <1>1, <2>1, <2>2, OthersKnow
<1>4. Store!CountedExact' /\ Store!QuotaKnown'
  <2>1. /\ Store!Uncounted(q) = s4[q].val /\ Store!Uncounted(q)' = 0
        /\ Store!Overcounted(q) = s4[q].old /\ Store!Overcounted(q)' = 0
        /\ Store!Adds(q) \in Nat /\ Store!Adds(q) >= s4[q].val - s4[q].old /\ Store!Adds(q)' = 0
        /\ Store!Row_ \in Int /\ (~s5' => Store!Row_' = Store!Row_ + (s4[q].val - s4[q].old))
    BY <1>0, <1>1 DEF Store!Uncounted, Store!Overcounted, Store!Adds, Store!Row_
  <2>2. ASSUME ~s5'
        PROVE  /\ ~s5
               /\ Store!Row_' - Store!Row_ = (s1'[k] - s1[k]) - (Store!Uncounted(q)' - Store!Uncounted(q))
                                               + (Store!Overcounted(q)' - Store!Overcounted(q))
               /\ \/ Store!Row_' + Store!Adds(q)' <= Store!Row_ + Store!Adds(q)
                  \/ Store!Row_' + Store!Adds(q)' <= Quota
    <3>1. ~s5
      BY <1>0, <1>1, <2>2
    <3>2. s1[k] \in Int /\ s1'[k] \in Int
      BY <1>0, <1>1
    <3>3. s4[q].val \in Int /\ s4[q].old \in Int /\ s1'[k] = s1[k]
      BY <1>0
    <3> HIDE DEF k
    <3> QED
      BY <2>1, <2>2, <3>1, <3>2, <3>3
  <2>3. k \in StoreKeys /\ \A j \in StoreKeys \ {k} : s1'[j] = s1[j]
    BY <1>0, <1>1
  <2> QED
    BY <1>1, <1>2, <2>2, <2>3, CountStep
<1>8. /\ (s4'[q].op = s4[q].op /\ s4'[q].key = s4[q].key /\ s4'[q].name = s4[q].name) \/ s4'[q].op = "none"
      /\ s4'[q].op \in Store!Writes => s4[q].op \in Store!Writes /\ s4'[q].key = s4[q].key
      /\ \A j \in StoreKeys : s1'[j] # s1[j] => s4[q].op \in Store!Writes /\ j = s4[q].key
      /\ \A j \in StoreNames :
           s3'[j] # s3[j] => /\ s4[q].op \in {"Load"} \cup Store!Writes /\ j = s4[q].name
                             /\ s4[q].op = "Load" => s3'[j] = s1[s4[q].key] \/ j \in s6'
      /\ s6 \subseteq s6' /\ (~s5' => ~s5)
  BY <1>0, <1>1 DEF Store!Writes, Store!CacheKnows
<1>5. Store!CountKnown'
  <2>1. ~s5' => Store!OldKnown(q)' /\ Len(s2') <= 1
    BY <1>0, <1>1 DEF Store!CountKnown, Store!OldKnown, Store!StoreIInv
  <2> QED
    BY <1>1, <1>8, <2>1, CountKnownStep
<1>6. \A r \in StoreProcs : Store!CacheKnows(r)'
  <2>1. Store!CacheKnows(q)'
    BY <1>0, <1>1 DEF Store!CacheKnows, Store!OnKey, Store!Writes
  <2> QED
    BY <1>1, <1>8, <2>1, CacheKnowsStep
<1>7. Store!CacheCoherent'
  <2>1. s4[q].op \in Store!Writes /\ s4'[q].op = "none" /\ s4[q].name \in StoreNames \ s6' =>
          s3'[s4[q].name] \in {0, s1'[s4[q].key]}
    BY <1>0, <1>1 DEF Store!CacheKnows, Store!Writes
  <2> QED
    BY <1>1, <1>8, <2>1, CoherentStep
<1>9. Store!RowKnown'
  <2>1. ASSUME ~s5', s2' = <<>>
        PROVE  /\ s2 = <<>> /\ s4'[q].pc # "dec"
               /\ s4[q].pc \in {"quota", "create"} => s4'[q].key = k /\ s4'[q].pc \in {"quota", "create"}
               /\ \A j \in StoreKeys : s1'[j] \notin {0, s1[j]} => s4'[q].key = j /\ s4'[q].pc \in {"quota", "create"}
    BY <1>0, <1>1, <2>1
  <2> QED
    BY <1>1, <1>8, <2>1, RowKnownStep
<1> QED
  BY <1>2, <1>3, <1>4, <1>5, <1>6, <1>7, <1>9 DEF Store!StoreIInv

\* Save has removed the object from the cache.
LEMMA SaveUncaches ==
  ASSUME Store!StoreAssumption, Store!StoreIInv, NEW q \in StoreProcs, s4[q].pc = "uncache", Store!Return(q),
         s3' = [s3 EXCEPT ![s4[q].name] = 0],
         UNCHANGED <<s1, s2, s5, s6, s7>>
  PROVE  Store!StoreIInv'
<1> DEFINE k == s4[q].key
<1>0. /\ k \in StoreKeys /\ s4[q].name \in StoreNames /\ k = CleanPath[s4[q].name] /\ s4 \in [StoreProcs -> Store!OpShape] /\ MaxBytes \in Nat
      /\ s1 \in [StoreKeys -> 0..MaxBytes] /\ s3 \in [StoreNames -> 0..MaxBytes] /\ s2 \in Seq(Int)
      /\ s6 \subseteq StoreNames /\ s4[q].val \in 0..MaxBytes /\ s4[q].old \in 0..MaxBytes
      /\ s5 \in BOOLEAN /\ s1[k] \in 0..MaxBytes
      /\ s1' = s1 /\ s2' = s2 /\ s5' = s5 /\ s6' = s6 /\ s7' = s7
      /\ s4[q].op = "Save"
      /\ Store!CacheKnows(q) /\ Store!OpKnows(q)
  BY OpAt, OpFields DEF Store!Writes, Store!At, Store!StoreIInv, Store!StoreTypeOK, Store!StoreAssumption
<1>1. /\ s4' \in [StoreProcs -> Store!OpShape]
      /\ s4'[q].op = "none" /\ s4'[q].pc = "idle" /\ s4'[q].key = "none" /\ s4'[q].name = "none"
      /\ s4'[q].val = 0 /\ s4'[q].old = 0
      /\ \A r \in StoreProcs \ {q} : s4'[r] = s4[r]
      /\ s3' \in [StoreNames -> 0..MaxBytes] /\ s3'[s4[q].name] = 0 /\ \A j \in StoreNames \ {s4[q].name} : s3'[j] = s3[j]
  BY <1>0, OpReturns
<1>2. Store!StoreTypeOK'
  BY <1>0, <1>1 DEF Store!StoreTypeOK, Store!StoreIInv
<1>3. \A r \in StoreProcs : Store!OpKnows(r)'
  <2>1. Store!OpKnows(q)'
    BY <1>0, <1>1 DEF Store!OpKnows
  <2>2. s2 # <<>> => s2' # <<>>
    BY <1>0, <1>1
  <2> QED
    BY <1>1, <2>1, <2>2, OthersKnow
<1>4. Store!CountedExact' /\ Store!QuotaKnown'
  <2>1. /\ Store!Uncounted(q) = 0 /\ Store!Uncounted(q)' = 0 /\ Store!Overcounted(q) = 0
        /\ Store!Overcounted(q)' = 0 /\ Store!Adds(q) = 0 /\ Store!Adds(q)' = 0
        /\ Store!Row_' = Store!Row_ /\ Store!Row_ \in Int
    BY <1>0, <1>1 DEF Store!Uncounted, Store!Overcounted, Store!Adds, Store!Row_
  <2>2. ASSUME ~s5'
        PROVE  /\ ~s5
               /\ Store!Row_' - Store!Row_ = (s1'[k] - s1[k]) - (Store!Uncounted(q)' - Store!Uncounted(q))
                                               + (Store!Overcounted(q)' - Store!Overcounted(q))
               /\ \/ Store!Row_' + Store!Adds(q)' <= Store!Row_ + Store!Adds(q)
                  \/ Store!Row_' + Store!Adds(q)' <= Quota
    <3>1. ~s5
      BY <1>0, <1>1, <2>2
    <3>2. s1[k] \in Int /\ s1'[k] \in Int
      BY <1>0, <1>1
    <3> QED
      BY <1>0, <1>1, <2>1, <2>2, <3>1, <3>2
  <2>3. k \in StoreKeys /\ \A j \in StoreKeys \ {k} : s1'[j] = s1[j]
    BY <1>0, <1>1
  <2> QED
    BY <1>1, <1>2, <2>2, <2>3, CountStep
<1>8. /\ (s4'[q].op = s4[q].op /\ s4'[q].key = s4[q].key /\ s4'[q].name = s4[q].name) \/ s4'[q].op = "none"
      /\ s4'[q].op \in Store!Writes => s4[q].op \in Store!Writes /\ s4'[q].key = s4[q].key
      /\ \A j \in StoreKeys : s1'[j] # s1[j] => s4[q].op \in Store!Writes /\ j = s4[q].key
      /\ \A j \in StoreNames :
           s3'[j] # s3[j] => /\ s4[q].op \in {"Load"} \cup Store!Writes /\ j = s4[q].name
                             /\ s4[q].op = "Load" => s3'[j] = s1[s4[q].key] \/ j \in s6'
      /\ s6 \subseteq s6' /\ (~s5' => ~s5)
  BY <1>0, <1>1 DEF Store!Writes, Store!CacheKnows
<1>5. Store!CountKnown'
  <2>1. ~s5' => Store!OldKnown(q)' /\ Len(s2') <= 1
    BY <1>0, <1>1 DEF Store!CountKnown, Store!OldKnown, Store!StoreIInv
  <2> QED
    BY <1>1, <1>8, <2>1, CountKnownStep
<1>6. \A r \in StoreProcs : Store!CacheKnows(r)'
  <2>1. Store!CacheKnows(q)'
    BY <1>0, <1>1 DEF Store!CacheKnows, Store!OnKey, Store!Writes
  <2> QED
    BY <1>1, <1>8, <2>1, CacheKnowsStep
<1>7. Store!CacheCoherent'
  <2>1. s4[q].op \in Store!Writes /\ s4'[q].op = "none" /\ s4[q].name \in StoreNames \ s6' =>
          s3'[s4[q].name] \in {0, s1'[s4[q].key]}
    BY <1>0, <1>1 DEF Store!CacheKnows, Store!Writes
  <2> QED
    BY <1>1, <1>8, <2>1, CoherentStep
<1>9. Store!RowKnown'
  <2>1. ASSUME ~s5', s2' = <<>>
        PROVE  /\ s2 = <<>> /\ s4'[q].pc # "dec"
               /\ s4[q].pc \in {"quota", "create"} => s4'[q].key = k /\ s4'[q].pc \in {"quota", "create"}
               /\ \A j \in StoreKeys : s1'[j] \notin {0, s1[j]} => s4'[q].key = j /\ s4'[q].pc \in {"quota", "create"}
    BY <1>0, <1>1, <2>1
  <2> QED
    BY <1>1, <1>8, <2>1, RowKnownStep
<1> QED
  BY <1>2, <1>3, <1>4, <1>5, <1>6, <1>7, <1>9 DEF Store!StoreIInv

\* Save could not remove the object from the cache.
LEMMA SaveUncacheFails ==
  ASSUME Store!StoreAssumption, Store!StoreIInv, NEW q \in StoreProcs, s4[q].pc = "uncache", Store!Return(q),
         s6' = s6 \cup {s4[q].name},
         UNCHANGED <<s1, s2, s3, s5, s7>>
  PROVE  Store!StoreIInv'
<1> DEFINE k == s4[q].key
<1>0. /\ k \in StoreKeys /\ s4[q].name \in StoreNames /\ k = CleanPath[s4[q].name] /\ s4 \in [StoreProcs -> Store!OpShape] /\ MaxBytes \in Nat
      /\ s1 \in [StoreKeys -> 0..MaxBytes] /\ s3 \in [StoreNames -> 0..MaxBytes] /\ s2 \in Seq(Int)
      /\ s6 \subseteq StoreNames /\ s4[q].val \in 0..MaxBytes /\ s4[q].old \in 0..MaxBytes
      /\ s5 \in BOOLEAN /\ s1[k] \in 0..MaxBytes
      /\ s1' = s1 /\ s2' = s2 /\ s3' = s3 /\ s5' = s5 /\ s7' = s7
      /\ s4[q].op = "Save"
      /\ Store!CacheKnows(q) /\ Store!OpKnows(q)
  BY OpAt, OpFields DEF Store!Writes, Store!At, Store!StoreIInv, Store!StoreTypeOK, Store!StoreAssumption
<1>1. /\ s4' \in [StoreProcs -> Store!OpShape]
      /\ s4'[q].op = "none" /\ s4'[q].pc = "idle" /\ s4'[q].key = "none" /\ s4'[q].name = "none"
      /\ s4'[q].val = 0 /\ s4'[q].old = 0
      /\ \A r \in StoreProcs \ {q} : s4'[r] = s4[r]
  BY <1>0, OpReturns
<1>2. Store!StoreTypeOK'
  BY <1>0, <1>1 DEF Store!StoreTypeOK, Store!StoreIInv
<1>3. \A r \in StoreProcs : Store!OpKnows(r)'
  <2>1. Store!OpKnows(q)'
    BY <1>0, <1>1 DEF Store!OpKnows
  <2>2. s2 # <<>> => s2' # <<>>
    BY <1>0, <1>1
  <2> QED
    BY <1>1, <2>1, <2>2, OthersKnow
<1>4. Store!CountedExact' /\ Store!QuotaKnown'
  <2>1. /\ Store!Uncounted(q) = 0 /\ Store!Uncounted(q)' = 0 /\ Store!Overcounted(q) = 0
        /\ Store!Overcounted(q)' = 0 /\ Store!Adds(q) = 0 /\ Store!Adds(q)' = 0
        /\ Store!Row_' = Store!Row_ /\ Store!Row_ \in Int
    BY <1>0, <1>1 DEF Store!Uncounted, Store!Overcounted, Store!Adds, Store!Row_
  <2>2. ASSUME ~s5'
        PROVE  /\ ~s5
               /\ Store!Row_' - Store!Row_ = (s1'[k] - s1[k]) - (Store!Uncounted(q)' - Store!Uncounted(q))
                                               + (Store!Overcounted(q)' - Store!Overcounted(q))
               /\ \/ Store!Row_' + Store!Adds(q)' <= Store!Row_ + Store!Adds(q)
                  \/ Store!Row_' + Store!Adds(q)' <= Quota
    <3>1. ~s5
      BY <1>0, <1>1, <2>2
    <3>2. s1[k] \in Int /\ s1'[k] \in Int
      BY <1>0, <1>1
    <3> QED
      BY <1>0, <1>1, <2>1, <2>2, <3>1, <3>2
  <2>3. k \in StoreKeys /\ \A j \in StoreKeys \ {k} : s1'[j] = s1[j]
    BY <1>0, <1>1
  <2> QED
    BY <1>1, <1>2, <2>2, <2>3, CountStep
<1>8. /\ (s4'[q].op = s4[q].op /\ s4'[q].key = s4[q].key /\ s4'[q].name = s4[q].name) \/ s4'[q].op = "none"
      /\ s4'[q].op \in Store!Writes => s4[q].op \in Store!Writes /\ s4'[q].key = s4[q].key
      /\ \A j \in StoreKeys : s1'[j] # s1[j] => s4[q].op \in Store!Writes /\ j = s4[q].key
      /\ \A j \in StoreNames :
           s3'[j] # s3[j] => /\ s4[q].op \in {"Load"} \cup Store!Writes /\ j = s4[q].name
                             /\ s4[q].op = "Load" => s3'[j] = s1[s4[q].key] \/ j \in s6'
      /\ s6 \subseteq s6' /\ (~s5' => ~s5)
  BY <1>0, <1>1 DEF Store!Writes, Store!CacheKnows
<1>5. Store!CountKnown'
  <2>1. ~s5' => Store!OldKnown(q)' /\ Len(s2') <= 1
    BY <1>0, <1>1 DEF Store!CountKnown, Store!OldKnown, Store!StoreIInv
  <2> QED
    BY <1>1, <1>8, <2>1, CountKnownStep
<1>6. \A r \in StoreProcs : Store!CacheKnows(r)'
  <2>1. Store!CacheKnows(q)'
    BY <1>0, <1>1 DEF Store!CacheKnows, Store!OnKey, Store!Writes
  <2> QED
    BY <1>1, <1>8, <2>1, CacheKnowsStep
<1>7. Store!CacheCoherent'
  <2>1. s4[q].op \in Store!Writes /\ s4'[q].op = "none" /\ s4[q].name \in StoreNames \ s6' =>
          s3'[s4[q].name] \in {0, s1'[s4[q].key]}
    BY <1>0, <1>1 DEF Store!CacheKnows, Store!Writes
  <2> QED
    BY <1>1, <1>8, <2>1, CoherentStep
<1>9. Store!RowKnown'
  <2>1. ASSUME ~s5', s2' = <<>>
        PROVE  /\ s2 = <<>> /\ s4'[q].pc # "dec"
               /\ s4[q].pc \in {"quota", "create"} => s4'[q].key = k /\ s4'[q].pc \in {"quota", "create"}
               /\ \A j \in StoreKeys : s1'[j] \notin {0, s1[j]} => s4'[q].key = j /\ s4'[q].pc \in {"quota", "create"}
    BY <1>0, <1>1, <2>1
  <2> QED
    BY <1>1, <1>8, <2>1, RowKnownStep
<1> QED
  BY <1>2, <1>3, <1>4, <1>5, <1>6, <1>7, <1>9 DEF Store!StoreIInv

\* Load has cached what it read.
LEMMA LoadFills ==
  ASSUME Store!StoreAssumption, Store!StoreIInv, NEW q \in StoreProcs, s4[q].pc = "fill", Store!Return(q),
         s3' = [s3 EXCEPT ![s4[q].name] = s4[q].val],
         UNCHANGED <<s1, s2, s5, s6, s7>>
  PROVE  Store!StoreIInv'
<1> DEFINE k == s4[q].key
<1>0. /\ k \in StoreKeys /\ s4[q].name \in StoreNames /\ k = CleanPath[s4[q].name] /\ s4 \in [StoreProcs -> Store!OpShape] /\ MaxBytes \in Nat
      /\ s1 \in [StoreKeys -> 0..MaxBytes] /\ s3 \in [StoreNames -> 0..MaxBytes] /\ s2 \in Seq(Int)
      /\ s6 \subseteq StoreNames /\ s4[q].val \in 0..MaxBytes /\ s4[q].old \in 0..MaxBytes
      /\ s5 \in BOOLEAN /\ s1[k] \in 0..MaxBytes
      /\ s1' = s1 /\ s2' = s2 /\ s5' = s5 /\ s6' = s6 /\ s7' = s7
      /\ s4[q].op = "Load"
      /\ Store!CacheKnows(q) /\ Store!OpKnows(q)
  BY OpAt, OpFields DEF Store!Writes, Store!At, Store!StoreIInv, Store!StoreTypeOK, Store!StoreAssumption
<1>1. /\ s4' \in [StoreProcs -> Store!OpShape]
      /\ s4'[q].op = "none" /\ s4'[q].pc = "idle" /\ s4'[q].key = "none" /\ s4'[q].name = "none"
      /\ s4'[q].val = 0 /\ s4'[q].old = 0
      /\ \A r \in StoreProcs \ {q} : s4'[r] = s4[r]
      /\ s3' \in [StoreNames -> 0..MaxBytes] /\ s3'[s4[q].name] = s4[q].val /\ \A j \in StoreNames \ {s4[q].name} : s3'[j] = s3[j]
  BY <1>0, OpReturns
<1>2. Store!StoreTypeOK'
  BY <1>0, <1>1 DEF Store!StoreTypeOK, Store!StoreIInv
<1>3. \A r \in StoreProcs : Store!OpKnows(r)'
  <2>1. Store!OpKnows(q)'
    BY <1>0, <1>1 DEF Store!OpKnows
  <2>2. s2 # <<>> => s2' # <<>>
    BY <1>0, <1>1
  <2> QED
    BY <1>1, <2>1, <2>2, OthersKnow
<1>4. Store!CountedExact' /\ Store!QuotaKnown'
  <2>1. /\ Store!Uncounted(q) = 0 /\ Store!Uncounted(q)' = 0 /\ Store!Overcounted(q) = 0
        /\ Store!Overcounted(q)' = 0 /\ Store!Adds(q) = 0 /\ Store!Adds(q)' = 0
        /\ Store!Row_' = Store!Row_ /\ Store!Row_ \in Int
    BY <1>0, <1>1 DEF Store!Uncounted, Store!Overcounted, Store!Adds, Store!Row_
  <2>2. ASSUME ~s5'
        PROVE  /\ ~s5
               /\ Store!Row_' - Store!Row_ = (s1'[k] - s1[k]) - (Store!Uncounted(q)' - Store!Uncounted(q))
                                               + (Store!Overcounted(q)' - Store!Overcounted(q))
               /\ \/ Store!Row_' + Store!Adds(q)' <= Store!Row_ + Store!Adds(q)
                  \/ Store!Row_' + Store!Adds(q)' <= Quota
    <3>1. ~s5
      BY <1>0, <1>1, <2>2
    <3>2. s1[k] \in Int /\ s1'[k] \in Int
      BY <1>0, <1>1
    <3> QED
      BY <1>0, <1>1, <2>1, <2>2, <3>1, <3>2
  <2>3. k \in StoreKeys /\ \A j \in StoreKeys \ {k} : s1'[j] = s1[j]
    BY <1>0, <1>1
  <2> QED
    BY <1>1, <1>2, <2>2, <2>3, CountStep
<1>8. /\ (s4'[q].op = s4[q].op /\ s4'[q].key = s4[q].key /\ s4'[q].name = s4[q].name) \/ s4'[q].op = "none"
      /\ s4'[q].op \in Store!Writes => s4[q].op \in Store!Writes /\ s4'[q].key = s4[q].key
      /\ \A j \in StoreKeys : s1'[j] # s1[j] => s4[q].op \in Store!Writes /\ j = s4[q].key
      /\ \A j \in StoreNames :
           s3'[j] # s3[j] => /\ s4[q].op \in {"Load"} \cup Store!Writes /\ j = s4[q].name
                             /\ s4[q].op = "Load" => s3'[j] = s1[s4[q].key] \/ j \in s6'
      /\ s6 \subseteq s6' /\ (~s5' => ~s5)
  BY <1>0, <1>1 DEF Store!Writes, Store!CacheKnows
<1>5. Store!CountKnown'
  <2>1. ~s5' => Store!OldKnown(q)' /\ Len(s2') <= 1
    BY <1>0, <1>1 DEF Store!CountKnown, Store!OldKnown, Store!StoreIInv
  <2> QED
    BY <1>1, <1>8, <2>1, CountKnownStep
<1>6. \A r \in StoreProcs : Store!CacheKnows(r)'
  <2>1. Store!CacheKnows(q)'
    BY <1>0, <1>1 DEF Store!CacheKnows, Store!OnKey, Store!Writes
  <2> QED
    BY <1>1, <1>8, <2>1, CacheKnowsStep
<1>7. Store!CacheCoherent'
  <2>1. s4[q].op \in Store!Writes /\ s4'[q].op = "none" /\ s4[q].name \in StoreNames \ s6' =>
          s3'[s4[q].name] \in {0, s1'[s4[q].key]}
    BY <1>0, <1>1 DEF Store!CacheKnows, Store!Writes
  <2> QED
    BY <1>1, <1>8, <2>1, CoherentStep
<1>9. Store!RowKnown'
  <2>1. ASSUME ~s5', s2' = <<>>
        PROVE  /\ s2 = <<>> /\ s4'[q].pc # "dec"
               /\ s4[q].pc \in {"quota", "create"} => s4'[q].key = k /\ s4'[q].pc \in {"quota", "create"}
               /\ \A j \in StoreKeys : s1'[j] \notin {0, s1[j]} => s4'[q].key = j /\ s4'[q].pc \in {"quota", "create"}
    BY <1>0, <1>1, <2>1
  <2> QED
    BY <1>1, <1>8, <2>1, RowKnownStep
<1> QED
  BY <1>2, <1>3, <1>4, <1>5, <1>6, <1>7, <1>9 DEF Store!StoreIInv

\* Delete has removed the object from the cache.
LEMMA DeleteUncaches ==
  ASSUME Store!StoreAssumption, Store!StoreIInv, NEW q \in StoreProcs, s4[q].pc = "Delete", Store!GoOn(q, "size"),
         s3' = [s3 EXCEPT ![s4[q].name] = 0],
         UNCHANGED <<s1, s2, s5, s6, s7>>
  PROVE  Store!StoreIInv'
<1> DEFINE k == s4[q].key
<1>0. /\ k \in StoreKeys /\ s4[q].name \in StoreNames /\ k = CleanPath[s4[q].name] /\ s4 \in [StoreProcs -> Store!OpShape] /\ MaxBytes \in Nat
      /\ s1 \in [StoreKeys -> 0..MaxBytes] /\ s3 \in [StoreNames -> 0..MaxBytes] /\ s2 \in Seq(Int)
      /\ s6 \subseteq StoreNames /\ s4[q].val \in 0..MaxBytes /\ s4[q].old \in 0..MaxBytes
      /\ s5 \in BOOLEAN /\ s1[k] \in 0..MaxBytes
      /\ s1' = s1 /\ s2' = s2 /\ s5' = s5 /\ s6' = s6 /\ s7' = s7
      /\ s4[q].op = "Delete"
      /\ Store!CacheKnows(q) /\ Store!OpKnows(q)
  BY OpAt, OpFields DEF Store!Writes, Store!At, Store!StoreIInv, Store!StoreTypeOK, Store!StoreAssumption
<1>1. /\ s4' \in [StoreProcs -> Store!OpShape]
      /\ s4'[q].op = s4[q].op /\ s4'[q].pc = "size" /\ s4'[q].key = k /\ s4'[q].name = s4[q].name
      /\ s4'[q].val = s4[q].val /\ s4'[q].old = s4[q].old
      /\ \A r \in StoreProcs \ {q} : s4'[r] = s4[r]
      /\ s3' \in [StoreNames -> 0..MaxBytes] /\ s3'[s4[q].name] = 0 /\ \A j \in StoreNames \ {s4[q].name} : s3'[j] = s3[j]
  BY <1>0, OpGoes DEF Store!StorePCs
<1>2. Store!StoreTypeOK'
  BY <1>0, <1>1 DEF Store!StoreTypeOK, Store!StoreIInv
<1>3. \A r \in StoreProcs : Store!OpKnows(r)'
  <2>1. Store!OpKnows(q)'
    BY <1>0, <1>1 DEF Store!OpKnows
  <2>2. s2 # <<>> => s2' # <<>>
    BY <1>0, <1>1
  <2> QED
    BY <1>1, <2>1, <2>2, OthersKnow
<1>4. Store!CountedExact' /\ Store!QuotaKnown'
  <2>1. /\ Store!Uncounted(q) = 0 /\ Store!Uncounted(q)' = 0 /\ Store!Overcounted(q) = 0
        /\ Store!Overcounted(q)' = 0 /\ Store!Adds(q) = 0 /\ Store!Adds(q)' = 0
        /\ Store!Row_' = Store!Row_ /\ Store!Row_ \in Int
    BY <1>0, <1>1 DEF Store!Uncounted, Store!Overcounted, Store!Adds, Store!Row_
  <2>2. ASSUME ~s5'
        PROVE  /\ ~s5
               /\ Store!Row_' - Store!Row_ = (s1'[k] - s1[k]) - (Store!Uncounted(q)' - Store!Uncounted(q))
                                               + (Store!Overcounted(q)' - Store!Overcounted(q))
               /\ \/ Store!Row_' + Store!Adds(q)' <= Store!Row_ + Store!Adds(q)
                  \/ Store!Row_' + Store!Adds(q)' <= Quota
    <3>1. ~s5
      BY <1>0, <1>1, <2>2
    <3>2. s1[k] \in Int /\ s1'[k] \in Int
      BY <1>0, <1>1
    <3> QED
      BY <1>0, <1>1, <2>1, <2>2, <3>1, <3>2
  <2>3. k \in StoreKeys /\ \A j \in StoreKeys \ {k} : s1'[j] = s1[j]
    BY <1>0, <1>1
  <2> QED
    BY <1>1, <1>2, <2>2, <2>3, CountStep
<1>8. /\ (s4'[q].op = s4[q].op /\ s4'[q].key = s4[q].key /\ s4'[q].name = s4[q].name) \/ s4'[q].op = "none"
      /\ s4'[q].op \in Store!Writes => s4[q].op \in Store!Writes /\ s4'[q].key = s4[q].key
      /\ \A j \in StoreKeys : s1'[j] # s1[j] => s4[q].op \in Store!Writes /\ j = s4[q].key
      /\ \A j \in StoreNames :
           s3'[j] # s3[j] => /\ s4[q].op \in {"Load"} \cup Store!Writes /\ j = s4[q].name
                             /\ s4[q].op = "Load" => s3'[j] = s1[s4[q].key] \/ j \in s6'
      /\ s6 \subseteq s6' /\ (~s5' => ~s5)
  BY <1>0, <1>1 DEF Store!Writes, Store!CacheKnows
<1>5. Store!CountKnown'
  <2>1. ~s5' => Store!OldKnown(q)' /\ Len(s2') <= 1
    BY <1>0, <1>1 DEF Store!CountKnown, Store!OldKnown, Store!StoreIInv
  <2> QED
    BY <1>1, <1>8, <2>1, CountKnownStep
<1>6. \A r \in StoreProcs : Store!CacheKnows(r)'
  <2>1. Store!CacheKnows(q)'
    BY <1>0, <1>1 DEF Store!CacheKnows, Store!OnKey, Store!Writes
  <2> QED
    BY <1>1, <1>8, <2>1, CacheKnowsStep
<1>7. Store!CacheCoherent'
  <2>1. s4[q].op \in Store!Writes /\ s4'[q].op = "none" /\ s4[q].name \in StoreNames \ s6' =>
          s3'[s4[q].name] \in {0, s1'[s4[q].key]}
    BY <1>0, <1>1 DEF Store!CacheKnows, Store!Writes
  <2> QED
    BY <1>1, <1>8, <2>1, CoherentStep
<1>9. Store!RowKnown'
  <2>1. ASSUME ~s5', s2' = <<>>
        PROVE  /\ s2 = <<>> /\ s4'[q].pc # "dec"
               /\ s4[q].pc \in {"quota", "create"} => s4'[q].key = k /\ s4'[q].pc \in {"quota", "create"}
               /\ \A j \in StoreKeys : s1'[j] \notin {0, s1[j]} => s4'[q].key = j /\ s4'[q].pc \in {"quota", "create"}
    BY <1>0, <1>1, <2>1
  <2> QED
    BY <1>1, <1>8, <2>1, RowKnownStep
<1> QED
  BY <1>2, <1>3, <1>4, <1>5, <1>6, <1>7, <1>9 DEF Store!StoreIInv

\* Delete has removed the object from the store.
LEMMA DeleteRemoves ==
  ASSUME Store!StoreAssumption, Store!StoreIInv, NEW q \in StoreProcs, s4[q].pc = "remove", Store!GoOn(q, "dec"),
         s1' = [s1 EXCEPT ![s4[q].key] = 0],
         UNCHANGED <<s2, s3, s5, s6, s7>>
  PROVE  Store!StoreIInv'
<1> DEFINE k == s4[q].key
<1>0. /\ k \in StoreKeys /\ s4[q].name \in StoreNames /\ k = CleanPath[s4[q].name] /\ s4 \in [StoreProcs -> Store!OpShape] /\ MaxBytes \in Nat
      /\ s1 \in [StoreKeys -> 0..MaxBytes] /\ s3 \in [StoreNames -> 0..MaxBytes] /\ s2 \in Seq(Int)
      /\ s6 \subseteq StoreNames /\ s4[q].val \in 0..MaxBytes /\ s4[q].old \in 0..MaxBytes
      /\ s5 \in BOOLEAN /\ s1[k] \in 0..MaxBytes
      /\ s2' = s2 /\ s3' = s3 /\ s5' = s5 /\ s6' = s6 /\ s7' = s7
      /\ s4[q].op = "Delete"
      /\ Store!CacheKnows(q) /\ Store!OpKnows(q)
  BY OpAt, OpFields DEF Store!Writes, Store!At, Store!StoreIInv, Store!StoreTypeOK, Store!StoreAssumption
<1>1. /\ s4' \in [StoreProcs -> Store!OpShape]
      /\ s4'[q].op = s4[q].op /\ s4'[q].pc = "dec" /\ s4'[q].key = k /\ s4'[q].name = s4[q].name
      /\ s4'[q].val = s4[q].val /\ s4'[q].old = s4[q].old
      /\ \A r \in StoreProcs \ {q} : s4'[r] = s4[r]
      /\ s1' \in [StoreKeys -> 0..MaxBytes] /\ s1'[k] = 0 /\ \A j \in StoreKeys \ {k} : s1'[j] = s1[j]
      /\ ~s5 => s4[q].old = s1[k] /\ s2 # <<>>
  <2>1. /\ s4' \in [StoreProcs -> Store!OpShape]
        /\ s4'[q].op = s4[q].op /\ s4'[q].pc = "dec" /\ s4'[q].key = k /\ s4'[q].name = s4[q].name
        /\ s4'[q].val = s4[q].val /\ s4'[q].old = s4[q].old
        /\ \A r \in StoreProcs \ {q} : s4'[r] = s4[r]
    BY <1>0, OpGoes DEF Store!StorePCs
  <2>2. s1' \in [StoreKeys -> 0..MaxBytes] /\ s1'[k] = 0 /\ \A j \in StoreKeys \ {k} : s1'[j] = s1[j]
    BY <1>0
  <2>3. ASSUME ~s5 PROVE s4[q].old = s1[k] /\ s2 # <<>>
    <3>1. s4[q].old = s1[k]
      BY <2>3 DEF Store!StoreIInv, Store!CountKnown, Store!OldKnown
    <3>2. s4[q].old # 0
      BY <1>0 DEF Store!OpKnows
    <3>3. ASSUME s2 = <<>> PROVE FALSE
      <4>1. PICK r \in StoreProcs : s4[r].key = k /\ s4[r].pc \in {"quota", "create"}
        BY <1>0, <2>3, <3>1, <3>2, <3>3 DEF Store!StoreIInv, Store!RowKnown
      <4>2. s4[r].op = "Save" /\ r # q
        BY <4>1, OpAt
      <4> QED
        BY <1>0, <2>3, <4>1, <4>2 DEF Store!StoreIInv, Store!CountKnown, Store!Writes
    <3> QED
      BY <3>1, <3>3
  <2> QED
    BY <2>1, <2>2, <2>3
<1>2. Store!StoreTypeOK'
  BY <1>0, <1>1 DEF Store!StoreTypeOK, Store!StoreIInv
<1>3. \A r \in StoreProcs : Store!OpKnows(r)'
  <2>1. Store!OpKnows(q)'
    BY <1>0, <1>1 DEF Store!OpKnows
  <2>2. s2 # <<>> => s2' # <<>>
    BY <1>0, <1>1
  <2> QED
    BY <1>1, <2>1, <2>2, OthersKnow
<1>4. Store!CountedExact' /\ Store!QuotaKnown'
  <2>1. /\ Store!Uncounted(q) = 0 /\ Store!Uncounted(q)' = 0 /\ Store!Overcounted(q) = 0
        /\ Store!Overcounted(q)' = s4[q].old /\ Store!Adds(q) = 0 /\ Store!Adds(q)' = 0
        /\ Store!Row_' = Store!Row_ /\ Store!Row_ \in Int
    BY <1>0, <1>1 DEF Store!Uncounted, Store!Overcounted, Store!Adds, Store!Row_
  <2>2. ASSUME ~s5'
        PROVE  /\ ~s5
               /\ Store!Row_' - Store!Row_ = (s1'[k] - s1[k]) - (Store!Uncounted(q)' - Store!Uncounted(q))
                                               + (Store!Overcounted(q)' - Store!Overcounted(q))
               /\ \/ Store!Row_' + Store!Adds(q)' <= Store!Row_ + Store!Adds(q)
                  \/ Store!Row_' + Store!Adds(q)' <= Quota
    <3>1. ~s5
      BY <1>0, <1>1, <2>2
    <3>2. s1[k] \in Int /\ s1'[k] \in Int
      BY <1>0, <1>1
    <3> QED
      BY <1>0, <1>1, <2>1, <2>2, <3>1, <3>2
  <2>3. k \in StoreKeys /\ \A j \in StoreKeys \ {k} : s1'[j] = s1[j]
    BY <1>0, <1>1
  <2> QED
    BY <1>1, <1>2, <2>2, <2>3, CountStep
<1>8. /\ (s4'[q].op = s4[q].op /\ s4'[q].key = s4[q].key /\ s4'[q].name = s4[q].name) \/ s4'[q].op = "none"
      /\ s4'[q].op \in Store!Writes => s4[q].op \in Store!Writes /\ s4'[q].key = s4[q].key
      /\ \A j \in StoreKeys : s1'[j] # s1[j] => s4[q].op \in Store!Writes /\ j = s4[q].key
      /\ \A j \in StoreNames :
           s3'[j] # s3[j] => /\ s4[q].op \in {"Load"} \cup Store!Writes /\ j = s4[q].name
                             /\ s4[q].op = "Load" => s3'[j] = s1[s4[q].key] \/ j \in s6'
      /\ s6 \subseteq s6' /\ (~s5' => ~s5)
  BY <1>0, <1>1 DEF Store!Writes, Store!CacheKnows
<1>5. Store!CountKnown'
  <2>1. ~s5' => Store!OldKnown(q)' /\ Len(s2') <= 1
    BY <1>0, <1>1 DEF Store!CountKnown, Store!OldKnown, Store!StoreIInv
  <2> QED
    BY <1>1, <1>8, <2>1, CountKnownStep
<1>6. \A r \in StoreProcs : Store!CacheKnows(r)'
  <2>1. Store!CacheKnows(q)'
    BY <1>0, <1>1 DEF Store!CacheKnows, Store!OnKey, Store!Writes
  <2> QED
    BY <1>1, <1>8, <2>1, CacheKnowsStep
<1>7. Store!CacheCoherent'
  <2>1. s4[q].op \in Store!Writes /\ s4'[q].op = "none" /\ s4[q].name \in StoreNames \ s6' =>
          s3'[s4[q].name] \in {0, s1'[s4[q].key]}
    BY <1>0, <1>1 DEF Store!CacheKnows, Store!Writes
  <2> QED
    BY <1>1, <1>8, <2>1, CoherentStep
<1>9. Store!RowKnown'
  <2>1. ASSUME ~s5', s2' = <<>>
        PROVE  /\ s2 = <<>> /\ s4'[q].pc # "dec"
               /\ s4[q].pc \in {"quota", "create"} => s4'[q].key = k /\ s4'[q].pc \in {"quota", "create"}
               /\ \A j \in StoreKeys : s1'[j] \notin {0, s1[j]} => s4'[q].key = j /\ s4'[q].pc \in {"quota", "create"}
    BY <1>0, <1>1, <2>1
  <2> QED
    BY <1>1, <1>8, <2>1, RowKnownStep
<1> QED
  BY <1>2, <1>3, <1>4, <1>5, <1>6, <1>7, <1>9 DEF Store!StoreIInv

\* Delete has subtracted from every row.
LEMMA DeleteCounts ==
  ASSUME Store!StoreAssumption, Store!StoreIInv, NEW q \in StoreProcs, s4[q].pc = "dec", Store!Return(q),
         s2' = [i \in DOMAIN s2 |-> s2[i] - s4[q].old],
         UNCHANGED <<s1, s3, s5, s6, s7>>
  PROVE  Store!StoreIInv'
<1> DEFINE k == s4[q].key
<1>0. /\ k \in StoreKeys /\ s4[q].name \in StoreNames /\ k = CleanPath[s4[q].name] /\ s4 \in [StoreProcs -> Store!OpShape] /\ MaxBytes \in Nat
      /\ s1 \in [StoreKeys -> 0..MaxBytes] /\ s3 \in [StoreNames -> 0..MaxBytes] /\ s2 \in Seq(Int)
      /\ s6 \subseteq StoreNames /\ s4[q].val \in 0..MaxBytes /\ s4[q].old \in 0..MaxBytes
      /\ s5 \in BOOLEAN /\ s1[k] \in 0..MaxBytes
      /\ s1' = s1 /\ s3' = s3 /\ s5' = s5 /\ s6' = s6 /\ s7' = s7
      /\ s4[q].op = "Delete"
      /\ Store!CacheKnows(q) /\ Store!OpKnows(q)
  BY OpAt, OpFields DEF Store!Writes, Store!At, Store!StoreIInv, Store!StoreTypeOK, Store!StoreAssumption
<1>1. /\ s4' \in [StoreProcs -> Store!OpShape]
      /\ s4'[q].op = "none" /\ s4'[q].pc = "idle" /\ s4'[q].key = "none" /\ s4'[q].name = "none"
      /\ s4'[q].val = 0 /\ s4'[q].old = 0
      /\ \A r \in StoreProcs \ {q} : s4'[r] = s4[r]
      /\ s2' \in Seq(Int) /\ Len(s2') = Len(s2) /\ (s2 = <<>> <=> s2' = <<>>)
      /\ s2 # <<>> => s2'[1] = s2[1] - s4[q].old
      /\ ~s5 => s2 # <<>>
  <2>1. /\ s4' \in [StoreProcs -> Store!OpShape]
        /\ s4'[q].op = "none" /\ s4'[q].pc = "idle" /\ s4'[q].key = "none" /\ s4'[q].name = "none"
        /\ s4'[q].val = 0 /\ s4'[q].old = 0
        /\ \A r \in StoreProcs \ {q} : s4'[r] = s4[r]
    BY <1>0, OpReturns
  <2>2. s4[q].old \in Int
    BY <1>0
  <2>3. ~s5 => s2 # <<>>
    BY <1>0 DEF Store!StoreIInv, Store!RowKnown
  <2> QED
    BY <1>0, <2>1, <2>2, <2>3, RowsSubtracted
<1>2. Store!StoreTypeOK'
  BY <1>0, <1>1 DEF Store!StoreTypeOK, Store!StoreIInv
<1>3. \A r \in StoreProcs : Store!OpKnows(r)'
  <2>1. Store!OpKnows(q)'
    BY <1>0, <1>1 DEF Store!OpKnows
  <2>2. s2 # <<>> => s2' # <<>>
    BY <1>0, <1>1
  <2> QED
    BY <1>1, <2>1, <2>2, OthersKnow
<1>4. Store!CountedExact' /\ Store!QuotaKnown'
  <2>1. /\ Store!Uncounted(q) = 0 /\ Store!Uncounted(q)' = 0 /\ Store!Overcounted(q) = s4[q].old
        /\ Store!Overcounted(q)' = 0 /\ Store!Adds(q) = 0 /\ Store!Adds(q)' = 0
        /\ Store!Row_ \in Int /\ (~s5' => Store!Row_' = Store!Row_ - s4[q].old)
    BY <1>0, <1>1 DEF Store!Uncounted, Store!Overcounted, Store!Adds, Store!Row_
  <2>2. ASSUME ~s5'
        PROVE  /\ ~s5
               /\ Store!Row_' - Store!Row_ = (s1'[k] - s1[k]) - (Store!Uncounted(q)' - Store!Uncounted(q))
                                               + (Store!Overcounted(q)' - Store!Overcounted(q))
               /\ \/ Store!Row_' + Store!Adds(q)' <= Store!Row_ + Store!Adds(q)
                  \/ Store!Row_' + Store!Adds(q)' <= Quota
    <3>1. ~s5
      BY <1>0, <1>1, <2>2
    <3>2. s1[k] \in Int /\ s1'[k] \in Int
      BY <1>0, <1>1
    <3> QED
      BY <1>0, <1>1, <2>1, <2>2, <3>1, <3>2, SMTT(30)
  <2>3. k \in StoreKeys /\ \A j \in StoreKeys \ {k} : s1'[j] = s1[j]
    BY <1>0, <1>1
  <2> QED
    BY <1>1, <1>2, <2>2, <2>3, CountStep
<1>8. /\ (s4'[q].op = s4[q].op /\ s4'[q].key = s4[q].key /\ s4'[q].name = s4[q].name) \/ s4'[q].op = "none"
      /\ s4'[q].op \in Store!Writes => s4[q].op \in Store!Writes /\ s4'[q].key = s4[q].key
      /\ \A j \in StoreKeys : s1'[j] # s1[j] => s4[q].op \in Store!Writes /\ j = s4[q].key
      /\ \A j \in StoreNames :
           s3'[j] # s3[j] => /\ s4[q].op \in {"Load"} \cup Store!Writes /\ j = s4[q].name
                             /\ s4[q].op = "Load" => s3'[j] = s1[s4[q].key] \/ j \in s6'
      /\ s6 \subseteq s6' /\ (~s5' => ~s5)
  BY <1>0, <1>1 DEF Store!Writes, Store!CacheKnows
<1>5. Store!CountKnown'
  <2>1. ~s5' => Store!OldKnown(q)' /\ Len(s2') <= 1
    BY <1>0, <1>1 DEF Store!CountKnown, Store!OldKnown, Store!StoreIInv
  <2> QED
    BY <1>1, <1>8, <2>1, CountKnownStep
<1>6. \A r \in StoreProcs : Store!CacheKnows(r)'
  <2>1. Store!CacheKnows(q)'
    BY <1>0, <1>1 DEF Store!CacheKnows, Store!OnKey, Store!Writes
  <2> QED
    BY <1>1, <1>8, <2>1, CacheKnowsStep
<1>7. Store!CacheCoherent'
  <2>1. s4[q].op \in Store!Writes /\ s4'[q].op = "none" /\ s4[q].name \in StoreNames \ s6' =>
          s3'[s4[q].name] \in {0, s1'[s4[q].key]}
    BY <1>0, <1>1 DEF Store!CacheKnows, Store!Writes
  <2> QED
    BY <1>1, <1>8, <2>1, CoherentStep
<1>9. Store!RowKnown'
  <2>1. ASSUME ~s5', s2' = <<>>
        PROVE  /\ s2 = <<>> /\ s4'[q].pc # "dec"
               /\ s4[q].pc \in {"quota", "create"} => s4'[q].key = k /\ s4'[q].pc \in {"quota", "create"}
               /\ \A j \in StoreKeys : s1'[j] \notin {0, s1[j]} => s4'[q].key = j /\ s4'[q].pc \in {"quota", "create"}
    BY <1>0, <1>1, <2>1
  <2> QED
    BY <1>1, <1>8, <2>1, RowKnownStep
<1> QED
  BY <1>2, <1>3, <1>4, <1>5, <1>6, <1>7, <1>9 DEF Store!StoreIInv

\* Delete could not subtract: the count has drifted.
LEMMA DeleteCountFails ==
  ASSUME Store!StoreAssumption, Store!StoreIInv, NEW q \in StoreProcs, s4[q].pc = "dec", Store!Return(q), s5' = TRUE,
         UNCHANGED <<s1, s2, s3, s6, s7>>
  PROVE  Store!StoreIInv'
<1> DEFINE k == s4[q].key
<1>0. /\ k \in StoreKeys /\ s4[q].name \in StoreNames /\ k = CleanPath[s4[q].name] /\ s4 \in [StoreProcs -> Store!OpShape] /\ MaxBytes \in Nat
      /\ s1 \in [StoreKeys -> 0..MaxBytes] /\ s3 \in [StoreNames -> 0..MaxBytes] /\ s2 \in Seq(Int)
      /\ s6 \subseteq StoreNames /\ s4[q].val \in 0..MaxBytes /\ s4[q].old \in 0..MaxBytes
      /\ s5 \in BOOLEAN /\ s1[k] \in 0..MaxBytes
      /\ s1' = s1 /\ s2' = s2 /\ s3' = s3 /\ s6' = s6 /\ s7' = s7
      /\ s4[q].op = "Delete"
      /\ Store!CacheKnows(q) /\ Store!OpKnows(q)
  BY OpAt, OpFields DEF Store!Writes, Store!At, Store!StoreIInv, Store!StoreTypeOK, Store!StoreAssumption
<1>1. /\ s4' \in [StoreProcs -> Store!OpShape]
      /\ s4'[q].op = "none" /\ s4'[q].pc = "idle" /\ s4'[q].key = "none" /\ s4'[q].name = "none"
      /\ s4'[q].val = 0 /\ s4'[q].old = 0
      /\ \A r \in StoreProcs \ {q} : s4'[r] = s4[r]
  BY <1>0, OpReturns
<1>2. Store!StoreTypeOK'
  BY <1>0, <1>1 DEF Store!StoreTypeOK, Store!StoreIInv
<1>3. \A r \in StoreProcs : Store!OpKnows(r)'
  <2>1. Store!OpKnows(q)'
    BY <1>0, <1>1 DEF Store!OpKnows
  <2>2. s2 # <<>> => s2' # <<>>
    BY <1>0, <1>1
  <2> QED
    BY <1>1, <2>1, <2>2, OthersKnow
<1>4. Store!CountedExact' /\ Store!QuotaKnown'
  BY <1>0, <1>1, StoreCounts
<1>8. /\ (s4'[q].op = s4[q].op /\ s4'[q].key = s4[q].key /\ s4'[q].name = s4[q].name) \/ s4'[q].op = "none"
      /\ s4'[q].op \in Store!Writes => s4[q].op \in Store!Writes /\ s4'[q].key = s4[q].key
      /\ \A j \in StoreKeys : s1'[j] # s1[j] => s4[q].op \in Store!Writes /\ j = s4[q].key
      /\ \A j \in StoreNames :
           s3'[j] # s3[j] => /\ s4[q].op \in {"Load"} \cup Store!Writes /\ j = s4[q].name
                             /\ s4[q].op = "Load" => s3'[j] = s1[s4[q].key] \/ j \in s6'
      /\ s6 \subseteq s6' /\ (~s5' => ~s5)
  BY <1>0, <1>1 DEF Store!Writes, Store!CacheKnows
<1>5. Store!CountKnown'
  <2>1. ~s5' => Store!OldKnown(q)' /\ Len(s2') <= 1
    BY <1>0, <1>1 DEF Store!CountKnown, Store!OldKnown, Store!StoreIInv
  <2> QED
    BY <1>1, <1>8, <2>1, CountKnownStep
<1>6. \A r \in StoreProcs : Store!CacheKnows(r)'
  <2>1. Store!CacheKnows(q)'
    BY <1>0, <1>1 DEF Store!CacheKnows, Store!OnKey, Store!Writes
  <2> QED
    BY <1>1, <1>8, <2>1, CacheKnowsStep
<1>7. Store!CacheCoherent'
  <2>1. s4[q].op \in Store!Writes /\ s4'[q].op = "none" /\ s4[q].name \in StoreNames \ s6' =>
          s3'[s4[q].name] \in {0, s1'[s4[q].key]}
    BY <1>0, <1>1 DEF Store!CacheKnows, Store!Writes
  <2> QED
    BY <1>1, <1>8, <2>1, CoherentStep
<1>9. Store!RowKnown'
  <2>1. ASSUME ~s5', s2' = <<>>
        PROVE  /\ s2 = <<>> /\ s4'[q].pc # "dec"
               /\ s4[q].pc \in {"quota", "create"} => s4'[q].key = k /\ s4'[q].pc \in {"quota", "create"}
               /\ \A j \in StoreKeys : s1'[j] \notin {0, s1[j]} => s4'[q].key = j /\ s4'[q].pc \in {"quota", "create"}
    BY <1>0, <1>1, <2>1
  <2> QED
    BY <1>1, <1>8, <2>1, RowKnownStep
<1> QED
  BY <1>2, <1>3, <1>4, <1>5, <1>6, <1>7, <1>9 DEF Store!StoreIInv

\* The cache drops an entry.
LEMMA CacheExpiresStep ==
  ASSUME Store!StoreAssumption, Store!StoreIInv, NEW n \in StoreNames, Store!CacheExpires(n)
  PROVE  Store!StoreIInv'
<1>0. /\ s1' = s1 /\ s2' = s2 /\ s4' = s4 /\ s5' = s5 /\ s7' = s7
      /\ s3 \in [StoreNames -> 0..MaxBytes] /\ MaxBytes \in Nat /\ s6 \subseteq StoreNames
  BY DEF Store!CacheExpires, Store!StoreIInv, Store!StoreTypeOK, Store!StoreAssumption
<1>1. /\ s3' \in [StoreNames -> 0..MaxBytes] /\ \A j \in StoreNames : s3'[j] \in {0, s3[j]}
      /\ s3'[n] = 0
  BY <1>0 DEF Store!CacheExpires
<1>2. /\ s6' \subseteq s6 /\ s6 \subseteq s6' \cup {n}
      /\ n \in s6 /\ n \notin s6' => \A r \in StoreProcs : s4[r].key # CleanPath[n]
  BY DEF Store!CacheExpires
<1>3. Store!StoreTypeOK'
  BY <1>0, <1>1, <1>2 DEF Store!StoreTypeOK, Store!StoreIInv
<1>4. \A r \in StoreProcs : Store!OpKnows(r)'
  BY <1>0, OpAt DEF Store!OpKnows
<1>5. ASSUME NEW r \in StoreProcs PROVE Store!CacheKnows(r)'
  <2>1. Store!CacheKnows(r) /\ Store!OpKnows(r)
    BY OpAt
  <2>2. CASE s4[r].pc = "idle"
    <3>1. s4[r].op = "none"
      BY <2>2, OpAt
    <3> QED
      BY <1>0, <2>2, <3>1 DEF Store!CacheKnows, Store!Writes
  <2>3. CASE s4[r].pc # "idle"
    <3>1. s4[r].name \in StoreNames /\ s4[r].key = CleanPath[s4[r].name]
      BY <2>3, OpAt
    <3>2. s4[r].op \in Store!Writes => Store!Aliases(s4[r].name) \subseteq s6'
      BY <1>2, <2>1, <3>1 DEF Store!CacheKnows, Store!Aliases, Store!NamesOf
    <3>3. s4[r].name \notin s6' => s4[r].name \notin s6
      BY <1>2, <3>1
    <3>4. s3'[s4[r].name] \in {0, s3[s4[r].name]}
      BY <1>1, <3>1
    <3>5. Store!OnKey(r, s4[r].key, {"Load"} \cup Store!Writes)' = Store!OnKey(r, s4[r].key, {"Load"} \cup Store!Writes)
      BY <1>0 DEF Store!OnKey
    <3> QED
      BY <1>0, <2>1, <3>1, <3>2, <3>3, <3>4, <3>5 DEF Store!CacheKnows
  <2> QED
    BY <2>2, <2>3
<1>6. Store!CountedExact' /\ Store!QuotaKnown' /\ Store!CountKnown' /\ Store!RowKnown'
  BY <1>0 DEF Store!StoreIInv, Store!CountedExact, Store!QuotaKnown, Store!CountKnown, Store!RowKnown,
    Store!Uncounted, Store!Overcounted, Store!Adds, Store!Row_, Store!OldKnown
<1>7. Store!CacheCoherent'
  <2>1. \A j \in StoreNames \ s6' : j = n \/ j \notin s6
    BY <1>2
  <2> QED
    BY <1>0, <1>1, <2>1 DEF Store!StoreIInv, Store!CacheCoherent
<1> QED
  BY <1>3, <1>4, <1>5, <1>6, <1>7 DEF Store!StoreIInv

\* A request starts: what overlaps on its object, and the object's other keys, are noted.
LEMMA CallStep ==
  ASSUME Store!StoreAssumption, Store!StoreIInv, NEW q \in StoreProcs, NEW n \in StoreNames,
         NEW o \in {"Save", "Load", "Delete", "Exist"}, NEW v \in 0..MaxBytes, Store!Call(q, o, n, v)
  PROVE  Store!StoreIInv'
<1> DEFINE k == CleanPath[n]
<1>0. /\ s4 \in [StoreProcs -> Store!OpShape] /\ MaxBytes \in Nat /\ s4[q].pc = "idle" /\ s4[q].op = "none"
      /\ s1 \in [StoreKeys -> 0..MaxBytes] /\ s3 \in [StoreNames -> 0..MaxBytes] /\ s2 \in Seq(Int)
      /\ s6 \subseteq StoreNames /\ s5 \in BOOLEAN /\ s1[k] \in 0..MaxBytes /\ k \in StoreKeys
      /\ s1' = s1 /\ s2' = s2 /\ s3' = s3 /\ s7 \in 0..MaxStoreOps /\ s7 < MaxStoreOps /\ s7' = s7 + 1
      /\ MaxStoreOps \in Nat
  BY OpAt DEF Store!Call, Store!At, Store!StoreIInv, Store!StoreTypeOK, Store!StoreAssumption
<1>1. /\ s4' \in [StoreProcs -> Store!OpShape]
      /\ s4'[q].op = o /\ s4'[q].pc = o /\ s4'[q].key = k /\ s4'[q].name = n /\ s4'[q].val = v /\ s4'[q].old = 0
      /\ \A r \in StoreProcs \ {q} : s4'[r] = s4[r]
  BY <1>0, OpStarts DEF Store!Call
<1>2. /\ s5' \in BOOLEAN /\ (~s5' => ~s5)
      /\ ~s5' /\ o \in Store!Writes =>
           \A r \in StoreProcs \ {q} : ~(s4[r].key = k /\ s4[r].op \in Store!Writes)
  BY <1>0 DEF Store!Call, Store!OnKey
<1>3. /\ s6' \subseteq StoreNames /\ s6 \subseteq s6'
      /\ o \in Store!Writes => Store!Aliases(n) \subseteq s6'
      /\ \A m \in StoreNames \ s6' : CleanPath[m] = k /\ o \in Store!Writes =>
           \A r \in StoreProcs \ {q} : ~(s4[r].key = k /\ s4[r].op \in {"Load"} \cup Store!Writes)
      /\ \A m \in StoreNames \ s6' : CleanPath[m] = k /\ o = "Load" =>
           \A r \in StoreProcs \ {q} : ~(s4[r].key = k /\ s4[r].op \in Store!Writes)
  BY <1>0 DEF Store!Call, Store!OnKey, Store!Aliases, Store!NamesOf
<1>4. Store!StoreTypeOK'
  BY <1>0, <1>1, <1>2, <1>3 DEF Store!StoreTypeOK
<1>5. \A r \in StoreProcs : Store!OpKnows(r)'
  <2>1. Store!OpKnows(q)'
    BY <1>0, <1>1 DEF Store!OpKnows
  <2> QED
    BY <1>0, <1>1, <2>1, OthersKnow
<1>6. Store!CountedExact' /\ Store!QuotaKnown'
  <2>1. /\ Store!Uncounted(q) = 0 /\ Store!Uncounted(q)' = 0 /\ Store!Overcounted(q) = 0
        /\ Store!Overcounted(q)' = 0 /\ Store!Adds(q) = 0 /\ Store!Adds(q)' = 0
        /\ Store!Row_' = Store!Row_ /\ Store!Row_ \in Int
    BY <1>0, <1>1 DEF Store!Uncounted, Store!Overcounted, Store!Adds, Store!Row_
  <2>2. /\ Store!Row_' - Store!Row_ = (s1'[k] - s1[k]) - (Store!Uncounted(q)' - Store!Uncounted(q))
                                       + (Store!Overcounted(q)' - Store!Overcounted(q))
        /\ Store!Row_' + Store!Adds(q)' <= Store!Row_ + Store!Adds(q)
    BY <1>0, <2>1
  <2>3. ~s5' => ~s5
    BY <1>2
  <2>4. k \in StoreKeys /\ \A j \in StoreKeys \ {k} : s1'[j] = s1[j]
    BY <1>0
  <2> HIDE DEF k
  <2> QED
    BY <1>1, <1>4, <2>2, <2>3, <2>4, CountStep
<1>7. Store!CountKnown'
  <2> SUFFICES ASSUME ~s5' PROVE Store!CountKnown'
    BY DEF Store!CountKnown
  <2>1. ASSUME NEW q1 \in StoreProcs, NEW r1 \in StoreProcs, q1 # r1,
               s4'[q1].op \in Store!Writes, s4'[r1].op \in Store!Writes
        PROVE  s4'[q1].key # s4'[r1].key
    BY <1>0, <1>1, <1>2, <2>1 DEF Store!StoreIInv, Store!CountKnown
  <2>2. ASSUME NEW r \in StoreProcs PROVE Store!OldKnown(r)'
    BY <1>0, <1>1, <1>2 DEF Store!StoreIInv, Store!CountKnown, Store!OldKnown
  <2>3. Len(s2') <= 1
    BY <1>0, <1>2 DEF Store!StoreIInv, Store!CountKnown
  <2> QED
    BY <2>1, <2>2, <2>3 DEF Store!CountKnown
<1>8. Store!RowKnown'
  <2> SUFFICES ASSUME ~s5', s2' = <<>> PROVE Store!RowKnown'
    BY DEF Store!RowKnown
  <2>1. /\ \A r \in StoreProcs : s4[r].pc # "dec"
        /\ \A j \in StoreKeys : s1[j] # 0 =>
             \E r \in StoreProcs : s4[r].key = j /\ s4[r].pc \in {"quota", "create"}
    BY <1>0, <1>2 DEF Store!StoreIInv, Store!RowKnown
  <2>2. \A r \in StoreProcs : s4[r].pc \in {"quota", "create"} => s4'[r] = s4[r]
    BY <1>0, <1>1
  <2>3. \A r \in StoreProcs : s4'[r].pc # "dec"
    BY <1>1, <2>1
  <2> QED
    BY <1>0, <2>1, <2>2, <2>3, SMTT(30) DEF Store!RowKnown
<1>9. ASSUME NEW r \in StoreProcs PROVE Store!CacheKnows(r)'
  <2>1. CASE r = q
    <3> SUFFICES ASSUME n \notin s6'
                 PROVE  /\ o \in {"Save", "Delete"} => s3[n] \in {0, s1[k]}
                        /\ o \in Store!Writes => Store!OnKey(q, k, {"Load"} \cup Store!Writes)' = {}
      BY <2>1, <1>0, <1>1, <1>3 DEF Store!CacheKnows
    <3>1. ASSUME o \in Store!Writes PROVE s3[n] \in {0, s1[k]}
      <4>1. \A r1 \in StoreProcs : ~(s4[r1].key = k /\ s4[r1].op \in Store!Writes)
        BY <1>0, <1>3, <3>1 DEF Store!Writes
      <4> QED
        BY <1>3, <4>1 DEF Store!StoreIInv, Store!CacheCoherent
    <3>2. ASSUME o \in Store!Writes PROVE Store!OnKey(q, k, {"Load"} \cup Store!Writes)' = {}
      BY <1>1, <1>3, <3>2 DEF Store!OnKey
    <3> QED
      BY <3>1, <3>2 DEF Store!Writes
  <2>2. CASE r # q
    <3>1. s4'[r] = s4[r] /\ Store!CacheKnows(r)
      BY <2>2, <1>1, OpAt
    <3>3. s4[r].op \in Store!Writes => s4[r].name \in StoreNames /\ s4[r].key = CleanPath[s4[r].name]
      BY OpAt DEF Store!Writes
    <3>4. s4[r].name \in StoreNames \ s6' /\ s4[r].op \in Store!Writes =>
            ~(s4[r].key = k /\ o \in {"Load"} \cup Store!Writes)
      BY <2>2, <3>3, <1>3 DEF Store!Writes
    <3>2. s4[r].name \in StoreNames \ s6' /\ s4[r].op \in Store!Writes =>
            Store!OnKey(r, s4[r].key, {"Load"} \cup Store!Writes)' = {}
      BY <2>2, <3>1, <3>4, <1>1, <1>3 DEF Store!CacheKnows, Store!OnKey
    <3> QED
      BY <2>2, <3>1, <3>2, <1>0, <1>3 DEF Store!CacheKnows
  <2> QED
    BY <2>1, <2>2
<1>10. Store!CacheCoherent'
  <2> SUFFICES ASSUME NEW m \in StoreNames \ s6',
                      \A r \in StoreProcs : ~(s4'[r].key = CleanPath[m] /\ s4'[r].op \in Store!Writes)
               PROVE  s3[m] \in {0, s1[CleanPath[m]]}
    BY <1>0 DEF Store!CacheCoherent
  <2>1. \A r \in StoreProcs : ~(s4[r].key = CleanPath[m] /\ s4[r].op \in Store!Writes)
    BY <1>0, <1>1 DEF Store!Writes
  <2> QED
    BY <1>3, <2>1 DEF Store!StoreIInv, Store!CacheCoherent
<1> QED
  BY <1>4, <1>5, <1>6, <1>7, <1>8, <1>9, <1>10 DEF Store!StoreIInv

\* A request takes a step.
LEMMA StoreStepKeeps ==
  ASSUME Store!StoreAssumption, Store!StoreIInv, NEW q \in StoreProcs, Store!StoreStep(q)
  PROVE  Store!StoreIInv'
<1>1. CASE Store!SaveOldSize(q)
  BY <1>1, SaveLooks DEF Store!SaveOldSize, Store!At
<1>2. CASE Store!SavePut(q)
  <2>1. s4[q].pc = "put" /\ UNCHANGED <<s2, s3, s5, s6, s7>>
    BY <1>2 DEF Store!SavePut, Store!At
  <2>2. CASE s1' = [s1 EXCEPT ![s4[q].key] = s4[q].val] /\ Store!GoOn(q, "quota")
    BY <2>1, <2>2, SaveStores
  <2>3. CASE UNCHANGED s1 /\ Store!Return(q)
    BY <2>1, <2>3, StoreReturns
  <2> QED
    BY <1>2, <2>2, <2>3 DEF Store!SavePut
<1>3. CASE Store!SaveQuota(q)
  <2>1. s4[q].pc = "quota" /\ UNCHANGED <<s1, s2, s3, s7>>
    BY <1>3 DEF Store!SaveQuota, Store!At
  <2>2. CASE s2 = <<>> /\ Store!Diff(q) <= Quota /\ Store!GoOn(q, "create") /\ UNCHANGED <<s5, s6>>
    BY <2>1, <2>2, SavePasses
  <2>3. CASE /\ \E i \in DOMAIN s2 : Store!Diff(q) + s2[i] <= Quota
             /\ Store!GoOn(q, "inc") /\ UNCHANGED <<s5, s6>>
    BY <2>1, <2>3, SavePasses
  <2>4. CASE Store!Abandon(q)
    BY <2>1, <2>4, SaveAbandons
  <2> QED
    BY <1>3, <2>2, <2>3, <2>4 DEF Store!SaveQuota
<1>4. CASE Store!SaveCount(q)
  <2>1. UNCHANGED <<s1, s3, s7>>
    BY <1>4 DEF Store!SaveCount
  <2>2. CASE /\ Store!At(q, "create") /\ s2' = Append(s2, Store!Diff(q))
             /\ s5' = (s5 \/ s2 # <<>>) /\ Store!GoOn(q, "uncache") /\ UNCHANGED s6
    BY <2>1, <2>2, SaveCreates DEF Store!At
  <2>3. CASE /\ Store!At(q, "inc") /\ s2' = [i \in DOMAIN s2 |-> s2[i] + Store!Diff(q)]
             /\ Store!GoOn(q, "uncache") /\ UNCHANGED <<s5, s6>>
    BY <2>1, <2>3, SaveIncrements DEF Store!At
  <2>4. CASE s4[q].pc \in {"create", "inc"} /\ Store!Abandon(q) /\ UNCHANGED s2
    BY <2>1, <2>4, SaveAbandons
  <2> QED
    BY <1>4, <2>2, <2>3, <2>4 DEF Store!SaveCount, Store!At
<1>5. CASE Store!SaveUncache(q)
  <2>1. s4[q].pc = "uncache" /\ Store!Return(q) /\ UNCHANGED <<s1, s2, s5, s7>>
    BY <1>5 DEF Store!SaveUncache, Store!At
  <2>2. CASE s3' = [s3 EXCEPT ![s4[q].name] = 0] /\ UNCHANGED s6
    BY <2>1, <2>2, SaveUncaches
  <2>3. CASE s6' = s6 \cup {s4[q].name} /\ UNCHANGED s3
    BY <2>1, <2>3, SaveUncacheFails
  <2> QED
    BY <1>5, <2>2, <2>3 DEF Store!SaveUncache
<1>6. CASE Store!LoadCached(q)
  <2>1. s4[q].pc = "Load" /\ UNCHANGED <<s1, s2, s3, s5, s6, s7>>
    BY <1>6 DEF Store!LoadCached, Store!At
  <2>2. Store!GoOn(q, "fetch") \/ Store!Return(q)
    BY <1>6 DEF Store!LoadCached
  <2> QED
    BY <2>1, <2>2, StoreMisses, StoreReturns
<1>7. CASE Store!LoadFetch(q)
  <2>1. s4[q].pc = "fetch" /\ UNCHANGED <<s1, s2, s3, s5, s6, s7>>
    BY <1>7 DEF Store!LoadFetch, Store!At
  <2>2. CASE s4' = [s4 EXCEPT ![q].pc = "fill", ![q].val = s1[s4[q].key]]
    BY <2>1, <2>2, LoadReads
  <2>3. CASE Store!Return(q)
    BY <2>1, <2>3, StoreReturns
  <2> QED
    BY <1>7, <2>2, <2>3 DEF Store!LoadFetch
<1>8. CASE Store!LoadFill(q)
  <2>1. s4[q].pc = "fill" /\ Store!Return(q) /\ UNCHANGED <<s1, s2, s5, s6, s7>>
    BY <1>8 DEF Store!LoadFill, Store!At
  <2>2. CASE s3' = [s3 EXCEPT ![s4[q].name] = s4[q].val]
    BY <2>1, <2>2, LoadFills
  <2>3. CASE UNCHANGED s3
    BY <2>1, <2>3, StoreReturns
  <2> QED
    BY <1>8, <2>2, <2>3 DEF Store!LoadFill
<1>9. CASE Store!DeleteCached(q)
  <2>1. s4[q].pc = "Delete" /\ UNCHANGED <<s1, s2, s5, s6, s7>>
    BY <1>9 DEF Store!DeleteCached, Store!At
  <2>2. CASE s3' = [s3 EXCEPT ![s4[q].name] = 0] /\ Store!GoOn(q, "size")
    BY <2>1, <2>2, DeleteUncaches
  <2>3. CASE UNCHANGED s3 /\ Store!Return(q)
    BY <2>1, <2>3, StoreReturns
  <2> QED
    BY <1>9, <2>2, <2>3 DEF Store!DeleteCached
<1>10. CASE Store!DeleteSize(q)
  <2>1. s4[q].pc = "size" /\ UNCHANGED <<s1, s2, s3, s5, s6, s7>>
    BY <1>10 DEF Store!DeleteSize, Store!At
  <2>2. CASE /\ s1[s4[q].key] # 0
             /\ s4' = [s4 EXCEPT ![q].pc = "remove", ![q].old = s1[s4[q].key]]
    BY <2>1, <2>2, DeleteReads
  <2>3. CASE Store!Return(q)
    BY <2>1, <2>3, StoreReturns
  <2> QED
    BY <1>10, <2>2, <2>3 DEF Store!DeleteSize
<1>11. CASE Store!DeleteObject(q)
  <2>1. s4[q].pc = "remove" /\ UNCHANGED <<s2, s3, s5, s6, s7>>
    BY <1>11 DEF Store!DeleteObject, Store!At
  <2>2. CASE s1' = [s1 EXCEPT ![s4[q].key] = 0] /\ Store!GoOn(q, "dec")
    BY <2>1, <2>2, DeleteRemoves
  <2>3. CASE UNCHANGED s1 /\ Store!Return(q)
    BY <2>1, <2>3, StoreReturns
  <2> QED
    BY <1>11, <2>2, <2>3 DEF Store!DeleteObject
<1>12. CASE Store!DeleteCount(q)
  <2>1. s4[q].pc = "dec" /\ Store!Return(q) /\ UNCHANGED <<s1, s3, s6, s7>>
    BY <1>12 DEF Store!DeleteCount, Store!At
  <2>2. CASE s2' = [i \in DOMAIN s2 |-> s2[i] - s4[q].old] /\ UNCHANGED s5
    BY <2>1, <2>2, DeleteCounts
  <2>3. CASE s5' = TRUE /\ UNCHANGED s2
    BY <2>1, <2>3, DeleteCountFails
  <2> QED
    BY <1>12, <2>2, <2>3 DEF Store!DeleteCount
<1>13. CASE Store!ExistReads(q)
  <2>1. UNCHANGED <<s1, s2, s3, s5, s6, s7>>
    BY <1>13 DEF Store!ExistReads
  <2>2. \/ s4[q].pc = "Exist" /\ Store!GoOn(q, "stat")
        \/ s4[q].pc \in {"Exist", "stat"} /\ Store!Return(q)
    BY <1>13 DEF Store!ExistReads, Store!At
  <2> QED
    BY <2>1, <2>2, StoreMisses, StoreReturns
<1> QED
  BY <1>1, <1>2, <1>3, <1>4, <1>5, <1>6, <1>7, <1>8, <1>9, <1>10, <1>11, <1>12, <1>13 DEF Store!StoreStep

\* At first nothing is stored, cached or counted.
LEMMA StoreInitial ==
  ASSUME Store!StoreAssumption, Store!StoreInit
  PROVE  Store!StoreIInv
<1>0. /\ s1 = [k \in StoreKeys |-> 0] /\ s3 = [n \in StoreNames |-> 0] /\ s2 = <<>> /\ s5 = FALSE /\ s6 = {} /\ s7 = 0
      /\ s4 = [q \in StoreProcs |-> Store!Idle] /\ MaxBytes \in Nat /\ MaxStoreOps \in Nat /\ Quota \in Nat
  BY DEF Store!StoreInit, Store!StoreAssumption
<1>1. /\ Store!Idle \in Store!OpShape
      /\ \A q \in StoreProcs : s4[q].pc = "idle" /\ s4[q].op = "none" /\ s4[q].key = "none"
      /\ CleanPath \in [StoreNames -> StoreKeys]
  BY <1>0 DEF Store!StoreAssumption, Store!Idle, Store!OpShape, Store!StorePCs
<1>2. Store!StoreTypeOK
  <2>1. s1 \in [StoreKeys -> 0..MaxBytes] /\ s3 \in [StoreNames -> 0..MaxBytes]
    BY <1>0
  <2>2. s4 \in [StoreProcs -> Store!OpShape]
    BY <1>0, <1>1
  <2>5. s6 \subseteq StoreNames
    BY <1>0
  <2>3. s2 \in Seq(Int) /\ s7 \in 0..MaxStoreOps
    BY <1>0
  <2>4. s5 \in BOOLEAN
    BY <1>0, Zenon
  <2> QED
    BY <2>1, <2>2, <2>3, <2>4, <2>5 DEF Store!StoreTypeOK
<1>3. \A q \in StoreProcs : Store!OpKnows(q) /\ Store!CacheKnows(q)
  BY <1>0, <1>1 DEF Store!OpKnows, Store!CacheKnows, Store!Writes
<1>4. Store!CountKnown /\ Store!RowKnown
  <2>1. \A q \in StoreProcs : Store!OldKnown(q) /\ s4[q].op \notin Store!Writes /\ s4[q].pc # "dec"
    BY <1>1 DEF Store!OldKnown, Store!Writes
  <2>2. Len(s2) <= 1
    BY <1>0
  <2>3. \A k \in StoreKeys : s1[k] = 0
    BY <1>0
  <2>4. Store!CountKnown
    BY <2>1, <2>2 DEF Store!CountKnown
  <2>5. Store!RowKnown
    BY <2>1, <2>3 DEF Store!RowKnown
  <2> QED
    BY <2>4, <2>5
<1>5. Store!CacheCoherent
  BY <1>0, <1>1 DEF Store!CacheCoherent
<1>6. InStore = 0 /\ NotYet = 0 /\ Still = 0 /\ Coming = 0 /\ Store!Row_ = 0
  <2>1. \A q \in StoreProcs : Store!Uncounted(q) = 0 /\ Store!Overcounted(q) = 0 /\ Store!Adds(q) = 0
    BY <1>1 DEF Store!Uncounted, Store!Overcounted, Store!Adds
  <2>2. InStore = 0
    BY <1>0, BytesNone DEF InStore
  <2>3. NotYet = 0 /\ Still = 0 /\ Coming = 0
    BY <1>0, <2>1, BytesNone DEF NotYet, Still, Coming
  <2> QED
    BY <1>0, <2>2, <2>3 DEF Store!Row_
<1>7. Store!CountedExact
  BY <1>6, StoreCounts
<1>8. Store!QuotaKnown
  <2>1. ASSUME StoreProcs # {} PROVE Slack \in Nat
    <3>1. PICK q \in StoreProcs : TRUE
      BY <2>1
    <3>2. IsFiniteSet(StoreProcs) /\ [r \in StoreProcs |-> 0] \in [StoreProcs -> 0..MaxBytes]
      BY <1>0, StoreFiniteSets DEF Store!StoreAssumption
    <3> QED
      BY <1>0, <3>1, <3>2, BytesCount, ZenonT(30) DEF Slack
  <2> QED
    BY <1>0, <1>6, <2>1, StoreCounts
<1> QED
  BY <1>2, <1>3, <1>4, <1>5, <1>7, <1>8 DEF Store!StoreIInv

\* A step that leaves the unit's variables alone.
LEMMA StoreStutter ==
  ASSUME Store!StoreAssumption, Store!StoreIInv, UNCHANGED <<s1, s2, s3, s4, s5, s6, s7>>
  PROVE  Store!StoreIInv'
<1>0. s1' = s1 /\ s2' = s2 /\ s3' = s3 /\ s4' = s4 /\ s5' = s5 /\ s6' = s6 /\ s7' = s7
  OBVIOUS
<1>1. Store!StoreTypeOK'
  BY <1>0 DEF Store!StoreIInv, Store!StoreTypeOK
<1>2. \A r \in StoreProcs : Store!OpKnows(r)' /\ Store!CacheKnows(r)'
  BY <1>0, OpAt, ZenonT(60) DEF Store!OpKnows, Store!CacheKnows, Store!OnKey
<1>3. Store!CountedExact' /\ Store!QuotaKnown' /\ Store!CountKnown' /\ Store!RowKnown'
  BY <1>0 DEF Store!StoreIInv, Store!CountedExact, Store!QuotaKnown, Store!CountKnown, Store!RowKnown,
    Store!Uncounted, Store!Overcounted, Store!Adds, Store!Row_, Store!OldKnown
<1>4. Store!CacheCoherent'
  BY <1>0 DEF Store!StoreIInv, Store!CacheCoherent
<1> QED
  BY <1>1, <1>2, <1>3, <1>4 DEF Store!StoreIInv

\* The inductive invariant gives the bound on the count.
LEMMA StoreQuota ==
  ASSUME Store!StoreAssumption, Store!StoreIInv
  PROVE  Store!QuotaOvershoot
<1> SUFFICES ASSUME ~s5, s2 # <<>> PROVE s2[1] <= Quota + (Store!Cardinality(StoreProcs) - 1) * MaxBytes
  BY DEF Store!QuotaOvershoot
<1>1. StoreProcs # {} /\ s2[1] + Coming <= Quota + Slack
  BY StoreCounts DEF Store!StoreIInv, Store!Row_
<1>2. PICK q \in StoreProcs : TRUE
  BY <1>1
<1>3. MaxBytes \in Nat /\ IsFiniteSet(StoreProcs) /\ Quota \in Nat
  BY StoreFiniteSets DEF Store!StoreAssumption
<1>4. [r \in StoreProcs |-> Store!Adds(r)] \in [StoreProcs -> 0..MaxBytes]
  BY StoreSizes DEF Store!StoreIInv
<1>5. Coming \in Nat
  BY <1>2, <1>3, <1>4, BytesCount, ZenonT(30) DEF Coming
<1>6. Slack \in Nat
  BY <1>2, <1>3, <1>4, BytesCount, ZenonT(30) DEF Slack
<1>7. s2[1] \in Int
  BY DEF Store!StoreIInv, Store!StoreTypeOK
<1>8. Slack = (Store!Cardinality(StoreProcs) - 1) * MaxBytes
  BY StoreFiniteSets, Zenon DEF Slack
<1> QED
  BY <1>1, <1>3, <1>5, <1>6, <1>7, <1>8

\* The tenant's row counts exactly the bytes in the store, up to what the requests under
\* way have stored or removed and not yet counted, unless a race or failure named in the
\* model spoiled it; it passes the quota by no more than the other requests may add after
\* their check; and a cached object is the stored one, unless a race, a failure or a write
\* under another key of the same path left it behind, and then until its entry expires
\* (persistence.go, Save, Load, Delete; wrapper.go, getFilePath).
THEOREM StorageStaysAccounted == ServicesSpec => []StorageIsAccounted
<1> DEFINE Inv == unit = "store" => Store!StoreIInv
<1>0. Store!StoreAssumption
  BY ServicesAssumption
<1>1. ServicesInit => Inv
  BY <1>0, StoreInitial DEF ServicesInit
<1>2. Inv /\ [ServicesNext]_servicesVars => Inv'
  <2> SUFFICES ASSUME Inv, [ServicesNext]_servicesVars, unit' = "store"
               PROVE  Store!StoreIInv'
    OBVIOUS
  <2>1. unit = "store"
    BY DEF ServicesNext, servicesVars
  <2>2. CASE Store!StoreNext
    <3>1. ASSUME NEW q \in StoreProcs, NEW n \in StoreNames, NEW v \in 1..MaxBytes, Store!Call(q, "Save", n, v)
          PROVE  Store!StoreIInv'
      BY <1>0, <2>1, <3>1, CallStep DEF Store!StoreAssumption
    <3>2. ASSUME NEW q \in StoreProcs, NEW n \in StoreNames, NEW o \in {"Load", "Delete", "Exist"},
                 Store!Call(q, o, n, 0)
          PROVE  Store!StoreIInv'
      <4>1. 0 \in 0..MaxBytes
        BY <1>0 DEF Store!StoreAssumption
      <4> QED
        BY <1>0, <2>1, <3>2, <4>1, CallStep
    <3>3. ASSUME NEW q \in StoreProcs, Store!StoreStep(q) PROVE Store!StoreIInv'
      BY <1>0, <2>1, <3>3, StoreStepKeeps
    <3>4. ASSUME NEW n \in StoreNames, Store!CacheExpires(n) PROVE Store!StoreIInv'
      BY <1>0, <2>1, <3>4, CacheExpiresStep
    <3> QED
      BY <2>2, <3>1, <3>2, <3>3, <3>4 DEF Store!StoreNext
  <2>3. CASE UNCHANGED <<s1, s2, s3, s4, s5, s6, s7>>
    <3>1. Store!StoreIInv
      BY <2>1
    <3> QED
      BY <1>0, <2>3, <3>1, StoreStutter
  <2> QED
    BY <2>1, <2>2, <2>3 DEF ServicesNext, servicesVars, unitVars
<1>3. Inv => StorageIsAccounted
  BY <1>0, StoreQuota DEF StorageIsAccounted, Store!StoreIInv
<1> QED
  BY <1>1, <1>2, <1>3, PTL DEF ServicesSpec
=============================================================================
