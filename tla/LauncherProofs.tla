---------------------------- MODULE LauncherProofs ----------------------------
(***************************************************************************)
(* Proofs about Launcher, for any numbers of tenants, versions, runtimes   *)
(* and tokens.                                                             *)
(***************************************************************************)
EXTENDS Launcher, FiniteSetTheorems, TLAPS

\* How the parts of a runtime go together.  A runtime is stopped only after its first
\* notice: before that nobody but its loop knows it.
Shape ==
  \A r \in Runtimes :
    /\ phase[r] = "none" <=> of[r] = None
    /\ phase[r] = "none" <=> first[r] = "none"
    /\ first[r] = "open" => phase[r] = "running"
    /\ r \in toStop \cup killing => first[r] \in {"stored", "ok", "err"}

\* Where the threads are when they need a version, a runtime or a retry.
Jobs ==
  /\ \A c \in Tenants :
       /\ pc[c] \in {"disable", "publish", "lock", "sem", "build", "wait", "stop"}
            => req[c].new \in Versions
       /\ pc[c] \in {"remove", "shutdown", "await"} => req[c].old \in Versions
  /\ \A v \in Versions :
       /\ pc[v] \in {"idle", "lock", "sem", "build", "wait"}
       /\ pc[v] # "idle" => fails[v] < MaxRetry /\ v \notin todo /\ dog = "round"
  /\ \A t \in Threads :
       pc[t] \in {"wait", "stop", "await"} => mine[t] # None /\ phase[mine[t]] # "none"

\* A version that is being launched is not in the map.
Unlisted ==
  /\ \A r \in Runtimes : first[r] = "open" => listed[of[r]] = None
  /\ \A t \in Threads : pc[t] \in {"sem", "build"} => listed[Target(t)] = None

IInv ==
  /\ TypeOK /\ Shape /\ Jobs
  /\ SemaphoreExact /\ Unlisted /\ RoutedIsScheduled /\ OneListed

------------------------------------------------------------------------------
\* A launching thread has a version, and so does a runtime that starts.
LEMMA HasTarget ==
  ASSUME TypeOK, Jobs, NEW t \in Threads, pc[t] \in {"lock", "sem", "build", "wait"}
  PROVE  Target(t) \in Versions
BY DEF Jobs, Target, Threads

\* StartRuntime names the object it takes.
LEMMA NewRuntime ==
  ASSUME NEW t \in Threads, StartRuntime(t)
  PROVE  \E r \in Runtimes :
           /\ phase[r] = "none" /\ pc[t] = "build"
           /\ of' = [of EXCEPT ![r] = Target(t)]
           /\ phase' = [phase EXCEPT ![r] = "running"]
           /\ first' = [first EXCEPT ![r] = "open"]
           /\ mutex' = [mutex EXCEPT ![Target(t)] = r]
           /\ mine' = [mine EXCEPT ![t] = r]
           /\ Goto(t, "wait")
           /\ UNCHANGED <<tenantVars, sem, live, toStop, killing, failures, dogVars,
                          listed, sweep, struck>>
<1> DEFINE r == CHOOSE x \in Runtimes : phase[x] = "none"
<1>1. r \in Runtimes /\ phase[r] = "none"
  BY DEF StartRuntime
<1> QED
  BY <1>1 DEF StartRuntime

\* The launches that have a token can be counted.
LEMMA TokensFinite ==
  /\ IsFiniteSet(Building) /\ Cardinality(Building) \in Nat
  /\ IsFiniteSet(Starting) /\ Cardinality(Starting) \in Nat
<1>1. IsFiniteSet(Building)
  BY LauncherAssumption, FS_Subset DEF Building
<1>2. IsFiniteSet(Starting)
  BY LauncherAssumption, FS_Subset DEF Starting
<1> QED
  BY <1>1, <1>2, FS_CardinalityType

\* Who is to give a token back has one.
LEMMA TokenThere ==
  ASSUME TypeOK, SemaphoreExact, Building # {} \/ Starting # {}
  PROVE  sem \in 1..Concurrent
<1>1. Cardinality(Building) # 0 \/ Cardinality(Starting) # 0
  BY TokensFinite, FS_EmptySet
<1> QED
  BY <1>1, TokensFinite DEF SemaphoreExact, TypeOK

\* A job that ends, or goes on as it is.
LEMMA JobTyped ==
  ASSUME TypeOK, NEW c \in Tenants,
         End(c) \/ (UNCHANGED req /\ \E l \in PCs : Goto(c, l))
  PROVE  /\ pc' \in [Threads -> PCs]
         /\ req' \in [Tenants -> [old : Versions \cup {None}, new : Versions \cup {None}]]
<1> USE DEF TypeOK, Goto, Threads
<1>1. CASE End(c)
  BY <1>1 DEF End, NoVersions, PCs
<1>2. CASE UNCHANGED req /\ \E l \in PCs : Goto(c, l)
  BY <1>2
<1> QED
  BY <1>1, <1>2

\* Every step keeps the types; a token that is released had been taken.
LEMMA TypeStep == IInv /\ [Next]_vars => TypeOK'
<1> SUFFICES ASSUME IInv, [Next]_vars PROVE TypeOK'
  OBVIOUS
<1> USE LauncherAssumption
    DEF IInv, TypeOK, Goto, Threads, PCs, tenantVars, launchVars, runtimeVars, dogVars
<1>1. CASE UNCHANGED vars
  BY <1>1 DEF vars
<1>2. ASSUME NEW c \in Tenants, NEW old \in Versions \cup {None},
             NEW new \in Versions \cup {None}, Request(c, old, new)
      PROVE  TypeOK'
  BY <1>2 DEF Request
<1>3. ASSUME NEW c \in Tenants, Disable(c) PROVE TypeOK'
  BY <1>3 DEF Disable, Jobs
<1>4. ASSUME NEW c \in Tenants, Publish(c) PROVE TypeOK'
  <2>1. req[c].new \in Versions
    BY <1>4 DEF Publish, Jobs
  <2>2. /\ UNCHANGED <<has, requests, launchVars, runtimeVars, dogVars, listed, mine,
                       sweep, struck>>
        /\ bucket' \in SUBSET Versions /\ ignored' \in SUBSET Versions
    BY <1>4, <2>1 DEF Publish
  <2>3. (Goto(c, "lock") /\ UNCHANGED req) \/ End(c)
    BY <1>4 DEF Publish
  <2> QED
    BY <2>2, <2>3, JobTyped
<1>5. ASSUME NEW c \in Tenants, Answered(c) PROVE TypeOK'
  <2>1. mine[c] \in Runtimes
    BY <1>5 DEF Answered, Jobs
  <2>2. /\ UNCHANGED <<has, bucket, req, requests, launchVars, of, live, first, toStop,
                       failures, dogVars, listed, sweep, struck>>
        /\ Goto(c, "save") \/ Goto(c, "stop")
        /\ mine' \in {mine, [mine EXCEPT ![c] = None]}
    BY <1>5 DEF Answered
  <2>3. ignored' \in SUBSET Versions
    BY <1>5 DEF Answered
  <2>4. UNCHANGED <<phase, killing>> \/ StopSchedule(mine[c])
    BY <1>5 DEF Answered
  <2>5. /\ phase' \in [Runtimes -> {"none", "running", "stopped", "halted"}]
        /\ killing' \in SUBSET Runtimes
    BY <2>1, <2>4 DEF StopSchedule
  <2> QED
    BY <2>2, <2>3, <2>5, JobTyped
<1>6. ASSUME NEW c \in Tenants, GiveUp(c) PROVE TypeOK'
  BY <1>6 DEF GiveUp, End, NoVersions
<1>7. ASSUME NEW c \in Tenants, Save(c) PROVE TypeOK'
  <2>1. /\ UNCHANGED <<bucket, ignored, requests, launchVars, runtimeVars, dogVars,
                       listed, mine, sweep, struck>>
        /\ has' = [has EXCEPT ![c] = req[c].new]
    BY <1>7 DEF Save
  <2>2. (Goto(c, "remove") /\ UNCHANGED req) \/ End(c)
    BY <1>7 DEF Save
  <2> QED
    BY <2>1, <2>2, JobTyped
<1>8. ASSUME NEW c \in Tenants, JobFails(c) PROVE TypeOK'
  BY <1>8 DEF JobFails, End, NoVersions
<1>9. ASSUME NEW c \in Tenants, Remove(c) PROVE TypeOK'
  BY <1>9 DEF Remove
<1>10. ASSUME NEW c \in Tenants, Shutdown(c) PROVE TypeOK'
  <2>1. req[c].old \in Versions /\ listed[req[c].old] \in Runtimes \cup {None}
    BY <1>10 DEF Shutdown, Jobs
  <2>2. /\ UNCHANGED <<has, bucket, ignored, requests, launchVars, of, phase, live, first,
                       killing, failures, dogVars, listed, sweep, struck>>
        /\ toStop' \in SUBSET Runtimes
    BY <1>10, <2>1 DEF Shutdown, ShutdownGracefully
  <2>3. \/ End(c) /\ UNCHANGED mine
        \/ /\ Goto(c, "await") /\ UNCHANGED req
           /\ mine' = [mine EXCEPT ![c] = listed[req[c].old]]
    BY <1>10 DEF Shutdown
  <2>4. mine' \in [Threads -> Runtimes \cup {None}]
    BY <2>1, <2>3
  <2> QED
    BY <2>2, <2>3, <2>4, JobTyped
<1>11. ASSUME NEW c \in Tenants, AwaitShutdown(c) PROVE TypeOK'
  BY <1>11 DEF AwaitShutdown, End, NoVersions
<1>12. ASSUME NEW t \in Threads, LockAndCheck(t) PROVE TypeOK'
  <2>1. Target(t) \in Versions
    BY <1>12, HasTarget DEF LockAndCheck
  <2> QED
    BY <1>12, <2>1 DEF LockAndCheck, ReturnEarly, End, NoVersions
<1>13. ASSUME NEW t \in Threads, AcquireSemaphore(t) PROVE TypeOK'
  <2>1. Target(t) \in Versions
    BY <1>13, HasTarget DEF AcquireSemaphore
  <2> QED
    BY <1>13, <2>1 DEF AcquireSemaphore
<1>14. ASSUME NEW t \in Threads, BuildFails(t) PROVE TypeOK'
  <2>1. Target(t) \in Versions
    BY <1>14, HasTarget DEF BuildFails
  <2>2. sem \in 1..Concurrent
    BY <1>14, TokenThere DEF BuildFails, Building
  <2>3. /\ UNCHANGED <<has, bucket, requests, runtimeVars, dogVars, listed, mine,
                       sweep, struck>>
        /\ Release(Target(t))
    BY <1>14 DEF BuildFails, ReturnEarly
  <2>4. CASE t \in Tenants
    <3>1. ignored' \in SUBSET Versions /\ End(t)
      BY <1>14, <2>4 DEF BuildFails, ReturnEarly
    <3> QED
      BY <2>1, <2>2, <2>3, <2>4, <3>1, JobTyped DEF Release
  <2>5. CASE t \notin Tenants
    BY <1>14, <2>1, <2>2, <2>3, <2>5 DEF BuildFails, ReturnEarly, Release
  <2> QED
    BY <2>4, <2>5
<1>15. ASSUME NEW t \in Threads, StartRuntime(t) PROVE TypeOK'
  <2>1. Target(t) \in Versions
    BY <1>15, HasTarget DEF StartRuntime
  <2>2. PICK r \in Runtimes : 
             /\ of' = [of EXCEPT ![r] = Target(t)]
             /\ phase' = [phase EXCEPT ![r] = "running"]
             /\ first' = [first EXCEPT ![r] = "open"]
             /\ mutex' = [mutex EXCEPT ![Target(t)] = r]
             /\ mine' = [mine EXCEPT ![t] = r]
             /\ Goto(t, "wait")
             /\ UNCHANGED <<tenantVars, sem, live, toStop, killing, failures, dogVars,
                            listed, sweep, struck>>
    BY <1>15, NewRuntime
  <2> QED
    BY <2>1, <2>2
<1>16. ASSUME NEW r \in Runtimes, Ready(r) PROVE TypeOK'
  BY <1>16 DEF Ready, Shape
<1>17. ASSUME NEW r \in Runtimes, ReportReady(r) PROVE TypeOK'
  <2>1. sem \in 1..Concurrent
    BY <1>17, TokenThere DEF ReportReady, Starting
  <2> QED
    BY <1>17, <2>1 DEF ReportReady, Release, Shape
<1>18. ASSUME NEW r \in Runtimes, LaunchFails(r) PROVE TypeOK'
  <2>1. sem \in 1..Concurrent
    BY <1>18, TokenThere DEF LaunchFails, Starting
  <2> QED
    BY <1>18, <2>1 DEF LaunchFails, Release, Shape
<1>19. ASSUME NEW r \in Runtimes, Die(r) PROVE TypeOK'
  BY <1>19 DEF Die
<1>20. ASSUME NEW r \in Runtimes, GracefulStop(r) PROVE TypeOK'
  BY <1>20 DEF GracefulStop, StopSchedule
<1>21. ASSUME NEW r \in Runtimes, StopReturns(r) PROVE TypeOK'
  BY <1>21 DEF StopReturns
<1>22. ASSUME NEW r \in Runtimes, Halt(r) PROVE TypeOK'
  BY <1>22 DEF Halt, Shape
<1>23. ASSUME NEW r \in Runtimes, Close(r) PROVE TypeOK'
  BY <1>23 DEF Close
<1>24. CASE ListInstalled
  BY <1>24 DEF ListInstalled
<1>25. CASE RoundEnds
  BY <1>25 DEF RoundEnds
<1>26. CASE SweepShutdown
  BY <1>26 DEF SweepShutdown, ShutdownGracefully
<1>27. ASSUME NEW v \in Versions, Visit(v) PROVE TypeOK'
  BY <1>27 DEF Visit
<1>28. ASSUME NEW v \in Versions, Record(v) PROVE TypeOK'
  BY <1>28 DEF Record, Jobs
<1>29. ASSUME NEW v \in Versions, SweepCheck(v) PROVE TypeOK'
  BY <1>29 DEF SweepCheck
<1> QED
  BY <1>1, <1>2, <1>3, <1>4, <1>5, <1>6, <1>7, <1>8, <1>9, <1>10, <1>11, <1>12,
     <1>13, <1>14, <1>15, <1>16, <1>17, <1>18, <1>19, <1>20, <1>21, <1>22, <1>23, <1>24,
     <1>25, <1>26, <1>27, <1>28, <1>29
     DEF Next, Job, Launch, WatchDog, Sweeper

------------------------------------------------------------------------------
\* Only the loop of a runtime, and what stops it, changes Shape's variables.
LEMMA ShapeStep == IInv /\ [Next]_vars => Shape'
<1> SUFFICES ASSUME IInv, [Next]_vars PROVE Shape'
  OBVIOUS
<1> DEFINE same == UNCHANGED <<of, phase, first, toStop, killing>>
<1> USE LauncherAssumption DEF IInv, TypeOK, Shape, runtimeVars
<1>1. CASE same
  BY <1>1
<1>2. CASE UNCHANGED vars
  BY <1>1, <1>2 DEF vars
<1>3. ASSUME NEW c \in Tenants, NEW old \in Versions \cup {None},
             NEW new \in Versions \cup {None}, Request(c, old, new)
      PROVE  Shape'
  BY <1>1, <1>3 DEF Request
<1>4. ASSUME NEW c \in Tenants,
             \/ Disable(c) \/ Publish(c) \/ GiveUp(c) \/ Save(c) \/ JobFails(c)
             \/ Remove(c) \/ AwaitShutdown(c)
      PROVE  Shape'
  <2>1. same
    BY <1>4 DEF Disable, Publish, GiveUp, Save, JobFails, Remove, AwaitShutdown
  <2> QED
    BY <1>1, <2>1
<1>5. ASSUME NEW c \in Tenants, Answered(c) PROVE Shape'
  <2>1. CASE UNCHANGED <<phase, killing>>
    BY <1>1, <1>5, <2>1 DEF Answered
  <2>2. CASE first[mine[c]] = "err" /\ StopSchedule(mine[c])
    <3>1. mine[c] \in Runtimes
      BY <1>5 DEF Answered, Jobs, Threads
    <3>2. UNCHANGED <<of, first, toStop>>
      BY <1>5 DEF Answered
    <3> QED
      BY <2>2, <3>1, <3>2 DEF StopSchedule
  <2> QED
    BY <1>5, <2>1, <2>2 DEF Answered
<1>6. ASSUME NEW c \in Tenants, Shutdown(c) PROVE Shape'
  <2>1. /\ req[c].old \in Versions
        /\ UNCHANGED <<of, phase, first, killing>>
        /\ ShutdownGracefully(req[c].old)
    BY <1>6 DEF Shutdown, Jobs
  <2> QED
    BY <2>1 DEF ShutdownGracefully, RoutedIsScheduled
<1>7. ASSUME NEW t \in Threads, LockAndCheck(t) \/ AcquireSemaphore(t) \/ BuildFails(t)
      PROVE  Shape'
  <2>1. same
    BY <1>7 DEF LockAndCheck, AcquireSemaphore, BuildFails
  <2> QED
    BY <1>1, <2>1
<1>8. ASSUME NEW t \in Threads, StartRuntime(t) PROVE Shape'
  <2>1. Target(t) \in Versions
    BY <1>8, HasTarget DEF StartRuntime
  <2>2. PICK r \in Runtimes :
          /\ phase[r] = "none"
          /\ of' = [of EXCEPT ![r] = Target(t)]
          /\ phase' = [phase EXCEPT ![r] = "running"]
          /\ first' = [first EXCEPT ![r] = "open"]
          /\ UNCHANGED <<toStop, killing>>
    BY <1>8, NewRuntime
  <2> QED
    BY <2>1, <2>2 DEF Threads
<1>9. ASSUME NEW r \in Runtimes, Ready(r) PROVE Shape'
  BY <1>9 DEF Ready
<1>10. ASSUME NEW r \in Runtimes, ReportReady(r) PROVE Shape'
  BY <1>10 DEF ReportReady
<1>11. ASSUME NEW r \in Runtimes, LaunchFails(r) PROVE Shape'
  BY <1>11 DEF LaunchFails
<1>12. ASSUME NEW r \in Runtimes, Die(r) PROVE Shape'
  BY <1>1, <1>12 DEF Die
<1>13. ASSUME NEW r \in Runtimes, GracefulStop(r) PROVE Shape'
  BY <1>13 DEF GracefulStop, StopSchedule
<1>14. ASSUME NEW r \in Runtimes, StopReturns(r) PROVE Shape'
  BY <1>14 DEF StopReturns
<1>15. ASSUME NEW r \in Runtimes, Halt(r) PROVE Shape'
  BY <1>15 DEF Halt
<1>16. ASSUME NEW r \in Runtimes, Close(r) PROVE Shape'
  BY <1>16 DEF Close
<1>17. CASE WatchDog
  BY <1>1, <1>17 DEF WatchDog, ListInstalled, Visit, Record, RoundEnds
<1>18. ASSUME NEW v \in Versions, SweepCheck(v) PROVE Shape'
  BY <1>1, <1>18 DEF SweepCheck
<1>19. CASE SweepShutdown
  BY <1>19 DEF SweepShutdown, ShutdownGracefully, RoutedIsScheduled
<1> QED
  BY <1>2, <1>3, <1>4, <1>5, <1>6, <1>7, <1>8, <1>9, <1>10, <1>11, <1>12, <1>13,
     <1>14, <1>15, <1>16, <1>17, <1>18, <1>19 DEF Next, Job, Launch, Sweeper

------------------------------------------------------------------------------
\* The job of a tenant moves its own program counter only: what is left is to see
\* that the versions and the runtime it needs there are known.
LEMMA JobsStep == IInv /\ [Next]_vars => Jobs'
<1> SUFFICES ASSUME IInv, [Next]_vars PROVE Jobs'
  OBVIOUS
<1> DEFINE same == UNCHANGED <<pc, req, fails, mine, phase, todo, dog>>
<1> USE LauncherAssumption
    DEF IInv, TypeOK, Jobs, Threads, Goto, tenantVars, runtimeVars, dogVars
<1>1. CASE same
  BY <1>1
<1>2. CASE UNCHANGED vars
  BY <1>1, <1>2 DEF vars
<1>3. ASSUME NEW c \in Tenants, NEW old \in Versions \cup {None},
             NEW new \in Versions \cup {None}, Request(c, old, new)
      PROVE  Jobs'
  BY <1>3 DEF Request
<1>4. ASSUME NEW c \in Tenants, End(c), UNCHANGED <<fails, phase, todo, dog>>,
             mine' \in {mine, [mine EXCEPT ![c] = None]}
      PROVE  Jobs'
  BY <1>4 DEF End
<1>5. ASSUME NEW c \in Tenants, Disable(c) PROVE Jobs'
  BY <1>5 DEF Disable
<1>6. ASSUME NEW c \in Tenants, Publish(c) PROVE Jobs'
  <2>1. UNCHANGED <<fails, phase, todo, dog, mine>> /\ pc[c] = "publish"
    BY <1>6 DEF Publish
  <2>2. CASE Goto(c, "lock") /\ UNCHANGED req
    BY <2>1, <2>2
  <2>3. CASE End(c)
    BY <1>4, <2>1, <2>3
  <2> QED
    BY <1>6, <2>2, <2>3 DEF Publish
<1>7. ASSUME NEW c \in Tenants, Answered(c) PROVE Jobs'
  <2>1. UNCHANGED <<req, fails, todo, dog>> /\ pc[c] = "wait" /\ mine[c] \in Runtimes
    BY <1>7 DEF Answered
  <2>2. CASE Goto(c, "save") /\ mine' = [mine EXCEPT ![c] = None] /\ UNCHANGED phase
    BY <2>1, <2>2
  <2>3. CASE StopSchedule(mine[c]) /\ Goto(c, "stop") /\ UNCHANGED mine
    BY <2>1, <2>3 DEF StopSchedule
  <2> QED
    BY <1>7, <2>2, <2>3 DEF Answered
<1>8. ASSUME NEW c \in Tenants, GiveUp(c) PROVE Jobs'
  <2>1. End(c) /\ UNCHANGED <<fails, phase, todo, dog>> /\ mine' = [mine EXCEPT ![c] = None]
    BY <1>8 DEF GiveUp
  <2> QED
    BY <1>4, <2>1
<1>9. ASSUME NEW c \in Tenants, Save(c) PROVE Jobs'
  <2>1. UNCHANGED <<fails, phase, todo, dog, mine>>
    BY <1>9 DEF Save
  <2>2. CASE req[c].old # None /\ Goto(c, "remove") /\ UNCHANGED req
    BY <2>1, <2>2
  <2>3. CASE End(c)
    BY <1>4, <2>1, <2>3
  <2> QED
    BY <1>9, <2>2, <2>3 DEF Save
<1>10. ASSUME NEW c \in Tenants, JobFails(c) PROVE Jobs'
  <2>1. End(c) /\ UNCHANGED <<fails, phase, todo, dog, mine>>
    BY <1>10 DEF JobFails
  <2> QED
    BY <1>4, <2>1
<1>11. ASSUME NEW c \in Tenants, Remove(c) PROVE Jobs'
  BY <1>11 DEF Remove
<1>12. ASSUME NEW c \in Tenants, Shutdown(c) PROVE Jobs'
  <2> DEFINE r == listed[req[c].old]
  <2>1. /\ UNCHANGED <<fails, phase, todo, dog>>
        /\ pc[c] = "shutdown" /\ req[c].old \in Versions
    BY <1>12 DEF Shutdown
  <2>2. CASE End(c) /\ UNCHANGED mine
    BY <1>4, <2>1, <2>2
  <2>3. CASE r # None /\ Goto(c, "await") /\ mine' = [mine EXCEPT ![c] = r] /\ UNCHANGED req
    <3>1. r \in Runtimes /\ phase[r] # "none"
      BY <2>1, <2>3 DEF RoutedIsScheduled
    <3> HIDE DEF r
    <3> QED
      BY <2>1, <2>3, <3>1
  <2> QED
    BY <1>12, <2>2, <2>3 DEF Shutdown
<1>13. ASSUME NEW c \in Tenants, AwaitShutdown(c) PROVE Jobs'
  <2>1. End(c) /\ UNCHANGED <<fails, phase, todo, dog>> /\ mine' = [mine EXCEPT ![c] = None]
    BY <1>13 DEF AwaitShutdown
  <2> QED
    BY <1>4, <2>1
<1>14. ASSUME NEW t \in Threads, pc[t] \in {"lock", "build"},
              ReturnEarly(t, TRUE) \/ ReturnEarly(t, FALSE),
              UNCHANGED <<fails, phase, todo, dog, mine>>
       PROVE  Jobs'
  <2>1. CASE t \in Tenants /\ Goto(t, "save") /\ UNCHANGED req
    BY <1>14, <2>1
  <2>2. CASE t \in Tenants /\ End(t)
    BY <1>4, <1>14, <2>2
  <2>3. CASE t \in Versions /\ Goto(t, "idle") /\ UNCHANGED req
    BY <1>14, <2>3
  <2> QED
    BY <1>14, <2>1, <2>2, <2>3 DEF ReturnEarly
<1>15. ASSUME NEW t \in Threads, LockAndCheck(t) PROVE Jobs'
  <2>1. UNCHANGED <<fails, phase, todo, dog, mine>> /\ pc[t] = "lock"
    BY <1>15 DEF LockAndCheck
  <2>2. CASE Goto(t, "sem") /\ UNCHANGED req
    BY <2>1, <2>2
  <2> QED
    BY <1>14, <1>15, <2>1, <2>2 DEF LockAndCheck
<1>16. ASSUME NEW t \in Threads, AcquireSemaphore(t) PROVE Jobs'
  BY <1>16 DEF AcquireSemaphore
<1>17. ASSUME NEW t \in Threads, BuildFails(t) PROVE Jobs'
  <2>1. UNCHANGED <<fails, phase, todo, dog, mine>> /\ pc[t] = "build" /\ ReturnEarly(t, FALSE)
    BY <1>17 DEF BuildFails
  <2> QED
    BY <1>14, <2>1
<1>18. ASSUME NEW t \in Threads, StartRuntime(t) PROVE Jobs'
  <2>1. PICK r \in Runtimes :
          /\ phase[r] = "none" /\ pc[t] = "build"
          /\ phase' = [phase EXCEPT ![r] = "running"]
          /\ mine' = [mine EXCEPT ![t] = r]
          /\ Goto(t, "wait")
          /\ UNCHANGED <<req, fails, todo, dog>>
    BY <1>18, NewRuntime
  <2> QED
    BY <2>1
<1>19. ASSUME NEW r \in Runtimes,
              Ready(r) \/ ReportReady(r) \/ LaunchFails(r) \/ Die(r) \/ StopReturns(r)
       PROVE  Jobs'
  <2>1. same
    BY <1>19 DEF Ready, ReportReady, LaunchFails, Die, StopReturns
  <2> QED
    BY <1>1, <2>1
<1>20. ASSUME NEW r \in Runtimes, GracefulStop(r) PROVE Jobs'
  BY <1>20 DEF GracefulStop, StopSchedule
<1>21. ASSUME NEW r \in Runtimes, Halt(r) PROVE Jobs'
  BY <1>21 DEF Halt
<1>22. ASSUME NEW r \in Runtimes, Close(r) PROVE Jobs'
  BY <1>22 DEF Close
<1>23. CASE ListInstalled
  BY <1>23 DEF ListInstalled
<1>24. ASSUME NEW v \in Versions, Visit(v) PROVE Jobs'
  <2>1. /\ dog = "round" /\ v \in todo /\ todo' = todo \ {v}
        /\ UNCHANGED <<req, fails, dog, mine, phase>>
        /\ UNCHANGED pc \/ (fails[v] < MaxRetry /\ Goto(v, "lock"))
    BY <1>24 DEF Visit, Wanted
  <2> QED
    BY <2>1
<1>25. ASSUME NEW v \in Versions, Record(v) PROVE Jobs'
  BY <1>25 DEF Record
<1>26. CASE RoundEnds
  BY <1>26 DEF RoundEnds
<1>27. CASE Sweeper
  BY <1>1, <1>27 DEF Sweeper, SweepCheck, SweepShutdown
<1> QED
  BY <1>2, <1>3, <1>5, <1>6, <1>7, <1>8, <1>9, <1>10, <1>11, <1>12, <1>13, <1>15, <1>16,
     <1>17, <1>18, <1>19, <1>20, <1>21, <1>22, <1>23, <1>24, <1>25, <1>26, <1>27
     DEF Next, Job, Launch, WatchDog

------------------------------------------------------------------------------
\* The lock of a version has one holder, so that one launch of it is in progress:
\* who releases the lock and the token is the one who has them.
LEMMA SemaphoreStep == IInv /\ [Next]_vars => SemaphoreExact'
<1> SUFFICES ASSUME IInv, [Next]_vars PROVE SemaphoreExact'
  OBVIOUS
<1> DEFINE launching == {"sem", "build"}
           others(t) == \A u \in Threads \ {t} : pc'[u] = pc[u] /\ Target(u)' = Target(u)
<1> USE LauncherAssumption DEF IInv
\* Threads that do not launch, before and after the step.
<1>1. ASSUME NEW t \in Threads, pc[t] \notin launching, pc'[t] \notin launching, others(t),
             UNCHANGED <<sem, mutex, of, first>>
      PROVE  SemaphoreExact'
  <2>1. Building' = Building /\ Starting' = Starting
    BY <1>1 DEF Building, Starting
  <2> QED
    BY <1>1, <2>1 DEF SemaphoreExact
<1>2. ASSUME UNCHANGED <<pc, req, sem, mutex, of, first>> PROVE SemaphoreExact'
  <2>1. /\ Building' = Building /\ Starting' = Starting
        /\ \A t \in Threads : Target(t)' = Target(t)
    BY <1>2 DEF Building, Starting, Target
  <2> QED
    BY <1>2, <2>1 DEF SemaphoreExact
<1>3. CASE UNCHANGED vars
  BY <1>2, <1>3 DEF vars, tenantVars, launchVars, runtimeVars
<1>4. ASSUME NEW c \in Tenants, NEW l \in PCs \ launching, Goto(c, l), pc[c] \notin launching,
             \A d \in Tenants \ {c} : req'[d] = req[d], UNCHANGED <<sem, mutex, of, first>>
      PROVE  SemaphoreExact'
  <2>1. pc'[c] = l /\ others(c)
    BY <1>4 DEF Goto, Target, TypeOK, Threads
  <2> QED
    BY <1>1, <1>4, <2>1 DEF Threads
<1>5. ASSUME NEW c \in Tenants, NEW old \in Versions \cup {None},
             NEW new \in Versions \cup {None}, Request(c, old, new)
      PROVE  SemaphoreExact'
  <2>1. /\ pc[c] = "idle" /\ \E l \in PCs \ launching : Goto(c, l)
        /\ UNCHANGED <<sem, mutex, of, first>>
        /\ \A d \in Tenants \ {c} : req'[d] = req[d]
    BY <1>5 DEF Request, launchVars, runtimeVars, PCs, TypeOK
  <2> QED
    BY <1>4, <2>1
<1>6. ASSUME NEW c \in Tenants, Job(c) PROVE SemaphoreExact'
  <2> DEFINE calm == UNCHANGED <<sem, mutex, of, first>> /\ pc[c] \notin launching
             moves == \/ End(c)
                      \/ UNCHANGED req /\ \E l \in PCs \ launching : Goto(c, l)
  <2>1. ASSUME calm, moves PROVE SemaphoreExact'
    <3>1. /\ \E l \in PCs \ launching : Goto(c, l)
          /\ \A d \in Tenants \ {c} : req'[d] = req[d]
      BY <2>1 DEF End, PCs, TypeOK
    <3> QED
      BY <1>4, <2>1, <3>1
  <2> USE DEF PCs, launchVars, runtimeVars
  <2>2. ASSUME Disable(c) PROVE calm /\ moves
    BY <2>2 DEF Disable
  <2>3. ASSUME Publish(c) PROVE calm /\ moves
    BY <2>3 DEF Publish
  <2>4. ASSUME Answered(c) PROVE calm /\ moves
    BY <2>4 DEF Answered
  <2>5. ASSUME GiveUp(c) PROVE calm /\ moves
    BY <2>5 DEF GiveUp
  <2>6. ASSUME Save(c) PROVE calm /\ moves
    BY <2>6 DEF Save
  <2>7. ASSUME JobFails(c) PROVE calm /\ moves
    BY <2>7 DEF JobFails
  <2>8. ASSUME Remove(c) PROVE calm /\ moves
    BY <2>8 DEF Remove
  <2>9. ASSUME Shutdown(c) PROVE calm /\ moves
    BY <2>9 DEF Shutdown
  <2>10. ASSUME AwaitShutdown(c) PROVE calm /\ moves
    BY <2>10 DEF AwaitShutdown
  <2> QED
    BY <1>6, <2>1, <2>2, <2>3, <2>4, <2>5, <2>6, <2>7, <2>8, <2>9, <2>10 DEF Job
<1>7. ASSUME NEW t \in Threads, ReturnEarly(t, TRUE) \/ ReturnEarly(t, FALSE)
      PROVE  others(t) /\ pc'[t] \in {"idle", "save"}
  <2>1. CASE t \in Tenants
    <3>1. (UNCHANGED req /\ Goto(t, "save")) \/ End(t)
      BY <1>7, <2>1 DEF ReturnEarly
    <3> QED
      BY <2>1, <3>1 DEF End, Goto, Target, TypeOK
  <2>2. CASE t \notin Tenants
    BY <1>7, <2>2 DEF ReturnEarly, Goto, Target, TypeOK
  <2> QED
    BY <2>1, <2>2
<1>8. ASSUME NEW t \in Threads, LockAndCheck(t) PROVE SemaphoreExact'
  <2>1. UNCHANGED <<sem, of, first>> /\ pc[t] = "lock" /\ mutex[Target(t)] = None
    BY <1>8 DEF LockAndCheck, runtimeVars
  <2>2. CASE ReturnEarly(t, TRUE) /\ UNCHANGED mutex
    BY <1>1, <1>7, <2>1, <2>2
  <2>3. CASE mutex' = [mutex EXCEPT ![Target(t)] = t] /\ Goto(t, "sem") /\ UNCHANGED tenantVars
    <3>1. Building' = Building /\ Starting' = Starting
      BY <2>1, <2>3 DEF Building, Starting, Goto, TypeOK
    <3>2. \A u \in Threads : Target(u)' = Target(u)
      BY <2>3 DEF Target, tenantVars
    <3>3. Target(t) \in Versions
      BY <2>1, HasTarget
    <3>4. \A r \in Starting : mutex'[of[r]] = r
      BY <2>1, <2>3, <3>3 DEF SemaphoreExact, Starting, TypeOK, Shape
    <3>5. \A u \in Threads : pc'[u] \in launching => mutex'[Target(u)] = u
      BY <2>1, <2>3, <3>3, HasTarget DEF SemaphoreExact, Goto, TypeOK
    <3> QED
      BY <2>1, <3>1, <3>2, <3>4, <3>5 DEF SemaphoreExact
  <2> QED
    BY <1>8, <2>2, <2>3 DEF LockAndCheck
<1>9. ASSUME NEW t \in Threads, AcquireSemaphore(t) PROVE SemaphoreExact'
  <2>1. /\ UNCHANGED <<mutex, of, first, req>> /\ sem' = sem + 1
        /\ pc[t] = "sem" /\ Goto(t, "build")
    BY <1>9 DEF AcquireSemaphore, runtimeVars, tenantVars
  <2>2. Building' = Building \cup {t} /\ t \notin Building /\ Starting' = Starting
    BY <2>1 DEF Building, Starting, Goto, TypeOK
  <2>3. Cardinality(Building') = Cardinality(Building) + 1
    BY <2>2, TokensFinite, FS_AddElement
  <2>4. \A u \in Threads : /\ Target(u)' = Target(u)
                           /\ pc'[u] \in launching => pc[u] \in launching
    BY <2>1 DEF Target, Goto, TypeOK
  <2> QED
    BY <2>1, <2>2, <2>3, <2>4, TokensFinite DEF SemaphoreExact, TypeOK
<1>10. ASSUME NEW t \in Threads, BuildFails(t) PROVE SemaphoreExact'
  <2>1. /\ UNCHANGED <<of, first>> /\ pc[t] = "build" /\ Release(Target(t))
        /\ ReturnEarly(t, FALSE)
    BY <1>10 DEF BuildFails, runtimeVars
  <2>2. others(t) /\ pc'[t] \in {"idle", "save"}
    BY <1>7, <2>1
  <2>3. Building' = Building \ {t} /\ t \in Building /\ Starting' = Starting
    BY <2>1, <2>2 DEF Building, Starting
  <2>4. Cardinality(Building') = Cardinality(Building) - 1
    BY <2>3, TokensFinite, FS_RemoveElement
  <2>5. Target(t) \in Versions /\ mutex[Target(t)] = t
    BY <2>1, HasTarget DEF SemaphoreExact
  <2>6. \A r \in Starting : mutex'[of[r]] = r
    BY <2>1, <2>5 DEF SemaphoreExact, Starting, TypeOK, Shape, Release
  <2>7. \A u \in Threads : pc'[u] \in launching => mutex'[Target(u)'] = u
    BY <2>1, <2>2, <2>5, HasTarget DEF SemaphoreExact, TypeOK, Release
  <2> QED
    BY <2>1, <2>3, <2>4, <2>6, <2>7, TokensFinite DEF SemaphoreExact, TypeOK, Release
<1>11. ASSUME NEW t \in Threads, StartRuntime(t) PROVE SemaphoreExact'
  <2>1. PICK r \in Runtimes :
          /\ phase[r] = "none" /\ pc[t] = "build"
          /\ of' = [of EXCEPT ![r] = Target(t)]
          /\ first' = [first EXCEPT ![r] = "open"]
          /\ mutex' = [mutex EXCEPT ![Target(t)] = r]
          /\ Goto(t, "wait")
          /\ UNCHANGED <<req, sem>>
    BY <1>11, NewRuntime DEF tenantVars
  <2>2. Target(t) \in Versions /\ mutex[Target(t)] = t
    BY <2>1, HasTarget DEF SemaphoreExact
  <2>3. /\ Building' = Building \ {t} /\ t \in Building
        /\ Starting' = Starting \cup {r} /\ r \notin Starting
    BY <2>1 DEF Building, Starting, Goto, TypeOK, Shape
  <2>4. /\ Cardinality(Building') = Cardinality(Building) - 1
        /\ Cardinality(Starting') = Cardinality(Starting) + 1
    BY <2>3, TokensFinite, FS_RemoveElement, FS_AddElement
  <2>5. \A x \in Starting' : mutex'[of'[x]] = x
    BY <2>1, <2>2, <2>3 DEF SemaphoreExact, Starting, TypeOK, Shape
  <2>6. \A u \in Threads : pc'[u] \in launching => mutex'[Target(u)'] = u
    BY <2>1, <2>2, HasTarget DEF SemaphoreExact, TypeOK, Goto, Target
  <2>7. sem' = Cardinality(Building') + Cardinality(Starting')
    BY <2>1, <2>4, TokensFinite DEF SemaphoreExact
  <2> QED
    BY <2>5, <2>6, <2>7 DEF SemaphoreExact
<1>12. ASSUME NEW r \in Runtimes, Ready(r) PROVE SemaphoreExact'
  <2>1. Starting' = Starting /\ UNCHANGED <<pc, req, sem, mutex, of>>
    BY <1>12 DEF Ready, Starting, TypeOK, tenantVars, launchVars
  <2>2. Building' = Building /\ \A t \in Threads : Target(t)' = Target(t)
    BY <2>1 DEF Building, Target
  <2> QED
    BY <2>1, <2>2 DEF SemaphoreExact
<1>13. ASSUME NEW r \in Runtimes, ReportReady(r) \/ LaunchFails(r) PROVE SemaphoreExact'
  <2>1. /\ r \in Starting /\ Starting' = Starting \ {r}
        /\ UNCHANGED <<pc, req, of>> /\ Release(of[r])
    BY <1>13 DEF ReportReady, LaunchFails, Starting, TypeOK, tenantVars
  <2>2. Building' = Building /\ \A t \in Threads : Target(t)' = Target(t)
    BY <2>1 DEF Building, Target
  <2>3. Cardinality(Starting') = Cardinality(Starting) - 1
    BY <2>1, TokensFinite, FS_RemoveElement
  <2>4. of[r] \in Versions /\ mutex[of[r]] = r
    BY <2>1 DEF SemaphoreExact, Starting, Shape, TypeOK
  <2>5. \A x \in Starting' : mutex'[of[x]] = x
    BY <2>1, <2>4 DEF SemaphoreExact, Starting, TypeOK, Shape, Release
  <2>6. \A t \in Threads : pc[t] \in launching => mutex'[Target(t)] = t
    BY <2>1, <2>4, HasTarget DEF SemaphoreExact, TypeOK, Release
  <2>7. sem' = Cardinality(Building') + Cardinality(Starting')
    BY <2>1, <2>2, <2>3, TokensFinite DEF SemaphoreExact, Release
  <2> QED
    BY <2>1, <2>2, <2>5, <2>6, <2>7 DEF SemaphoreExact
<1>14. ASSUME NEW r \in Runtimes, Die(r) \/ GracefulStop(r) \/ StopReturns(r) \/ Halt(r)
       PROVE  SemaphoreExact'
  <2>1. UNCHANGED <<pc, req, sem, mutex, of, first>>
    BY <1>14 DEF Die, GracefulStop, StopReturns, Halt, tenantVars, launchVars
  <2> QED
    BY <1>2, <2>1
<1>15. ASSUME NEW r \in Runtimes, Close(r) PROVE SemaphoreExact'
  <2>1. Starting' = Starting /\ r \notin Starting /\ UNCHANGED <<pc, req, sem, mutex>>
    BY <1>15 DEF Close, Starting, TypeOK, tenantVars, launchVars
  <2>2. Building' = Building /\ \A t \in Threads : Target(t)' = Target(t)
    BY <2>1 DEF Building, Target
  <2>3. \A x \in Starting : of'[x] = of[x]
    BY <1>15, <2>1 DEF Close, Starting, TypeOK
  <2> QED
    BY <2>1, <2>2, <2>3 DEF SemaphoreExact
<1>16. CASE ListInstalled \/ RoundEnds \/ Sweeper
  <2>1. UNCHANGED <<pc, req, sem, mutex, of, first>>
    BY <1>16 DEF ListInstalled, RoundEnds, Sweeper, SweepCheck, SweepShutdown,
                 tenantVars, launchVars, runtimeVars
  <2> QED
    BY <1>2, <2>1
<1>17. ASSUME NEW v \in Versions, Visit(v) \/ Record(v) PROVE SemaphoreExact'
  <2>1. /\ UNCHANGED <<req, sem, mutex, of, first>>
        /\ pc[v] \notin launching
        /\ UNCHANGED pc \/ Goto(v, "lock") \/ Goto(v, "idle")
    BY <1>17 DEF Visit, Record, Jobs, tenantVars, launchVars, runtimeVars
  <2>2. others(v) /\ pc'[v] \notin launching
    BY <2>1 DEF Goto, Target, TypeOK, Threads
  <2> QED
    BY <1>1, <2>1, <2>2 DEF Threads
<1> QED
  BY <1>3, <1>5, <1>6, <1>8, <1>9, <1>10, <1>11, <1>12, <1>13, <1>14, <1>15, <1>16, <1>17
     DEF Next, Launch, WatchDog

------------------------------------------------------------------------------
\* A launch looks into the map after it got the lock, and the entry is stored while
\* the launch still has it: nobody stores between the look and the store.
LEMMA UnlistedStep == IInv /\ [Next]_vars => Unlisted'
<1> SUFFICES ASSUME IInv, [Next]_vars PROVE Unlisted'
  OBVIOUS
<1> DEFINE launching == {"sem", "build"}
<1> USE LauncherAssumption DEF IInv, Unlisted
\* No thread begins to launch, no version gets an entry.
<1>1. ASSUME UNCHANGED <<of, first, listed>>,
             \A t \in Threads :
               pc'[t] \in launching => pc[t] \in launching /\ Target(t)' = Target(t)
      PROVE  Unlisted'
  BY <1>1
<1>2. CASE UNCHANGED vars
  BY <1>1, <1>2 DEF vars, tenantVars, runtimeVars, Target
<1>3. ASSUME NEW c \in Tenants, NEW l \in PCs \ launching, Goto(c, l),
             \A d \in Tenants \ {c} : req'[d] = req[d], UNCHANGED <<of, first, listed>>
      PROVE  Unlisted'
  BY <1>1, <1>3 DEF Goto, Target, TypeOK, Threads
<1>4. ASSUME NEW c \in Tenants, NEW old \in Versions \cup {None},
             NEW new \in Versions \cup {None}, Request(c, old, new)
      PROVE  Unlisted'
  <2>1. /\ \E l \in PCs \ launching : Goto(c, l)
        /\ UNCHANGED <<of, first, listed>>
        /\ \A d \in Tenants \ {c} : req'[d] = req[d]
    BY <1>4 DEF Request, runtimeVars, PCs, TypeOK
  <2> QED
    BY <1>3, <2>1
<1>5. ASSUME NEW c \in Tenants, Job(c) PROVE Unlisted'
  <2> DEFINE moves == /\ UNCHANGED <<of, first, listed>>
                      /\ \/ End(c)
                         \/ UNCHANGED req /\ \E l \in PCs \ launching : Goto(c, l)
  <2>1. ASSUME moves PROVE Unlisted'
    <3>1. /\ \E l \in PCs \ launching : Goto(c, l)
          /\ \A d \in Tenants \ {c} : req'[d] = req[d]
      BY <2>1 DEF End, PCs, TypeOK
    <3> QED
      BY <1>3, <2>1, <3>1
  <2> USE DEF PCs, runtimeVars
  <2>2. ASSUME Disable(c) \/ Publish(c) PROVE moves
    BY <2>2 DEF Disable, Publish
  <2>3. ASSUME Answered(c) PROVE moves
    BY <2>3 DEF Answered
  <2>4. ASSUME GiveUp(c) \/ AwaitShutdown(c) \/ JobFails(c) PROVE moves
    BY <2>4 DEF GiveUp, AwaitShutdown, JobFails
  <2>5. ASSUME Save(c) \/ Remove(c) PROVE moves
    BY <2>5 DEF Save, Remove
  <2>6. ASSUME Shutdown(c) PROVE moves
    BY <2>6 DEF Shutdown
  <2> QED
    BY <1>5, <2>1, <2>2, <2>3, <2>4, <2>5, <2>6 DEF Job
<1>6. ASSUME NEW t \in Threads, ReturnEarly(t, TRUE) \/ ReturnEarly(t, FALSE),
             UNCHANGED <<of, first, listed>>
      PROVE  Unlisted'
  <2>1. CASE t \in Tenants
    <3>1. (UNCHANGED req /\ Goto(t, "save")) \/ End(t)
      BY <1>6, <2>1 DEF ReturnEarly
    <3> QED
      BY <1>1, <1>6, <2>1, <3>1 DEF End, Goto, Target, TypeOK
  <2>2. CASE t \notin Tenants
    BY <1>1, <1>6, <2>2 DEF ReturnEarly, Goto, Target, TypeOK
  <2> QED
    BY <2>1, <2>2
<1>7. ASSUME NEW t \in Threads, LockAndCheck(t) PROVE Unlisted'
  <2>1. CASE listed[Target(t)] # None
    BY <1>6, <1>7, <2>1 DEF LockAndCheck, runtimeVars
  <2>2. CASE listed[Target(t)] = None
    BY <1>7, <2>2 DEF LockAndCheck, Goto, Target, TypeOK, tenantVars, runtimeVars
  <2> QED
    BY <2>1, <2>2
<1>8. ASSUME NEW t \in Threads, AcquireSemaphore(t) PROVE Unlisted'
  BY <1>1, <1>8 DEF AcquireSemaphore, Goto, Target, TypeOK, tenantVars, runtimeVars
<1>9. ASSUME NEW t \in Threads, BuildFails(t) PROVE Unlisted'
  BY <1>6, <1>9 DEF BuildFails, runtimeVars
<1>10. ASSUME NEW t \in Threads, StartRuntime(t) PROVE Unlisted'
  <2>1. PICK r \in Runtimes :
          /\ phase[r] = "none" /\ pc[t] = "build"
          /\ of' = [of EXCEPT ![r] = Target(t)]
          /\ first' = [first EXCEPT ![r] = "open"]
          /\ Goto(t, "wait")
          /\ UNCHANGED <<req, listed>>
    BY <1>10, NewRuntime DEF tenantVars
  <2> QED
    BY <2>1 DEF Goto, Target, TypeOK
<1>11. ASSUME NEW r \in Runtimes, Ready(r) PROVE Unlisted'
  <2>1. UNCHANGED <<pc, req, of>> /\ \A t \in Threads : Target(t)' = Target(t)
    BY <1>11 DEF Ready, tenantVars, Target
  <2>2. CASE UNCHANGED <<first, listed>>
    BY <1>1, <2>1, <2>2
  <2>3. CASE /\ first[r] = "open" /\ first' = [first EXCEPT ![r] = "stored"]
             /\ listed' = [listed EXCEPT ![of[r]] = r]
    <3>1. r \in Starting /\ of[r] \in Versions /\ mutex[of[r]] = r
      BY <2>3 DEF Starting, SemaphoreExact, Shape, TypeOK
    <3>2. ASSUME NEW x \in Runtimes, first'[x] = "open" PROVE listed'[of[x]] = None
      <4>1. x # r /\ first[x] = "open"
        BY <2>3, <3>2 DEF TypeOK
      <4>2. mutex[of[x]] = x /\ of[x] \in Versions
        BY <4>1 DEF Starting, SemaphoreExact, Shape, TypeOK
      <4> QED
        BY <2>3, <3>1, <4>1, <4>2 DEF TypeOK
    <3>3. ASSUME NEW t \in Threads, pc[t] \in launching PROVE listed'[Target(t)] = None
      <4>1. Target(t) \in Versions /\ mutex[Target(t)] = t
        BY <3>3, HasTarget DEF SemaphoreExact
      <4> QED
        BY <2>3, <3>1, <3>3, <4>1 DEF TypeOK
    <3> QED
      BY <2>1, <3>2, <3>3
  <2> QED
    BY <1>11, <2>2, <2>3 DEF Ready
<1>12. ASSUME NEW r \in Runtimes, ReportReady(r) \/ LaunchFails(r) PROVE Unlisted'
  BY <1>12 DEF ReportReady, LaunchFails, TypeOK, tenantVars, Target
<1>13. ASSUME NEW r \in Runtimes, Die(r) \/ GracefulStop(r) \/ StopReturns(r) PROVE Unlisted'
  BY <1>1, <1>13 DEF Die, GracefulStop, StopReturns, tenantVars, Target
<1>14. ASSUME NEW r \in Runtimes, Halt(r) PROVE Unlisted'
  <2>1. /\ UNCHANGED <<pc, req, of, first>> /\ of[r] \in Versions
        /\ listed' = [listed EXCEPT ![of[r]] = None]
    BY <1>14 DEF Halt, tenantVars, Shape, TypeOK
  <2> QED
    BY <2>1, HasTarget DEF Target, TypeOK, Shape
<1>15. ASSUME NEW r \in Runtimes, Close(r) PROVE Unlisted'
  BY <1>15 DEF Close, TypeOK, tenantVars, Target
<1>16. CASE ListInstalled \/ RoundEnds \/ Sweeper
  BY <1>1, <1>16 DEF ListInstalled, RoundEnds, Sweeper, SweepCheck, SweepShutdown,
                     tenantVars, runtimeVars, Target
<1>17. ASSUME NEW v \in Versions, Visit(v) \/ Record(v) PROVE Unlisted'
  BY <1>1, <1>17 DEF Visit, Record, Goto, Target, TypeOK, Threads, tenantVars, runtimeVars
<1> QED
  BY <1>2, <1>4, <1>5, <1>7, <1>8, <1>9, <1>10, <1>11, <1>12, <1>13, <1>14, <1>15, <1>16, <1>17
     DEF Next, Launch, WatchDog

\* Who is stored is scheduled, and its own stop takes the entry away.
LEMMA ListedStep ==
  IInv /\ [Next]_vars => RoutedIsScheduled' /\ OneListed'
<1> DEFINE listing == RoutedIsScheduled /\ OneListed
<1> SUFFICES ASSUME IInv, [Next]_vars PROVE listing'
  OBVIOUS
<1> USE LauncherAssumption DEF IInv, TypeOK, RoutedIsScheduled, OneListed
<1>1. ASSUME UNCHANGED <<listed, of, phase, first, struck>> PROVE listing'
  BY <1>1
<1>2. CASE UNCHANGED vars
  BY <1>1, <1>2 DEF vars, runtimeVars
<1>3. ASSUME NEW c \in Tenants, NEW old \in Versions \cup {None},
             NEW new \in Versions \cup {None}, Request(c, old, new)
      PROVE  listing'
  BY <1>1, <1>3 DEF Request, runtimeVars
<1>4. ASSUME NEW c \in Tenants,
             \/ Disable(c) \/ Publish(c) \/ GiveUp(c) \/ Save(c) \/ JobFails(c)
             \/ Remove(c) \/ Shutdown(c) \/ AwaitShutdown(c)
      PROVE  listing'
  <2>1. UNCHANGED <<listed, of, phase, first, struck>>
    BY <1>4 DEF Disable, Publish, GiveUp, Save, JobFails, Remove, Shutdown, AwaitShutdown,
                runtimeVars
  <2> QED
    BY <1>1, <2>1
<1>5. ASSUME NEW r \in Runtimes, StopSchedule(r), UNCHANGED <<listed, of, first, struck>>
      PROVE  listing'
  BY <1>5 DEF StopSchedule
<1>6. ASSUME NEW c \in Tenants, Answered(c) PROVE listing'
  <2>1. mine[c] \in Runtimes /\ UNCHANGED <<listed, of, first, struck>>
    BY <1>6 DEF Answered, Jobs, Threads
  <2>2. UNCHANGED phase \/ StopSchedule(mine[c])
    BY <1>6 DEF Answered
  <2> QED
    BY <1>1, <1>5, <2>1, <2>2
<1>7. ASSUME NEW t \in Threads, LockAndCheck(t) \/ AcquireSemaphore(t) \/ BuildFails(t)
      PROVE  listing'
  BY <1>1, <1>7 DEF LockAndCheck, AcquireSemaphore, BuildFails, runtimeVars
<1>8. ASSUME NEW t \in Threads, StartRuntime(t) PROVE listing'
  <2>1. PICK r \in Runtimes :
          /\ phase[r] = "none"
          /\ of' = [of EXCEPT ![r] = Target(t)]
          /\ phase' = [phase EXCEPT ![r] = "running"]
          /\ first' = [first EXCEPT ![r] = "open"]
          /\ UNCHANGED <<listed, struck>>
    BY <1>8, NewRuntime
  <2> QED
    BY <2>1
<1>9. ASSUME NEW r \in Runtimes, Ready(r) PROVE listing'
  <2>1. UNCHANGED <<of, phase, struck>> /\ phase[r] \in {"running", "stopped"}
    BY <1>9 DEF Ready
  <2>2. CASE UNCHANGED <<first, listed>>
    BY <1>1, <2>1, <2>2
  <2>3. CASE /\ first[r] = "open" /\ first' = [first EXCEPT ![r] = "stored"]
             /\ listed' = [listed EXCEPT ![of[r]] = r]
    <3>1. of[r] \in Versions /\ listed[of[r]] = None
      BY <2>3 DEF Shape, Unlisted
    <3>2. RoutedIsScheduled'
      BY <2>1, <2>3, <3>1
    <3>3. OneListed'
      BY <2>1, <2>3, <3>1 DEF Shape
    <3> QED
      BY <3>2, <3>3
  <2> QED
    BY <1>9, <2>2, <2>3 DEF Ready
<1>10. ASSUME NEW r \in Runtimes, ReportReady(r) \/ LaunchFails(r) PROVE listing'
  BY <1>10 DEF ReportReady, LaunchFails, Unlisted, Shape
<1>11. ASSUME NEW r \in Runtimes, Die(r) \/ StopReturns(r) PROVE listing'
  BY <1>1, <1>11 DEF Die, StopReturns
<1>12. ASSUME NEW r \in Runtimes, GracefulStop(r) PROVE listing'
  BY <1>5, <1>12 DEF GracefulStop
<1>13. ASSUME NEW r \in Runtimes, Halt(r) PROVE listing'
  <2>1. /\ of[r] \in Versions /\ UNCHANGED <<of, first>>
        /\ phase' = [phase EXCEPT ![r] = "halted"]
        /\ listed' = [listed EXCEPT ![of[r]] = None]
        /\ listed[of[r]] \in {r, None} \/ of[r] \in struck'
        /\ struck \subseteq struck'
    BY <1>13 DEF Halt, Shape
  <2>2. RoutedIsScheduled'
    BY <2>1
  <2>3. OneListed'
    BY <2>1 DEF Shape
  <2> QED
    BY <2>2, <2>3
<1>14. ASSUME NEW r \in Runtimes, Close(r) PROVE listing'
  BY <1>14 DEF Close
<1>15. CASE WatchDog \/ Sweeper
  <2>1. UNCHANGED <<listed, of, phase, first, struck>>
    BY <1>15 DEF WatchDog, ListInstalled, Visit, Record, RoundEnds, Sweeper, SweepCheck,
                 SweepShutdown, runtimeVars
  <2> QED
    BY <1>1, <2>1
<1> QED
  BY <1>2, <1>3, <1>4, <1>6, <1>7, <1>8, <1>9, <1>10, <1>11, <1>12, <1>13, <1>14, <1>15
     DEF Next, Job, Launch

------------------------------------------------------------------------------
\* A daemon starts with no launch, no runtime and an empty map.
LEMMA InitHolds == Init => IInv
<1> SUFFICES ASSUME Init PROVE IInv
  OBVIOUS
<1> USE LauncherAssumption DEF Init
<1>1. TypeOK
  BY DEF TypeOK, PCs, Threads, NoVersions
<1>2. Shape /\ Jobs /\ Unlisted /\ RoutedIsScheduled /\ OneListed
  BY DEF Shape, Jobs, Unlisted, RoutedIsScheduled, OneListed, Threads
<1>3. Building = {} /\ Starting = {}
  BY DEF Building, Starting
<1>4. SemaphoreExact
  BY <1>3, FS_EmptySet DEF SemaphoreExact
<1> QED
  BY <1>1, <1>2, <1>4 DEF IInv

\* The inductive invariant: the lock of a version makes its launches exclusive, which
\* gives both the count of the tokens and the single entry in the map.
THEOREM LauncherInvariant == Spec => []IInv
<1>1. IInv /\ [Next]_vars => IInv'
  BY TypeStep, ShapeStep, JobsStep, SemaphoreStep, UnlistedStep, ListedStep DEF IInv
<1> QED
  BY <1>1, InitHolds, PTL DEF Spec

\* All values stay in their types; in particular the semaphore, a channel with
\* PluginLocalLaunchingConcurrent places, is never drained by a release too many.
THEOREM LauncherType == Spec => []TypeOK
<1>1. IInv => TypeOK
  BY DEF IInv
<1> QED
  BY <1>1, LauncherInvariant, PTL

\* LaunchLocalPlugin and the notifier it adds hold the installation lock and one token
\* of the semaphore for each launch in progress, and return both exactly once.
THEOREM TokensReturned == Spec => []SemaphoreExact
<1>1. IInv => SemaphoreExact
  BY DEF IInv
<1> QED
  BY <1>1, LauncherInvariant, PTL

\* An entry of localPluginRuntimes is a runtime of that version which has been ready
\* and whose loop has not ended.
THEOREM RoutesAreGood == Spec => []RoutedIsScheduled
<1>1. IInv => RoutedIsScheduled
  BY DEF IInv
<1> QED
  BY <1>1, LauncherInvariant, PTL

\* Two launches of a version, by tenants or by the watch dog, never both end up with
\* a scheduled runtime, as long as no other runtime's stop has struck out the entry.
THEOREM NoTwoRuntimes == Spec => []OneListed
<1>1. IInv => OneListed
  BY DEF IInv
<1> QED
  BY <1>1, LauncherInvariant, PTL
==============================================================================
