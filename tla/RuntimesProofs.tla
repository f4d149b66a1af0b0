---------------------------- MODULE RuntimesProofs ----------------------------
(***************************************************************************)
(* Proofs about the units of MCRuntimes.                                   *)
(*                                                                         *)
(* LocalRuntime, for any number of instances, sessions and Stop calls: no  *)
(* running instance is ever lost from sight, so that OnRuntimeClose is     *)
(* true and no surplus subprocess is started; and the notice of a dead     *)
(* instance reaches every accepted invocation.                             *)
(* Environment, ServerlessInstall and ServerlessCall: the invariants the   *)
(* run checks, for any number of daemons, callers, texts and tries.        *)
(***************************************************************************)
EXTENDS MCRuntimes, SequenceTheorems, Sequences, FiniteSetTheorems, WellFoundedInduction, TLAPS

------------------------------------------------------------------------------
(* LocalRuntime *)

\* Whoever is at work on an instance has one.
HasInstance ==
  /\ loop \in {"launch", "shrink", "shrunk"} => cur \in Instances
  /\ \A c \in Calls : call[c] \in {"grace", "kill"} => held[c] \in Instances
  /\ \A s \in Sessions :
       session[s] \in {"setup", "hook", "write", "accepted"} => at[s] \in Instances

Typed == TypeOK /\ HasInstance

LEMMA TypedStep == ASSUME Typed, [Next]_vars PROVE Typed'
<1> USE LocalRuntimeAssumption
    DEF Typed, TypeOK, HasInstance, loopVars, instanceVars, sessionVars,
        LoopPCs, Procs, ReaderPCs, CallPCs, SessionPCs
<1>1. CASE StartNewInstance
  BY <1>1 DEF StartNewInstance, Fresh, Pruned
<1>2. CASE StartFails
  BY <1>2 DEF StartFails, Pruned
<1>3. CASE Compare
  BY <1>3 DEF Compare, Pruned
<1>4. CASE LaunchDone
  BY <1>4 DEF LaunchDone
<1>5. CASE LaunchTimeout
  BY <1>5 DEF LaunchTimeout
<1>6. CASE ShrinkCheck
  BY <1>6 DEF ShrinkCheck
<1>7. CASE ShrinkStop
  BY <1>7 DEF ShrinkStop
<1>8. CASE Wake
  BY <1>8 DEF Wake
<1>9. CASE Halt
  BY <1>9 DEF Halt
<1>10. CASE Close
  BY <1>10 DEF Close, Pruned
<1>11. CASE ScaleUp
  BY <1>11 DEF ScaleUp
<1>12. CASE ScaleDown
  BY <1>12 DEF ScaleDown
<1>13. ASSUME NEW i \in Instances, Ready(i) PROVE Typed'
  BY <1>13 DEF Ready
<1>14. ASSUME NEW i \in Instances, ScanEnds(i) PROVE Typed'
  BY <1>14 DEF ScanEnds
<1>15. ASSUME NEW i \in Instances, KillAndReap(i) PROVE Typed'
  BY <1>15 DEF KillAndReap
<1>16. ASSUME NEW i \in Instances, InstanceShutdown(i) PROVE Typed'
  BY <1>16 DEF InstanceShutdown
<1>17. ASSUME NEW i \in Instances, Exit(i) PROVE Typed'
  BY <1>17 DEF Exit
<1>18. ASSUME NEW i \in Instances, Hang(i) PROVE Typed'
  BY <1>18 DEF Hang
<1>19. ASSUME NEW i \in Instances, Heartbeat(i) PROVE Typed'
  BY <1>19 DEF Heartbeat
<1>20. ASSUME NEW i \in Instances, MonitorStops(i) PROVE Typed'
  BY <1>20 DEF MonitorStops
<1>21. ASSUME NEW c \in Calls, BeginStop(c) PROVE Typed'
  BY <1>21, ZenonT(40) DEF BeginStop
<1>22. ASSUME NEW c \in Calls, TakeSlice(c) PROVE Typed'
  BY <1>22 DEF TakeSlice, Pruned
<1>23. ASSUME NEW c \in Calls, Index(c) PROVE Typed'
  BY <1>23 DEF Index
<1>24. ASSUME NEW c \in Calls, GraceCheck(c) PROVE Typed'
  BY <1>24 DEF GraceCheck
<1>25. ASSUME NEW c \in Calls, GraceStop(c) PROVE Typed'
  BY <1>25 DEF GraceStop
<1>26. ASSUME NEW c \in Calls, WaitForAll(c) PROVE Typed'
  BY <1>26 DEF WaitForAll, Pruned
<1>27. ASSUME NEW s \in Sessions, Listen(s) PROVE Typed'
  BY <1>27 DEF Listen, Pruned
<1>28. ASSUME NEW s \in Sessions, ListenFails(s) PROVE Typed'
  BY <1>28 DEF ListenFails
<1>29. ASSUME NEW s \in Sessions, SetupListener(s) PROVE Typed'
  BY <1>29 DEF SetupListener
<1>30. ASSUME NEW s \in Sessions, Hook(s) PROVE Typed'
  BY <1>30 DEF Hook
<1>31. ASSUME NEW s \in Sessions, WriteAccepted(s) PROVE Typed'
  BY <1>31 DEF WriteAccepted, CloseListener
<1>32. ASSUME NEW s \in Sessions, WriteFails(s) PROVE Typed'
  BY <1>32 DEF WriteFails, CloseListener
<1>33. ASSUME NEW s \in Sessions, Retry(s) PROVE Typed'
  BY <1>33 DEF Retry
<1>34. ASSUME NEW s \in Sessions, Invoke(s) PROVE Typed'
  BY <1>34 DEF Invoke
<1>35. ASSUME NEW s \in Sessions, DoneFires(s) PROVE Typed'
  BY <1>35 DEF DoneFires, CloseListener
<1>36. ASSUME NEW s \in Sessions, End(s) PROVE Typed'
  BY <1>36 DEF End, CloseListener
<1>37. ASSUME NEW s \in Sessions, Cancel(s) PROVE Typed'
  BY <1>37 DEF Cancel, CloseListener
<1>38. CASE UNCHANGED vars
  BY <1>38 DEF vars
<1> QED
  BY <1>1, <1>2, <1>3, <1>4, <1>5, <1>6, <1>7, <1>8, <1>9, <1>10, <1>11,
     <1>12, <1>13, <1>14, <1>15, <1>16, <1>17, <1>18, <1>19, <1>20, <1>21,
     <1>22, <1>23, <1>24, <1>25, <1>26, <1>27, <1>28, <1>29, <1>30, <1>31,
     <1>32, <1>33, <1>34, <1>35, <1>36, <1>37, <1>38
     DEF Next, LoopStep, ReaderStep, CallStep, SessionStep

\* Every reachable state has its type, and nobody works on a missing instance.
THEOREM RuntimeType == Spec => []Typed
<1>1. Init => Typed
  <2>1. ASSUME Init PROVE TypeOK
    <3>1. replicas \in 0..MaxReplicas /\ loop \in LoopPCs
      <4>1. replicas = 1 /\ loop = "check"
        BY <2>1 DEF Init
      <4> QED
        BY <4>1, LocalRuntimeAssumption DEF LoopPCs
    <3>4. running \in BOOLEAN /\ reported \in BOOLEAN
      BY <2>1, Zenon DEF Init
    <3>2. /\ proc \in [Instances -> Procs] /\ reader \in [Instances -> ReaderPCs]
          /\ call \in [Calls -> CallPCs] /\ session \in [Sessions -> SessionPCs]
      BY <2>1 DEF Init, Procs, ReaderPCs, CallPCs, SessionPCs
    <3>3. /\ held \in [Calls -> Instances \cup {None}]
          /\ at \in [Sessions -> Instances \cup {None}]
          /\ listening \in [Instances -> SUBSET Sessions]
      BY <2>1 DEF Init
    <3> QED
      BY <2>1, <3>1, <3>2, <3>3, <3>4 DEF Init, TypeOK
  <2>2. Init => HasInstance
    BY DEF Init, HasInstance
  <2> QED
    BY <2>1, <2>2 DEF Typed
<1> QED
  BY <1>1, TypedStep, PTL DEF Spec

------------------------------------------------------------------------------
\* An instance that is not stopped is waited for before its first heartbeat and
\* listed after it; nothing is left when the loop has closed the runtime.
Known ==
  /\ \A i \in Live :
       IF i \in started THEN i \in instances ELSE loop = "launch" /\ cur = i
  /\ loop = "closed" => Live = {}

LEMMA KnownStep == ASSUME Typed, Known, [Next]_vars PROVE Known'
<1> USE LocalRuntimeAssumption
    DEF Typed, TypeOK, HasInstance, Known, Live, loopVars, instanceVars, sessionVars
<1>1. CASE StartNewInstance
  BY <1>1 DEF StartNewInstance, Fresh, Pruned
<1>2. CASE StartFails
  BY <1>2 DEF StartFails, Pruned
<1>3. CASE Compare
  BY <1>3 DEF Compare, Pruned
<1>4. CASE LaunchDone
  BY <1>4 DEF LaunchDone
<1>5. CASE LaunchTimeout
  BY <1>5 DEF LaunchTimeout
<1>6. CASE ShrinkCheck
  BY <1>6 DEF ShrinkCheck
<1>7. CASE ShrinkStop
  BY <1>7 DEF ShrinkStop
<1>8. CASE Wake
  BY <1>8 DEF Wake
<1>9. CASE Halt
  BY <1>9 DEF Halt
<1>10. CASE Close
  BY <1>10 DEF Close, Pruned
<1>11. CASE ScaleUp
  BY <1>11 DEF ScaleUp
<1>12. CASE ScaleDown
  BY <1>12 DEF ScaleDown
<1>13. ASSUME NEW i \in Instances, Ready(i) PROVE Known'
  BY <1>13 DEF Ready
<1>14. ASSUME NEW i \in Instances, ScanEnds(i) PROVE Known'
  BY <1>14 DEF ScanEnds
<1>15. ASSUME NEW i \in Instances, KillAndReap(i) PROVE Known'
  BY <1>15 DEF KillAndReap
<1>16. ASSUME NEW i \in Instances, InstanceShutdown(i) PROVE Known'
  BY <1>16 DEF InstanceShutdown
<1>17. ASSUME NEW i \in Instances, Exit(i) PROVE Known'
  BY <1>17 DEF Exit
<1>18. ASSUME NEW i \in Instances, Hang(i) PROVE Known'
  BY <1>18 DEF Hang
<1>19. ASSUME NEW i \in Instances, Heartbeat(i) PROVE Known'
  BY <1>19 DEF Heartbeat
<1>20. ASSUME NEW i \in Instances, MonitorStops(i) PROVE Known'
  BY <1>20 DEF MonitorStops
<1>21. ASSUME NEW c \in Calls, BeginStop(c) PROVE Known'
  BY <1>21 DEF BeginStop
<1>22. ASSUME NEW c \in Calls, TakeSlice(c) PROVE Known'
  BY <1>22 DEF TakeSlice, Pruned
<1>23. ASSUME NEW c \in Calls, Index(c) PROVE Known'
  BY <1>23 DEF Index
<1>24. ASSUME NEW c \in Calls, GraceCheck(c) PROVE Known'
  BY <1>24 DEF GraceCheck
<1>25. ASSUME NEW c \in Calls, GraceStop(c) PROVE Known'
  BY <1>25 DEF GraceStop
<1>26. ASSUME NEW c \in Calls, WaitForAll(c) PROVE Known'
  BY <1>26 DEF WaitForAll, Pruned
<1>27. ASSUME NEW s \in Sessions, Listen(s) PROVE Known'
  BY <1>27 DEF Listen, Pruned
<1>28. ASSUME NEW s \in Sessions, ListenFails(s) PROVE Known'
  BY <1>28 DEF ListenFails
<1>29. ASSUME NEW s \in Sessions, SetupListener(s) PROVE Known'
  BY <1>29 DEF SetupListener
<1>30. ASSUME NEW s \in Sessions, Hook(s) PROVE Known'
  BY <1>30 DEF Hook
<1>31. ASSUME NEW s \in Sessions, WriteAccepted(s) PROVE Known'
  BY <1>31 DEF WriteAccepted, CloseListener
<1>32. ASSUME NEW s \in Sessions, WriteFails(s) PROVE Known'
  BY <1>32 DEF WriteFails, CloseListener
<1>33. ASSUME NEW s \in Sessions, Retry(s) PROVE Known'
  BY <1>33 DEF Retry
<1>34. ASSUME NEW s \in Sessions, Invoke(s) PROVE Known'
  BY <1>34 DEF Invoke
<1>35. ASSUME NEW s \in Sessions, DoneFires(s) PROVE Known'
  BY <1>35 DEF DoneFires, CloseListener
<1>36. ASSUME NEW s \in Sessions, End(s) PROVE Known'
  BY <1>36 DEF End, CloseListener
<1>37. ASSUME NEW s \in Sessions, Cancel(s) PROVE Known'
  BY <1>37 DEF Cancel, CloseListener
<1>38. CASE UNCHANGED vars
  BY <1>38 DEF vars
<1> QED
  BY <1>1, <1>2, <1>3, <1>4, <1>5, <1>6, <1>7, <1>8, <1>9, <1>10, <1>11,
     <1>12, <1>13, <1>14, <1>15, <1>16, <1>17, <1>18, <1>19, <1>20, <1>21,
     <1>22, <1>23, <1>24, <1>25, <1>26, <1>27, <1>28, <1>29, <1>30, <1>31,
     <1>32, <1>33, <1>34, <1>35, <1>36, <1>37, <1>38
     DEF Next, LoopStep, ReaderStep, CallStep, SessionStep

THEOREM KnownHolds == Spec => []Known
<1>1. Init => Known
  BY DEF Init, Known, Live
<1> QED
  BY <1>1, RuntimeType, KnownStep, PTL DEF Spec

\* Evictions, shutdowns and timeouts take an instance off the list only when it
\* is stopped.
THEOREM NothingForgotten == Spec => []NoneForgotten
<1>1. Known => NoneForgotten
  BY DEF Known, NoneForgotten
<1> QED
  BY <1>1, KnownHolds, PTL

\* OnRuntimeClose is called when every instance has been stopped, and none is
\* started after it.
THEOREM CloseIsTrue == Spec => []ClosedIsQuiet
<1>1. Known => ClosedIsQuiet
  BY DEF Known, ClosedIsQuiet
<1> QED
  BY <1>1, KnownHolds, PTL

\* startNewInstance runs only when fewer instances than instanceNums go on: the
\* pruned list that the loop has counted holds them all.
THEOREM LaunchesAreDue == Spec => LaunchOnlyWhenShort
<1>1. ASSUME Typed, Known, [Next]_vars
      PROVE  [loop = "check" /\ loop' = "launch" => Cardinality(Live) < replicas]_vars
  <2> SUFFICES ASSUME loop = "check", loop' = "launch" PROVE Cardinality(Live) < replicas
    OBVIOUS
  <2>1. StartNewInstance
    BY <1>1
       DEF Next, LoopStep, StartFails, Compare, LaunchDone, LaunchTimeout, ShrinkCheck,
           ShrinkStop, Wake, Halt, Close, ScaleUp, ScaleDown, ReaderStep, Ready, ScanEnds,
           KillAndReap, InstanceShutdown, Exit, Hang, Heartbeat, MonitorStops, CallStep,
           BeginStop, TakeSlice, Index, GraceCheck, GraceStop, WaitForAll, SessionStep,
           Listen, ListenFails, SetupListener, Hook, WriteAccepted, WriteFails, Retry,
           Invoke, DoneFires, End, Cancel, vars, loopVars
  <2>2. Live \subseteq Pruned /\ Pruned \subseteq Instances
    BY <1>1 DEF Known, Live, Pruned, Typed, TypeOK
  <2>3. IsFiniteSet(Pruned)
    BY <2>2, LocalRuntimeAssumption, FS_Subset
  <2>4. Cardinality(Live) <= Cardinality(Pruned)
    BY <2>2, <2>3, FS_Subset
  <2>5. Cardinality(Live) \in Nat /\ Cardinality(Pruned) \in Nat
    BY <2>2, <2>3, FS_Subset, FS_CardinalityType
  <2> QED
    BY <1>1, <2>1, <2>4, <2>5 DEF StartNewInstance, Typed, TypeOK
<1> QED
  BY <1>1, RuntimeType, KnownHolds, PTL DEF Spec, LaunchOnlyWhenShort

------------------------------------------------------------------------------
\* Before the request is accepted the goroutine that waits for Done may have
\* fired without being heard, but then the instance is stopped and the write
\* will fail.
Heard ==
  \A s \in Sessions :
    /\ session[s] \in {"setup", "hook", "write"} => s \in armed \/ at[s] \in stopped
    /\ session[s] = "write" => s \in hooked
    /\ session[s] = "accepted" => s \in armed /\ s \in hooked

LEMMA HeardStep == ASSUME Typed, Heard, [Next]_vars PROVE Heard'
<1> USE LocalRuntimeAssumption
    DEF Typed, TypeOK, HasInstance, Heard, loopVars, instanceVars, sessionVars
<1>1. CASE StartNewInstance
  BY <1>1 DEF StartNewInstance, Fresh, Pruned
<1>2. CASE StartFails
  BY <1>2 DEF StartFails, Pruned
<1>3. CASE Compare
  BY <1>3 DEF Compare, Pruned
<1>4. CASE LaunchDone
  BY <1>4 DEF LaunchDone
<1>5. CASE LaunchTimeout
  BY <1>5 DEF LaunchTimeout
<1>6. CASE ShrinkCheck
  BY <1>6 DEF ShrinkCheck
<1>7. CASE ShrinkStop
  BY <1>7 DEF ShrinkStop
<1>8. CASE Wake
  BY <1>8 DEF Wake
<1>9. CASE Halt
  BY <1>9 DEF Halt
<1>10. CASE Close
  BY <1>10 DEF Close, Pruned
<1>11. CASE ScaleUp
  BY <1>11 DEF ScaleUp
<1>12. CASE ScaleDown
  BY <1>12 DEF ScaleDown
<1>13. ASSUME NEW i \in Instances, Ready(i) PROVE Heard'
  BY <1>13 DEF Ready
<1>14. ASSUME NEW i \in Instances, ScanEnds(i) PROVE Heard'
  BY <1>14 DEF ScanEnds
<1>15. ASSUME NEW i \in Instances, KillAndReap(i) PROVE Heard'
  BY <1>15 DEF KillAndReap
<1>16. ASSUME NEW i \in Instances, InstanceShutdown(i) PROVE Heard'
  BY <1>16 DEF InstanceShutdown
<1>17. ASSUME NEW i \in Instances, Exit(i) PROVE Heard'
  BY <1>17 DEF Exit
<1>18. ASSUME NEW i \in Instances, Hang(i) PROVE Heard'
  BY <1>18 DEF Hang
<1>19. ASSUME NEW i \in Instances, Heartbeat(i) PROVE Heard'
  BY <1>19 DEF Heartbeat
<1>20. ASSUME NEW i \in Instances, MonitorStops(i) PROVE Heard'
  BY <1>20 DEF MonitorStops
<1>21. ASSUME NEW c \in Calls, BeginStop(c) PROVE Heard'
  BY <1>21 DEF BeginStop
<1>22. ASSUME NEW c \in Calls, TakeSlice(c) PROVE Heard'
  BY <1>22 DEF TakeSlice, Pruned
<1>23. ASSUME NEW c \in Calls, Index(c) PROVE Heard'
  BY <1>23 DEF Index
<1>24. ASSUME NEW c \in Calls, GraceCheck(c) PROVE Heard'
  BY <1>24 DEF GraceCheck
<1>25. ASSUME NEW c \in Calls, GraceStop(c) PROVE Heard'
  BY <1>25 DEF GraceStop
<1>26. ASSUME NEW c \in Calls, WaitForAll(c) PROVE Heard'
  BY <1>26 DEF WaitForAll, Pruned
<1>27. ASSUME NEW s \in Sessions, Listen(s) PROVE Heard'
  BY <1>27 DEF Listen, Pruned
<1>28. ASSUME NEW s \in Sessions, ListenFails(s) PROVE Heard'
  BY <1>28 DEF ListenFails
<1>29. ASSUME NEW s \in Sessions, SetupListener(s) PROVE Heard'
  BY <1>29 DEF SetupListener
<1>30. ASSUME NEW s \in Sessions, Hook(s) PROVE Heard'
  BY <1>30 DEF Hook
<1>31. ASSUME NEW s \in Sessions, WriteAccepted(s) PROVE Heard'
  BY <1>31 DEF WriteAccepted, CloseListener
<1>32. ASSUME NEW s \in Sessions, WriteFails(s) PROVE Heard'
  BY <1>32 DEF WriteFails, CloseListener
<1>33. ASSUME NEW s \in Sessions, Retry(s) PROVE Heard'
  BY <1>33 DEF Retry
<1>34. ASSUME NEW s \in Sessions, Invoke(s) PROVE Heard'
  BY <1>34 DEF Invoke
<1>35. ASSUME NEW s \in Sessions, DoneFires(s) PROVE Heard'
  BY <1>35 DEF DoneFires, CloseListener
<1>36. ASSUME NEW s \in Sessions, End(s) PROVE Heard'
  BY <1>36 DEF End, CloseListener
<1>37. ASSUME NEW s \in Sessions, Cancel(s) PROVE Heard'
  BY <1>37 DEF Cancel, CloseListener
<1>38. CASE UNCHANGED vars
  BY <1>38 DEF vars
<1> QED
  BY <1>1, <1>2, <1>3, <1>4, <1>5, <1>6, <1>7, <1>8, <1>9, <1>10, <1>11,
     <1>12, <1>13, <1>14, <1>15, <1>16, <1>17, <1>18, <1>19, <1>20, <1>21,
     <1>22, <1>23, <1>24, <1>25, <1>26, <1>27, <1>28, <1>29, <1>30, <1>31,
     <1>32, <1>33, <1>34, <1>35, <1>36, <1>37, <1>38
     DEF Next, LoopStep, ReaderStep, CallStep, SessionStep

\* The notice of a stopped instance is never lost on an accepted invocation.
THEOREM NoticeArrives == Spec => []NoticeNotLost
<1>1. Init => Heard
  BY DEF Init, Heard
<1>2. Heard => NoticeNotLost
  BY DEF Heard, NoticeNotLost
<1> QED
  BY <1>1, <1>2, RuntimeType, HeardStep, PTL DEF Spec

------------------------------------------------------------------------------
(* Environment *)

\* Every step of the daemons and of the lock keeps the types.
LEMMA EnvTypeStep ==
  ASSUME Env!EnvironmentAssumption, Env!EnvTypeOK, Env!EnvNext
  PROVE  Env!EnvTypeOK'
<1> USE DEF Env!EnvTypeOK, Env!EnvironmentAssumption, Env!Resting, Env!Dir, Env!LockVars, Env!EnvHistory
<1>1. CASE Env!LockExpires
  BY <1>1 DEF Env!LockExpires
<1>2. ASSUME NEW d \in Daemons, Env!Launch(d) PROVE Env!EnvTypeOK'
  BY <1>2 DEF Env!Launch
<1>3. ASSUME NEW d \in Daemons, Env!AcquireOwnedLock(d) PROVE Env!EnvTypeOK'
  <2>1. s12' \in BOOLEAN
    BY <1>3, Zenon DEF Env!AcquireOwnedLock, Env!Enters
  <2> QED
    BY <1>3, <2>1 DEF Env!AcquireOwnedLock, Env!Enters, Env!Moves
<1>4. ASSUME NEW d \in Daemons, Env!ContinueWithoutLock(d) PROVE Env!EnvTypeOK'
  <2>1. s12' \in BOOLEAN
    BY <1>4, Zenon DEF Env!ContinueWithoutLock, Env!Enters
  <2> QED
    BY <1>4, <2>1 DEF Env!ContinueWithoutLock, Env!Enters, Env!Moves
<1>5. ASSUME NEW d \in Daemons, Env!RenewFails(d) PROVE Env!EnvTypeOK'
  BY <1>5 DEF Env!RenewFails
<1>6. ASSUME NEW d \in Daemons, Env!StartExtract(d) PROVE Env!EnvTypeOK'
  BY <1>6 DEF Env!StartExtract, Env!Only, Env!Moves
<1>7. ASSUME NEW d \in Daemons, Env!EndExtract(d) PROVE Env!EnvTypeOK'
  BY <1>7 DEF Env!EndExtract, Env!Moves
<1>8. ASSUME NEW d \in Daemons, Env!CheckVenv(d) PROVE Env!EnvTypeOK'
  BY <1>8 DEF Env!CheckVenv, Env!Only, Env!Moves
<1>9. ASSUME NEW d \in Daemons, Env!DeleteVenv(d) PROVE Env!EnvTypeOK'
  BY <1>9 DEF Env!DeleteVenv, Env!Only, Env!Moves
<1>10. ASSUME NEW d \in Daemons, Env!CreateVenv(d) PROVE Env!EnvTypeOK'
  BY <1>10 DEF Env!CreateVenv, Env!Only, Env!Moves
<1>11. ASSUME NEW d \in Daemons, Env!InstallDependencies(d) PROVE Env!EnvTypeOK'
  BY <1>11 DEF Env!InstallDependencies, Env!Only, Env!Moves
<1>12. ASSUME NEW d \in Daemons, Env!PreCompile(d) PROVE Env!EnvTypeOK'
  BY <1>12 DEF Env!PreCompile, Env!Only, Env!Moves
<1>13. ASSUME NEW d \in Daemons, Env!PatchSdk(d) PROVE Env!EnvTypeOK'
  BY <1>13 DEF Env!PatchSdk, Env!Only, Env!Moves
<1>14. ASSUME NEW d \in Daemons, Env!MarkValid(d) PROVE Env!EnvTypeOK'
  BY <1>14 DEF Env!MarkValid, Env!Only, Env!Moves
<1>15. ASSUME NEW d \in Daemons, NEW from, NEW to \in {"ready", "failed"}, Env!Release(d, from, to)
       PROVE  Env!EnvTypeOK'
  BY <1>15 DEF Env!Release, Env!Released, Env!Moves
<1>16. ASSUME NEW d \in Daemons, Env!Crash(d) PROVE Env!EnvTypeOK'
  <2>1. s13' \in BOOLEAN
    BY <1>16, Zenon DEF Env!Crash
  <2> QED
    BY <1>16, <2>1 DEF Env!Crash
<1>17. ASSUME NEW d \in Daemons, Env!Restart(d) PROVE Env!EnvTypeOK'
  BY <1>17 DEF Env!Restart, Env!Moves
<1> QED
  BY <1>1, <1>2, <1>3, <1>4, <1>5, <1>6, <1>7, <1>8, <1>9, <1>10, <1>11, <1>12, <1>13, <1>14,
     <1>15, <1>16, <1>17 DEF Env!EnvNext, Env!InitStep

\* The owned lock: SetNX needs an absent key, the scripts compare the token, and a key
\* that expires is lost to its holder.
LEMMA EnvLockStep ==
  ASSUME Env!EnvironmentAssumption, Env!EnvTypeOK, Env!HolderOwnsLock, Env!EnvNext
  PROVE  Env!HolderOwnsLock'
<1> USE DEF Env!EnvTypeOK, Env!EnvironmentAssumption, Env!HolderOwnsLock, Env!LockVars, Env!EnvHistory
<1>1. CASE Env!LockExpires
  BY <1>1 DEF Env!LockExpires
<1>2. ASSUME NEW d \in Daemons, Env!AcquireOwnedLock(d) PROVE Env!HolderOwnsLock'
  BY <1>2 DEF Env!AcquireOwnedLock, Env!Enters
<1>3. ASSUME NEW d \in Daemons, NEW from, NEW to, Env!Release(d, from, to)
      PROVE  Env!HolderOwnsLock'
  BY <1>3 DEF Env!Release, Env!Released
<1>4. ASSUME NEW d \in Daemons, Env!Crash(d) PROVE Env!HolderOwnsLock'
  BY <1>4 DEF Env!Crash
<1>5. ASSUME NEW d \in Daemons, Env!RenewFails(d) PROVE Env!HolderOwnsLock'
  BY <1>5 DEF Env!RenewFails
<1>6. ASSUME NEW d \in Daemons, Env!Launch(d) \/ Env!ContinueWithoutLock(d) \/ Env!Restart(d)
      PROVE  Env!HolderOwnsLock'
  BY <1>6 DEF Env!Launch, Env!ContinueWithoutLock, Env!Enters, Env!Restart
<1>7. ASSUME NEW d \in Daemons, Env!InitStep(d) PROVE Env!HolderOwnsLock'
  BY <1>7 DEF Env!InitStep, Env!StartExtract, Env!EndExtract, Env!CheckVenv, Env!DeleteVenv,
       Env!CreateVenv, Env!InstallDependencies, Env!PreCompile, Env!PatchSdk, Env!MarkValid, Env!Only
<1> QED
  BY <1>1, <1>2, <1>3, <1>4, <1>5, <1>6, <1>7 DEF Env!EnvNext

\* The directory under a daemon that is alone: only its own steps change it, and the
\* mark is the last of them.
LEMMA EnvAloneStep ==
  ASSUME Env!EnvTypeOK, Env!MarkedIsInstalled, Env!AloneKnows, Env!EnvNext
  PROVE  Env!MarkedIsInstalled' /\ Env!AloneKnows'
<1> DEFINE Kept == Env!MarkedIsInstalled' /\ Env!AloneKnows'
<1> USE DEF Env!EnvTypeOK, Env!MarkedIsInstalled, Env!AloneKnows, Env!KnowsDir, Env!Inside, Env!Resting,
            Env!Dir, Env!LockVars, Env!EnvHistory, Env!Moves, Env!Only
<1>1. CASE Env!LockExpires
  BY <1>1 DEF Env!LockExpires
<1>2. ASSUME NEW d \in Daemons, Env!Launch(d) PROVE Kept
  BY <1>2 DEF Env!Launch
<1>3. ASSUME NEW d \in Daemons, Env!AcquireOwnedLock(d) PROVE Kept
  BY <1>3 DEF Env!AcquireOwnedLock, Env!Enters
<1>4. ASSUME NEW d \in Daemons, Env!ContinueWithoutLock(d) PROVE Kept
  BY <1>4 DEF Env!ContinueWithoutLock, Env!Enters
<1>5. ASSUME NEW d \in Daemons, Env!RenewFails(d) PROVE Kept
  BY <1>5 DEF Env!RenewFails
<1>6. ASSUME NEW d \in Daemons, Env!StartExtract(d) PROVE Kept
  BY <1>6 DEF Env!StartExtract
<1>7. ASSUME NEW d \in Daemons, Env!EndExtract(d) PROVE Kept
  BY <1>7 DEF Env!EndExtract
<1>8. ASSUME NEW d \in Daemons, Env!CheckVenv(d) PROVE Kept
  BY <1>8 DEF Env!CheckVenv, Env!VenvValid
<1>9. ASSUME NEW d \in Daemons, Env!DeleteVenv(d) PROVE Kept
  BY <1>9 DEF Env!DeleteVenv
<1>10. ASSUME NEW d \in Daemons, Env!CreateVenv(d) PROVE Kept
  BY <1>10 DEF Env!CreateVenv
<1>11. ASSUME NEW d \in Daemons, Env!InstallDependencies(d) PROVE Kept
  BY <1>11 DEF Env!InstallDependencies
<1>12. ASSUME NEW d \in Daemons, Env!PreCompile(d) PROVE Kept
  BY <1>12 DEF Env!PreCompile
<1>13. ASSUME NEW d \in Daemons, Env!PatchSdk(d) PROVE Kept
  BY <1>13 DEF Env!PatchSdk
<1>14. ASSUME NEW d \in Daemons, Env!MarkValid(d) PROVE Kept
  BY <1>14 DEF Env!MarkValid
<1>15. ASSUME NEW d \in Daemons, Env!Restart(d) PROVE Kept
  BY <1>15 DEF Env!Restart
<1>16. ASSUME NEW d \in Daemons, Env!Crash(d) PROVE Kept
  BY <1>16, ZenonT(40) DEF Env!Crash
<1>17. ASSUME NEW d \in Daemons,
             Env!Release(d, "release", "ready") \/ Env!Release(d, "failing", "failed")
      PROVE  Kept
  BY <1>17 DEF Env!Release
<1> QED
  BY <1>1, <1>2, <1>3, <1>4, <1>5, <1>6, <1>7, <1>8, <1>9, <1>10, <1>11, <1>12, <1>13, <1>14, <1>15, <1>16, <1>17
     DEF Env!EnvNext, Env!InitStep

\* A step that leaves the variables of the unit alone.
LEMMA EnvStutter ==
  ASSUME Env!EnvIInv, UNCHANGED unitVars
  PROVE  Env!EnvIInv'
<1> USE DEF unitVars
<1>1. Env!EnvTypeOK' /\ Env!HolderOwnsLock' /\ Env!MarkedIsInstalled'
  BY DEF Env!EnvIInv, Env!EnvTypeOK, Env!HolderOwnsLock, Env!MarkedIsInstalled, Env!Resting
<1>2. Env!AloneKnows'
  BY DEF Env!EnvIInv, Env!AloneKnows, Env!KnowsDir, Env!Inside, Env!Resting
<1> QED
  BY <1>1, <1>2 DEF Env!EnvIInv

\* No daemon has started to set up the environment.
LEMMA EnvInitial == ASSUME Env!EnvironmentAssumption, Env!EnvInit PROVE Env!EnvIInv
<1>1. Env!EnvTypeOK
  <2>1. {s7, s8, s12, s13} \subseteq BOOLEAN
    BY Zenon DEF Env!EnvInit
  <2> QED
    BY <2>1 DEF Env!EnvInit, Env!EnvTypeOK, Env!EnvironmentAssumption, Env!Resting
<1>2. Env!HolderOwnsLock /\ Env!MarkedIsInstalled /\ Env!AloneKnows
  BY DEF Env!EnvInit, Env!HolderOwnsLock, Env!MarkedIsInstalled, Env!AloneKnows, Env!KnowsDir, Env!Inside,
         Env!Resting
<1> QED
  BY <1>1, <1>2 DEF Env!EnvIInv

\* The owned lock excludes, and what an initialization that was alone marks valid or
\* reports as ready can run the plugin, for any number of daemons, launches and
\* crashes (redis.go, environment_python.go).
THEOREM EnvironmentStaysUsable == RuntimesSpec => []EnvironmentIsUsable
<1> DEFINE Inv == unit = "environment" => Env!EnvIInv
<1>1. RuntimesInit => Inv
  BY EnvInitial, RuntimesAssumption DEF RuntimesInit
<1>2. Inv /\ [RuntimesNext]_runtimesVars => Inv'
  <2> SUFFICES ASSUME Inv, [RuntimesNext]_runtimesVars, unit' = "environment" PROVE Env!EnvIInv'
    OBVIOUS
  <2>1. unit = "environment" /\ Env!EnvIInv
    BY DEF RuntimesNext, runtimesVars
  <2>2. CASE Env!EnvNext
    BY <2>1, <2>2, EnvTypeStep, EnvLockStep, EnvAloneStep, RuntimesAssumption DEF Env!EnvIInv
  <2>3. CASE UNCHANGED unitVars
    BY <2>1, <2>3, EnvStutter
  <2> QED
    BY <2>1, <2>2, <2>3 DEF RuntimesNext, runtimesVars
<1>3. Inv => EnvironmentIsUsable
  <2> SUFFICES ASSUME unit = "environment", Env!EnvIInv
               PROVE  Env!ReadyIsUsable /\ Env!LockExcludes
    BY DEF EnvironmentIsUsable, Env!EnvIInv
  <2>1. Env!ReadyIsUsable
    BY DEF Env!EnvIInv, Env!AloneKnows, Env!KnowsDir, Env!Inside, Env!Resting, Env!ReadyIsUsable
  <2>2. Env!LockExcludes
    BY DEF Env!EnvIInv, Env!HolderOwnsLock, Env!LockExcludes
  <2> QED
    BY <2>1, <2>2
<1> QED
  BY <1>1, <1>2, <1>3, PTL DEF RuntimesSpec
------------------------------------------------------------------------------
(* ServerlessInstall *)

\* Where a request may go, and what it may be.
CallSteps == {"waiting", "persist", "clear", "relaunch", "db", "store", "done", "failed"}
CallOps == {"install", "reinstall", "switch", "read"}

\* Only the request of c changes, to operation o at step p with function f.
CallBecomes(c, o, p, f) ==
  /\ s6' \in [InstCallers -> Inst!CallShape] /\ (\A b \in InstCallers \ {c} : s6'[b] = s6[b])
  /\ s6'[c].op = o /\ s6'[c].pc = p /\ s6'[c].fn = f /\ (p = "canceled" => s6'[c].left)

\* What the updates of the actions make of a request.
LEMMA CallMoves ==
  ASSUME s6 \in [InstCallers -> Inst!CallShape], NEW c \in InstCallers
  PROVE  /\ \A p \in CallSteps :
              s6' = [s6 EXCEPT ![c].pc = p] => CallBecomes(c, s6[c].op, p, s6[c].fn)
         /\ \A o \in CallOps, p \in CallSteps :
              s6' = [s6 EXCEPT ![c].op = o, ![c].pc = p] => CallBecomes(c, o, p, s6[c].fn)
         /\ \A o \in CallOps, p \in CallSteps, f \in 0..MaxBuilds :
              s6' = [s6 EXCEPT ![c].op = o, ![c].pc = p, ![c].fn = f] => CallBecomes(c, o, p, f)
         /\ \A p \in CallSteps, f \in 0..MaxBuilds :
              s6' = [s6 EXCEPT ![c].pc = p, ![c].fn = f] => CallBecomes(c, s6[c].op, p, f)
         /\ s6' = [s6 EXCEPT ![c].pc = "canceled", ![c].left = TRUE]
              => CallBecomes(c, s6[c].op, "canceled", s6[c].fn)
<1>a. s6[c] \in Inst!CallShape
  OBVIOUS
<1>0. ASSUME NEW o, NEW p, NEW f, NEW w \in Inst!CallShape, s6' = [s6 EXCEPT ![c] = w],
             w.op = o, w.pc = p, w.fn = f, p = "canceled" => w.left
      PROVE  CallBecomes(c, o, p, f)
  BY <1>0 DEF CallBecomes
<1>1. ASSUME NEW p \in CallSteps, s6' = [s6 EXCEPT ![c].pc = p]
      PROVE  CallBecomes(c, s6[c].op, p, s6[c].fn)
  <2> DEFINE w == [s6[c] EXCEPT !.pc = p]
  <2>1. s6' = [s6 EXCEPT ![c] = w]
    BY <1>1
  <2>2. w \in Inst!CallShape /\ w.op = s6[c].op /\ w.pc = p /\ w.fn = s6[c].fn
    BY <1>a, Zenon DEF Inst!CallShape, CallSteps, CallOps
  <2>3. p # "canceled"
    BY DEF CallSteps
  <2> HIDE DEF w
  <2> QED
    BY <1>0, <2>1, <2>2, <2>3
<1>2. ASSUME NEW o \in CallOps, NEW p \in CallSteps, s6' = [s6 EXCEPT ![c].op = o, ![c].pc = p]
      PROVE  CallBecomes(c, o, p, s6[c].fn)
  <2> DEFINE w == [s6[c] EXCEPT !.op = o, !.pc = p]
  <2>1. s6' = [s6 EXCEPT ![c] = w]
    BY <1>2
  <2>2. w \in Inst!CallShape /\ w.op = o /\ w.pc = p /\ w.fn = s6[c].fn
    BY <1>a, Zenon DEF Inst!CallShape, CallSteps, CallOps
  <2>3. p # "canceled"
    BY DEF CallSteps
  <2> HIDE DEF w
  <2> QED
    BY <1>0, <2>1, <2>2, <2>3
<1>3. ASSUME NEW o \in CallOps, NEW p \in CallSteps, NEW f \in 0..MaxBuilds,
             s6' = [s6 EXCEPT ![c].op = o, ![c].pc = p, ![c].fn = f]
      PROVE  CallBecomes(c, o, p, f)
  <2> DEFINE w == [s6[c] EXCEPT !.op = o, !.pc = p, !.fn = f]
  <2>1. s6' = [s6 EXCEPT ![c] = w]
    BY <1>3
  <2>2. w \in Inst!CallShape /\ w.op = o /\ w.pc = p /\ w.fn = f
    BY <1>a, Zenon DEF Inst!CallShape, CallSteps, CallOps
  <2>3. p # "canceled"
    BY DEF CallSteps
  <2> HIDE DEF w
  <2> QED
    BY <1>0, <2>1, <2>2, <2>3
<1>4. ASSUME NEW p \in CallSteps, NEW f \in 0..MaxBuilds, s6' = [s6 EXCEPT ![c].pc = p, ![c].fn = f]
      PROVE  CallBecomes(c, s6[c].op, p, f)
  <2> DEFINE w == [s6[c] EXCEPT !.pc = p, !.fn = f]
  <2>1. s6' = [s6 EXCEPT ![c] = w]
    BY <1>4
  <2>2. w \in Inst!CallShape /\ w.op = s6[c].op /\ w.pc = p /\ w.fn = f
    BY <1>a, Zenon DEF Inst!CallShape, CallSteps, CallOps
  <2>3. p # "canceled"
    BY DEF CallSteps
  <2> HIDE DEF w
  <2> QED
    BY <1>0, <2>1, <2>2, <2>3
<1>5. ASSUME s6' = [s6 EXCEPT ![c].pc = "canceled", ![c].left = TRUE]
      PROVE  CallBecomes(c, s6[c].op, "canceled", s6[c].fn)
  <2> DEFINE w == [s6[c] EXCEPT !.pc = "canceled", !.left = TRUE]
  <2>1. s6' = [s6 EXCEPT ![c] = w]
    BY <1>5
  <2>2. w \in Inst!CallShape /\ w.op = s6[c].op /\ w.pc = "canceled" /\ w.fn = s6[c].fn /\ w.left
    BY <1>a, Zenon DEF Inst!CallShape, CallSteps, CallOps
  <2> HIDE DEF w
  <2> QED
    BY <1>0, <2>1, <2>2
<1> QED
  BY <1>1, <1>2, <1>3, <1>4, <1>5

\* What the invariant says of launches, lock and functions: its types and the rest.
LaunchTyped ==
  /\ s4 \in [InstDaemons -> Inst!FlightShape] /\ s5 \in {"none", "nobody"} \cup InstCallers
  /\ s7 \in [1..MaxBuilds -> {"none"} \cup InstCallers] /\ s8 \subseteq InstCallers
  /\ s10 \subseteq InstCallers
LaunchKnown ==
  LaunchTyped /\ Inst!OneBuilder /\ Inst!BuiltOnce /\ Inst!LockIsOfALaunch /\ s8 \subseteq s10

\* The types that the invariant gives the variables.
LEMMA InstTypes ==
  ASSUME Inst!InstIInv
  PROVE  /\ s1 \in 0..MaxBuilds /\ s2 \in 0..MaxBuilds /\ s3 \in 0..MaxBuilds
         /\ s6 \in [InstCallers -> Inst!CallShape] /\ s9 \in BOOLEAN
         /\ \A c \in InstCallers : s6[c].fn \in 0..MaxBuilds
         /\ LaunchKnown /\ LaunchTyped
BY DEF Inst!InstIInv, Inst!InstTypeOK, Inst!CallShape, LaunchKnown, LaunchTyped

\* The types of the next state make the type invariant.
LEMMA InstTyped ==
  ASSUME s1' \in 0..MaxBuilds, s2' \in 0..MaxBuilds, s3' \in 0..MaxBuilds, LaunchTyped',
         s6' \in [InstCallers -> Inst!CallShape], s9' \in BOOLEAN,
         \A c \in InstCallers : s6'[c].pc \in {"persist", "clear", "store"} => s6'[c].fn # 0
  PROVE  Inst!InstTypeOK'
BY DEF Inst!InstTypeOK, LaunchTyped

\* A step of a caller: what has to be shown of its own request and of the launches.
LEMMA InstCaller ==
  ASSUME Inst!InstAssumption, Inst!InstIInv, NEW c \in InstCallers, NEW o, NEW p, NEW f,
         CallBecomes(c, o, p, f), s1' \in 0..MaxBuilds, s1 <= s1', s2' \in 0..s1', s3' \in 0..s1',
         s9' \in BOOLEAN, s9 => s9', s10 \subseteq s10', LaunchKnown',
         \A d \in InstDaemons : s4[d].pc # "none" => s4'[d].pc # "none",
         s2 # 0 => s2' # 0, s3' # 0 => s2' # 0, s2' # s2 /\ ~s9' => ~Inst!ReadersHold,
         p \in {"persist", "clear", "store"} => f # 0, p = "waiting" => s4'[DaemonOf[c]].pc # "none",
         Inst!CallKnows(c)', Inst!RowCacheFresh'
  PROVE  Inst!InstIInv'
<1> USE DEF CallBecomes
<1>2. s1 \in Nat /\ s1' \in Nat /\ \A b \in InstCallers : s6[b].fn \in Nat
  BY InstTypes
<1>3. Inst!InstTypeOK'
  <2>1. s2' \in 0..MaxBuilds /\ s3' \in 0..MaxBuilds
    BY <1>2 DEF Inst!InstAssumption
  <2>2. \A b \in InstCallers : s6'[b].pc \in {"persist", "clear", "store"} => s6'[b].fn # 0
    BY DEF Inst!InstIInv, Inst!InstTypeOK
  <2>3. LaunchTyped'
    BY DEF LaunchKnown
  <2> QED
    BY <2>1, <2>2, <2>3, InstTyped
<1>4. Inst!FollowersServed'
  BY DEF Inst!InstIInv, Inst!FollowersServed, Inst!InstAssumption
<1>5. ASSUME NEW b \in InstCallers PROVE Inst!CallKnows(b)'
  <2>1. CASE b # c
    BY <1>2, <2>1 DEF Inst!InstIInv, Inst!CallKnows, Inst!ReadersHold
  <2> QED
    BY <2>1
<1>6. s2' <= s1' /\ s3' <= s1'
  BY <1>2
<1> QED
  BY <1>3, <1>4, <1>5, <1>6 DEF Inst!InstIInv, LaunchKnown

\* Launches, lock and functions left alone stay known, whatever callers other than
\* reinstalls turn to.
LEMMA LaunchKept ==
  ASSUME LaunchKnown, UNCHANGED <<s1, s4, s5, s7, s8, s10>>,
         \A b \in InstCallers : s6[b].op = "reinstall" => s6'[b].op = "reinstall"
  PROVE  LaunchKnown'
<1>1. LaunchTyped' /\ Inst!OneBuilder' /\ Inst!BuiltOnce' /\ s8' \subseteq s10'
  BY DEF LaunchKnown, LaunchTyped, Inst!OneBuilder, Inst!Unbuilt, Inst!BuiltOnce
<1>2. Inst!LockIsOfALaunch'
  BY DEF LaunchKnown, Inst!LockIsOfALaunch, Inst!Unbuilt
<1> QED
  BY <1>1, <1>2 DEF LaunchKnown

\* A step of a caller that leaves lock, launches and functions alone.
LEMMA InstRows ==
  ASSUME Inst!InstAssumption, Inst!InstIInv, NEW c \in InstCallers, NEW o, NEW p, NEW f,
         CallBecomes(c, o, p, f), UNCHANGED <<s1, s4, s5, s7, s8, s10>>, s2' \in 0..s1, s3' \in 0..s1,
         s9' \in BOOLEAN, s9 => s9', o = s6[c].op \/ s6[c].pc = "new",
         s2 # 0 => s2' # 0, s3' # 0 => s2' # 0, s2' # s2 /\ ~s9' => ~Inst!ReadersHold,
         p \in {"persist", "clear", "store"} => f # 0, p # "waiting",
         Inst!CallKnows(c)', Inst!RowCacheFresh'
  PROVE  Inst!InstIInv'
<1>1. LaunchKnown'
  <2>1. \A b \in InstCallers : s6[b].op = "reinstall" => s6'[b].op = "reinstall"
    BY DEF Inst!InstIInv, Inst!CallKnows, CallBecomes
  <2> QED
    BY <2>1, LaunchKept, InstTypes
<1>2. s1' \in 0..MaxBuilds /\ s1 <= s1'
  BY InstTypes
<1> QED
  BY <1>1, <1>2, InstTypes, InstCaller

\* What the invariant says of one request and of the row.
LEMMA InstParts ==
  ASSUME Inst!InstIInv, NEW c \in InstCallers
  PROVE  /\ Inst!CallKnows(c) /\ Inst!RowCacheFresh /\ (s3 # 0 => s2 # 0)
         /\ s6[c].pc \in {"persist", "clear", "store"} => s6[c].fn # 0
         /\ s2 \in 0..s1 /\ s3 \in 0..s1 /\ s1 \in Nat
<1>1. s2 <= s1 /\ s3 <= s1
  BY DEF Inst!InstIInv
<1>2. s2 \in 0..s1 /\ s3 \in 0..s1 /\ s1 \in Nat
  BY <1>1, InstTypes
<1> QED
  BY <1>2 DEF Inst!InstIInv, Inst!InstTypeOK

\* Callers that leave, switch back to an earlier function or read the row.
LEMMA InstReads ==
  ASSUME Inst!InstAssumption, Inst!InstIInv, NEW c \in InstCallers,
         \/ Inst!CallerLeaves(c) \/ (\E fn \in 1..s1 : Inst!SwitchCall(c, fn))
         \/ Inst!ReadCache(c) \/ Inst!ReadRow(c) \/ Inst!StoreCache(c)
  PROVE  Inst!InstIInv'
<1> USE DEF Inst!Connector_, Inst!Goes
<1>0. s6 \in [InstCallers -> Inst!CallShape] /\ s1 \in Nat /\ s1 <= MaxBuilds /\ MaxBuilds \in Nat
  BY InstTypes DEF Inst!InstAssumption
<1>1. ASSUME NEW o, NEW p, NEW f, CallBecomes(c, o, p, f), UNCHANGED <<s1, s2, s3, s4, s5, s7, s8, s9, s10>>,
             p # "waiting", p # "relaunch", p # "new", s6[c].pc # "clear", f \in 0..s1,
             o = s6[c].op \/ (s6[c].pc = "new" /\ o # "reinstall"),
             p \in {"persist", "clear", "store"} => f # 0,
             p \in {"clear", "store", "done"} => s2 # 0, p \in {"db", "store"} => o = "read",
             p = "store" => f = s2
      PROVE  Inst!InstIInv'
  <2>1. Inst!CallKnows(c)'
    BY <1>0, <1>1, InstParts DEF Inst!CallKnows, CallBecomes
  <2>2. Inst!RowCacheFresh'
    BY <1>1, InstParts DEF Inst!RowCacheFresh, CallBecomes
  <2> QED
    BY <1>1, <2>1, <2>2, InstTypes, InstParts, InstRows
<1>2. s6[c].fn \in 0..s1
  BY <1>0, InstParts, InstTypes DEF Inst!CallKnows
<1>4. CASE Inst!CallerLeaves(c)
  <2>1. CallBecomes(c, s6[c].op, "canceled", s6[c].fn)
    BY <1>0, <1>4, CallMoves DEF Inst!CallerLeaves
  <2> QED
    BY <1>1, <1>2, <1>4, <2>1 DEF Inst!CallerLeaves
<1>5. ASSUME NEW fn \in 1..s1, Inst!SwitchCall(c, fn) PROVE Inst!InstIInv'
  <2>1. fn \in 0..MaxBuilds
    BY <1>0
  <2>2. CallBecomes(c, "switch", "persist", fn)
    BY <1>0, <1>5, <2>1, CallMoves DEF Inst!SwitchCall, CallOps, CallSteps
  <2>3. s6[c].pc = "new" /\ UNCHANGED <<s1, s2, s3, s4, s5, s7, s8, s9, s10>>
    BY <1>5 DEF Inst!SwitchCall
  <2>4. Inst!CallKnows(c)' /\ Inst!RowCacheFresh'
    BY <1>0, <2>2, <2>3, InstParts DEF Inst!CallKnows, Inst!RowCacheFresh, CallBecomes
  <2>5. fn # 0
    BY <1>0
  <2> QED
    BY <2>2, <2>3, <2>4, <2>5, InstTypes, InstParts, InstRows
<1>6. CASE Inst!ReadCache(c)
  <2>1. s6[c].pc = "new" /\ UNCHANGED <<s1, s2, s3, s4, s5, s7, s8, s9, s10>>
    BY <1>6 DEF Inst!ReadCache
  <2>2. CASE s3 # 0 /\ s6' = [s6 EXCEPT ![c].op = "read", ![c].pc = "done", ![c].fn = s3]
    <3>1. CallBecomes(c, "read", "done", s3)
      BY <1>0, <2>2, CallMoves, InstTypes DEF CallOps, CallSteps
    <3> QED
      BY <1>1, <2>1, <2>2, <3>1, InstParts
  <2>3. ASSUME NEW p \in {"db", "failed"}, s6' = [s6 EXCEPT ![c].op = "read", ![c].pc = p]
        PROVE  Inst!InstIInv'
    <3>1. CallBecomes(c, "read", p, s6[c].fn)
      BY <1>0, <2>3, CallMoves DEF CallOps, CallSteps
    <3> QED
      BY <1>1, <1>2, <2>1, <3>1
  <2> QED
    BY <1>6, <2>2, <2>3 DEF Inst!ReadCache
<1>7. CASE Inst!ReadRow(c)
  <2>1. s6[c].pc = "db" /\ UNCHANGED <<s1, s2, s3, s4, s5, s7, s8, s9, s10>>
    BY <1>7 DEF Inst!ReadRow
  <2>2. CASE s2 # 0 /\ s6' = [s6 EXCEPT ![c].pc = "store", ![c].fn = s2]
    <3>1. CallBecomes(c, s6[c].op, "store", s2)
      BY <1>0, <2>2, CallMoves, InstTypes DEF CallSteps
    <3>2. s6[c].op = "read"
      BY <2>1, InstParts DEF Inst!CallKnows
    <3> QED
      BY <1>1, <2>1, <2>2, <3>1, <3>2, InstParts
  <2>3. CASE s6' = [s6 EXCEPT ![c].pc = "failed"]
    <3>1. CallBecomes(c, s6[c].op, "failed", s6[c].fn)
      BY <1>0, <2>3, CallMoves DEF CallSteps
    <3> QED
      BY <1>1, <1>2, <2>1, <3>1
  <2> QED
    BY <1>7, <2>2, <2>3 DEF Inst!ReadRow
<1>8. CASE Inst!StoreCache(c)
  <2>1. CallBecomes(c, s6[c].op, "done", s6[c].fn)
    BY <1>0, <1>8, CallMoves DEF Inst!StoreCache, CallSteps
  <2>2. s6[c].pc = "store" /\ UNCHANGED <<s1, s2, s4, s5, s7, s8, s9, s10>> /\ s3' \in {s3, s6[c].fn}
    BY <1>8 DEF Inst!StoreCache
  <2>3. s3' \in 0..s1 /\ s2 # 0
    BY <1>2, <2>2, InstParts DEF Inst!CallKnows
  <2>4. Inst!CallKnows(c)' /\ Inst!RowCacheFresh'
    BY <2>1, <2>2, InstParts DEF Inst!CallKnows, Inst!RowCacheFresh, CallBecomes
  <2> QED
    BY <2>1, <2>2, <2>3, <2>4, InstTypes, InstParts, InstRows
<1> QED
  BY <1>4, <1>5, <1>6, <1>7, <1>8

\* The row is written and the cache cleared.
LEMMA InstWrites ==
  ASSUME Inst!InstAssumption, Inst!InstIInv, NEW c \in InstCallers,
         Inst!Persist(c) \/ Inst!ClearCache(c)
  PROVE  Inst!InstIInv'
<1> USE DEF Inst!Goes, Inst!Connector_
<1>0. s6 \in [InstCallers -> Inst!CallShape] /\ s1 \in Nat /\ s9 \in BOOLEAN
  BY InstTypes
<1>2. s6[c].fn \in 0..s1
  BY <1>0, InstParts, InstTypes DEF Inst!CallKnows
<1>3. CASE Inst!Persist(c)
  <2>1. s6[c].pc = "persist" /\ UNCHANGED <<s1, s3, s4, s5, s7, s8, s10>>
    BY <1>3 DEF Inst!Persist
  <2>2. CASE /\ s2' = s6[c].fn /\ s6' = [s6 EXCEPT ![c].pc = "clear"]
             /\ s9' = (s9 \/ Inst!ReadersHold)
    <3>1. CallBecomes(c, s6[c].op, "clear", s6[c].fn)
      BY <1>0, <2>2, CallMoves DEF CallSteps
    <3>2. s9' \in BOOLEAN /\ (s9 => s9') /\ (~s9' => ~Inst!ReadersHold)
      BY <1>0, <2>2, Zenon
    <3>3. s6[c].fn # 0
      BY <2>1, InstParts
    <3>4. Inst!CallKnows(c)' /\ Inst!RowCacheFresh'
      BY <2>1, <2>2, <3>1, <3>3, InstParts DEF Inst!CallKnows, Inst!RowCacheFresh, CallBecomes
    <3>5. s2' \in 0..s1 /\ s2' # 0
      BY <1>2, <2>2, <3>3
    <3> QED
      BY <1>0, <2>1, <3>1, <3>2, <3>3, <3>4, <3>5, InstParts, InstRows
  <2>3. CASE s6' = [s6 EXCEPT ![c].pc = "failed"] /\ s2' = s2 /\ s9' = s9
    <3>1. CallBecomes(c, s6[c].op, "failed", s6[c].fn)
      BY <1>0, <2>3, CallMoves DEF CallSteps
    <3>2. Inst!CallKnows(c)' /\ Inst!RowCacheFresh'
      BY <2>1, <2>3, <3>1, InstParts DEF Inst!CallKnows, Inst!RowCacheFresh, CallBecomes
    <3> QED
      BY <1>0, <2>1, <2>3, <3>1, <3>2, InstParts, InstRows
  <2> QED
    BY <1>3, <2>2, <2>3, Zenon DEF Inst!Persist
<1>4. CASE Inst!ClearCache(c)
  <2>1. s6[c].pc = "clear" /\ UNCHANGED <<s1, s2, s4, s5, s7, s8, s10>> /\ s2 # 0
    BY <1>4, InstParts DEF Inst!ClearCache, Inst!CallKnows
  <2>2. CASE s3' = 0 /\ s6' = [s6 EXCEPT ![c].pc = "done"] /\ s9' = s9
    <3>1. CallBecomes(c, s6[c].op, "done", s6[c].fn)
      BY <1>0, <2>2, CallMoves DEF CallSteps
    <3>2. Inst!CallKnows(c)' /\ Inst!RowCacheFresh'
      BY <2>1, <2>2, <3>1, InstParts DEF Inst!CallKnows, Inst!RowCacheFresh, CallBecomes
    <3>3. s3' \in 0..s1
      BY <1>0, <2>2
    <3> QED
      BY <1>0, <2>1, <2>2, <3>1, <3>2, <3>3, InstParts, InstRows
  <2>3. CASE s9' = TRUE /\ s6' = [s6 EXCEPT ![c].pc = "failed"] /\ s3' = s3
    <3>1. CallBecomes(c, s6[c].op, "failed", s6[c].fn)
      BY <1>0, <2>3, CallMoves DEF CallSteps
    <3>2. Inst!CallKnows(c)' /\ Inst!RowCacheFresh'
      BY <2>1, <2>3, <3>1, InstParts DEF Inst!CallKnows, Inst!RowCacheFresh, CallBecomes
    <3> QED
      BY <1>0, <2>1, <2>3, <3>1, <3>2, InstParts, InstRows
  <2> QED
    BY <1>4, <2>2, <2>3, Zenon DEF Inst!ClearCache
<1> QED
  BY <1>3, <1>4

\* What the updates of the actions make of a launch.
FlightBecomes(d, p, f) ==
  /\ s4' \in [InstDaemons -> Inst!FlightShape] /\ (\A e \in InstDaemons \ {d} : s4'[e] = s4[e])
  /\ s4'[d].pc = p /\ s4'[d].fn = f /\ s4'[d].owner = s4[d].owner

LEMMA FlightMoves ==
  ASSUME s4 \in [InstDaemons -> Inst!FlightShape], NEW d \in InstDaemons,
         NEW p \in {"lock", "again", "setup", "build", "built", "closed"}, NEW f \in 0..MaxBuilds,
         Inst!FlightGoes(d, p, f)
  PROVE  FlightBecomes(d, p, f)
<1> DEFINE w == [s4[d] EXCEPT !.pc = p, !.fn = f]
<1>1. w \in Inst!FlightShape /\ w.pc = p /\ w.fn = f /\ w.owner = s4[d].owner
  <2>1. s4[d] \in Inst!FlightShape
    OBVIOUS
  <2> QED
    BY <2>1, Zenon DEF Inst!FlightShape
<1>2. s4' = [s4 EXCEPT ![d] = w]
  BY DEF Inst!FlightGoes
<1> HIDE DEF w
<1> QED
  BY <1>1, <1>2 DEF FlightBecomes

\* A step of launches, lock or connector that the callers do not see.
LEMMA InstUnseen ==
  ASSUME Inst!InstAssumption, Inst!InstIInv, UNCHANGED <<s2, s3, s6, s9>>,
         s1' \in 0..MaxBuilds, s1 <= s1', s10 \subseteq s10', LaunchKnown',
         \A d \in InstDaemons : s4[d].pc # "none" => s4'[d].pc # "none"
  PROVE  Inst!InstIInv'
<1>0. s1 \in Nat /\ s1' \in Nat /\ s2 \in Nat /\ s3 \in Nat /\ MaxBuilds \in Nat
      /\ DaemonOf \in [InstCallers -> InstDaemons] /\ \A c \in InstCallers : s6[c].fn \in Nat
  BY InstTypes DEF Inst!InstAssumption
<1>1. s2' <= s1' /\ s3' <= s1' /\ (s3' # 0 => s2' # 0) /\ Inst!RowCacheFresh'
  BY <1>0 DEF Inst!InstIInv, Inst!RowCacheFresh
<1>2. Inst!InstTypeOK'
  <2>1. \A c \in InstCallers : s6'[c].pc \in {"persist", "clear", "store"} => s6'[c].fn # 0
    BY DEF Inst!InstIInv, Inst!InstTypeOK
  <2>2. LaunchTyped'
    BY DEF LaunchKnown
  <2> QED
    BY <2>1, <2>2, InstTypes, InstTyped
<1>3. Inst!FollowersServed'
  BY <1>0 DEF Inst!InstIInv, Inst!FollowersServed
<1>4. \A c \in InstCallers : Inst!CallKnows(c)'
  BY <1>0 DEF Inst!InstIInv, Inst!CallKnows
<1> QED
  BY <1>1, <1>2, <1>3, <1>4 DEF Inst!InstIInv, LaunchKnown

\* A function built for an excused launch, or for the one that holds the lock.
LEMMA BuildKnown ==
  ASSUME Inst!InstAssumption, Inst!InstIInv, NEW c \in InstCallers, Inst!Builds(c), s10' = s10,
         \/ c \in s10
         \/ /\ \A i \in 1..s1 : s7[i] \in s10
            /\ \A d \in InstDaemons : s4'[d].pc \in {"setup", "build"} => s4'[d].owner \in s10
  PROVE  /\ s1' \in 0..MaxBuilds /\ s1 <= s1' /\ s1' = s1 + 1
         /\ s7' \in [1..MaxBuilds -> {"none"} \cup InstCallers] /\ Inst!BuiltOnce'
         /\ \A d \in InstDaemons :
              s4'[d].pc \in {"setup", "build"} /\ s4'[d].owner \notin s10
                /\ (\A i \in 1..s1 : s7[i] \in s10) => \A i \in 1..s1' : s7'[i] \in s10
<1>0. s1 \in Nat /\ s1 < MaxBuilds /\ MaxBuilds \in Nat /\ s1' = s1 + 1 /\ s10' = s10
      /\ s7 \in [1..MaxBuilds -> {"none"} \cup InstCallers] /\ s7' = [s7 EXCEPT ![s1 + 1] = c]
  BY InstTypes DEF Inst!Builds, Inst!InstAssumption, LaunchTyped
<1>1. /\ s7' \in [1..MaxBuilds -> {"none"} \cup InstCallers] /\ s7'[s1 + 1] = c
      /\ \A i \in 1..s1 : s7'[i] = s7[i]
  BY <1>0
<1>2. \A i \in 1..s1' : i \in 1..s1 \/ i = s1 + 1
  BY <1>0
<1>3. Inst!BuiltOnce
  BY DEF Inst!InstIInv
<1>4. Inst!BuiltOnce'
  <2> SUFFICES ASSUME NEW i \in 1..s1', NEW j \in 1..s1', s7'[i] \notin s10, s7'[j] \notin s10
               PROVE  i = j
    BY <1>0 DEF Inst!BuiltOnce
  <2>1. CASE i \in 1..s1 /\ j \in 1..s1
    BY <1>1, <1>3, <2>1 DEF Inst!BuiltOnce
  <2>2. CASE i = s1 + 1 /\ j \in 1..s1
    BY <1>1, <2>2
  <2>3. CASE j = s1 + 1 /\ i \in 1..s1
    BY <1>1, <2>3
  <2> QED
    BY <1>2, <2>1, <2>2, <2>3
<1>5. \A d \in InstDaemons :
        s4'[d].pc \in {"setup", "build"} /\ s4'[d].owner \notin s10
          /\ (\A i \in 1..s1 : s7[i] \in s10) => \A i \in 1..s1' : s7'[i] \in s10
  <2> SUFFICES ASSUME NEW d \in InstDaemons, s4'[d].pc \in {"setup", "build"}, s4'[d].owner \notin s10,
                      \A i \in 1..s1 : s7[i] \in s10, NEW i \in 1..s1'
               PROVE  s7'[i] \in s10
    OBVIOUS
  <2>1. c \in s10
    OBVIOUS
  <2> QED
    BY <1>1, <1>2, <2>1
<1> QED
  BY <1>0, <1>1, <1>4, <1>5

\* The connector ends a build that was given up.
LEMMA InstLate ==
  ASSUME Inst!InstAssumption, Inst!InstIInv, NEW c \in InstCallers, Inst!LateBuild(c)
  PROVE  Inst!InstIInv'
<1>1. UNCHANGED <<s2, s3, s4, s5, s6, s9, s10>> /\ Inst!Builds(c) /\ c \in s8 /\ s8' = s8 \ {c}
  BY DEF Inst!LateBuild
<1>2. LaunchKnown /\ s1 \in Nat
  BY InstTypes
<1>3. c \in s10
  BY <1>1, <1>2 DEF LaunchKnown
<1>4. /\ s1' \in 0..MaxBuilds /\ s1 <= s1' /\ s1' = s1 + 1
      /\ s7' \in [1..MaxBuilds -> {"none"} \cup InstCallers] /\ Inst!BuiltOnce'
      /\ \A d \in InstDaemons :
           s4'[d].pc \in {"setup", "build"} /\ s4'[d].owner \notin s10
             /\ (\A i \in 1..s1 : s7[i] \in s10) => \A i \in 1..s1' : s7'[i] \in s10
  BY <1>1, <1>3, BuildKnown
<1>5. LaunchTyped' /\ s8' \subseteq s10'
  BY <1>1, <1>2, <1>4 DEF LaunchKnown, LaunchTyped
<1>6. Inst!OneBuilder'
  <2>1. \A d \in InstDaemons : s4[d].fn \in Nat
    BY <1>2 DEF LaunchKnown, LaunchTyped, Inst!FlightShape
  <2> QED
    BY <1>1, <1>2, <1>4, <2>1 DEF LaunchKnown, Inst!OneBuilder, Inst!Unbuilt
<1>7. Inst!LockIsOfALaunch'
  BY <1>1, <1>2 DEF LaunchKnown, Inst!LockIsOfALaunch, Inst!Unbuilt
<1> QED
  BY <1>1, <1>4, <1>5, <1>6, <1>7, InstUnseen DEF LaunchKnown

\* Callers that ask for a launch, and a reinstall that builds a function.
LEMMA InstAsks ==
  ASSUME Inst!InstAssumption, Inst!InstIInv, NEW c \in InstCallers,
         Inst!InstallCall(c) \/ Inst!ReinstallCall(c) \/ Inst!ReinstallBuilt(c) \/ Inst!ReinstallCloses(c)
  PROVE  Inst!InstIInv'
<1> USE DEF Inst!Goes, Inst!Connector_
<1>0. /\ s6 \in [InstCallers -> Inst!CallShape] /\ s1 \in Nat /\ s1 <= MaxBuilds /\ MaxBuilds \in Nat
      /\ s9 \in BOOLEAN /\ DaemonOf[c] \in InstDaemons /\ {"none", "nobody"} \cap InstCallers = {}
      /\ LaunchKnown /\ s4 \in [InstDaemons -> Inst!FlightShape]
      /\ s5 \in {"none", "nobody"} \cup InstCallers
  BY InstTypes DEF Inst!InstAssumption, LaunchTyped
<1>1. s6[c].fn \in 0..s1
  BY <1>0, InstParts, InstTypes DEF Inst!CallKnows
<1>2. ASSUME NEW o, NEW p, NEW f, CallBecomes(c, o, p, f), s6[c].pc # "clear", p # "clear",
             UNCHANGED <<s2, s3, s9>>
      PROVE  Inst!RowCacheFresh'
  BY <1>2, InstParts DEF Inst!RowCacheFresh, CallBecomes
<1>3. CASE Inst!InstallCall(c)
  <2> DEFINE d == DaemonOf[c]
             new == [pc |-> "fetch", owner |-> c, fn |-> 0]
  <2>1. s6[c].pc = "new" /\ UNCHANGED <<s1, s2, s3, s5, s7, s8, s9, s10>>
    BY <1>3 DEF Inst!InstallCall
  <2>2. CallBecomes(c, "install", "waiting", s6[c].fn)
    BY <1>0, <1>3, CallMoves DEF Inst!InstallCall, CallSteps, CallOps
  <2>3. new \in Inst!FlightShape /\ new.pc = "fetch" /\ new.owner = c /\ new.fn = 0
    BY <1>0 DEF Inst!FlightShape
  <2>4. s4' = IF s4[d].pc = "none" THEN [s4 EXCEPT ![d] = new] ELSE s4
    BY <1>3 DEF Inst!InstallCall
  <2> HIDE DEF new
  <2>5. /\ s4' \in [InstDaemons -> Inst!FlightShape] /\ s4'[d].pc # "none"
        /\ \A e \in InstDaemons : s4'[e] = s4[e] \/ (s4'[e] = new /\ e = d /\ s4[e].pc = "none")
    BY <1>0, <2>3, <2>4
  <2>6. Inst!CallKnows(c)'
    BY <1>1, <2>1, <2>2, InstParts DEF Inst!CallKnows, CallBecomes
  <2>7. Inst!RowCacheFresh'
    BY <1>2, <2>1, <2>2
  <2>8. s1' \in 0..MaxBuilds /\ s1 <= s1' /\ s2' \in 0..s1' /\ s3' \in 0..s1'
    BY <1>0, <2>1, InstParts
  <2>9. \A e \in InstDaemons : s4[e].pc # "none" => s4'[e].pc # "none"
    BY <2>5
  <2>10. s4'[DaemonOf[c]].pc # "none"
    BY <2>5
  <2>11. LaunchTyped' /\ Inst!BuiltOnce' /\ s8' \subseteq s10'
    BY <1>0, <2>1, <2>5 DEF LaunchKnown, LaunchTyped, Inst!BuiltOnce
  <2>12. Inst!OneBuilder'
    BY <1>0, <2>1, <2>3, <2>5 DEF LaunchKnown, Inst!OneBuilder, Inst!Unbuilt
  <2>13. Inst!LockIsOfALaunch'
    <3>1. \A b \in InstCallers : s6[b].op = "reinstall" => s6'[b].op = "reinstall"
      BY <2>1, <2>2, InstParts DEF Inst!CallKnows, CallBecomes
    <3> QED
      BY <1>0, <2>1, <2>5, <3>1 DEF LaunchKnown, Inst!LockIsOfALaunch, Inst!Unbuilt
  <2>14. LaunchKnown'
    BY <2>11, <2>12, <2>13 DEF LaunchKnown
  <2> HIDE DEF d
  <2> QED
    BY <1>0, <2>1, <2>2, <2>6, <2>7, <2>8, <2>9, <2>10, <2>14, InstParts, InstCaller
<1>4. CASE Inst!ReinstallCall(c)
  <2>1. s6[c].pc = "new" /\ UNCHANGED <<s1, s2, s3, s4, s7, s8, s9>> /\ s10' = s10 \cup {c}
    BY <1>4 DEF Inst!ReinstallCall
  <2>2. CallBecomes(c, "reinstall", "relaunch", s6[c].fn)
    BY <1>0, <1>4, CallMoves DEF Inst!ReinstallCall, CallSteps, CallOps
  <2>3. s5' = s5 \/ (s5 = "none" /\ s5' \in {c, "nobody"})
    BY <1>4 DEF Inst!ReinstallCall, Inst!Acquires, Inst!GoesOnUnlocked
  <2>4. Inst!CallKnows(c)'
    BY <1>1, <2>1, <2>2 DEF Inst!CallKnows, CallBecomes
  <2>5. Inst!RowCacheFresh'
    BY <1>2, <2>1, <2>2
  <2>6. s1' \in 0..MaxBuilds /\ s1 <= s1' /\ s2' \in 0..s1' /\ s3' \in 0..s1'
    BY <1>0, <2>1, InstParts
  <2>7. LaunchTyped' /\ Inst!BuiltOnce' /\ s8' \subseteq s10'
    BY <1>0, <2>1, <2>3 DEF LaunchKnown, LaunchTyped, Inst!BuiltOnce
  <2>8. Inst!OneBuilder'
    BY <1>0, <2>1, <2>3 DEF LaunchKnown, Inst!OneBuilder, Inst!Unbuilt
  <2>9. Inst!LockIsOfALaunch'
    BY <1>0, <2>1, <2>2, <2>3 DEF LaunchKnown, Inst!LockIsOfALaunch, Inst!Unbuilt, CallBecomes
  <2>10. LaunchKnown'
    BY <2>7, <2>8, <2>9 DEF LaunchKnown
  <2> QED
    BY <1>0, <2>1, <2>2, <2>4, <2>5, <2>6, <2>10, InstParts, InstCaller
<1>5. CASE Inst!ReinstallBuilt(c)
  <2>1. s6[c].pc = "relaunch" /\ UNCHANGED <<s2, s3, s4, s5, s9, s10>> /\ c \in s10
    BY <1>5, InstParts DEF Inst!ReinstallBuilt, Inst!CallKnows
  <2>4. ASSUME NEW p \in {"persist", "failed"}, NEW f \in 0..s1', CallBecomes(c, s6[c].op, p, f),
               p = "persist" => f # 0, LaunchKnown', s1' \in 0..MaxBuilds, s1 <= s1'
        PROVE  Inst!InstIInv'
    <3>1. Inst!CallKnows(c)'
      BY <2>1, <2>4 DEF Inst!CallKnows, CallBecomes
    <3>2. Inst!RowCacheFresh'
      BY <1>2, <2>1, <2>4
    <3>3. s2' \in 0..s1' /\ s3' \in 0..s1'
      BY <1>0, <2>1, <2>4, InstParts
    <3> QED
      BY <1>0, <2>1, <2>4, <3>1, <3>2, <3>3, InstParts, InstCaller
  <2>5. CASE Inst!Builds(c) /\ UNCHANGED s8 /\ s6' = [s6 EXCEPT ![c].pc = "persist", ![c].fn = s1 + 1]
    <3>1. /\ s1' \in 0..MaxBuilds /\ s1 <= s1' /\ s1' = s1 + 1
          /\ s7' \in [1..MaxBuilds -> {"none"} \cup InstCallers] /\ Inst!BuiltOnce'
          /\ \A d \in InstDaemons :
               s4'[d].pc \in {"setup", "build"} /\ s4'[d].owner \notin s10
                 /\ (\A i \in 1..s1 : s7[i] \in s10) => \A i \in 1..s1' : s7'[i] \in s10
      BY <2>1, <2>5, BuildKnown
    <3>2. s1 + 1 \in 0..MaxBuilds /\ s1 + 1 \in 0..s1' /\ s1 + 1 # 0
      BY <1>0, <3>1
    <3>3. CallBecomes(c, s6[c].op, "persist", s1 + 1)
      BY <1>0, <2>5, <3>2, CallMoves DEF CallSteps
    <3>4. LaunchTyped' /\ s8' \subseteq s10'
      BY <1>0, <2>1, <2>5, <3>1 DEF LaunchKnown, LaunchTyped
    <3>5. Inst!OneBuilder'
      <4>1. \A d \in InstDaemons : s4[d].fn \in Nat
        BY <1>0 DEF Inst!FlightShape
      <4> QED
        BY <1>0, <2>1, <3>1, <4>1 DEF LaunchKnown, Inst!OneBuilder, Inst!Unbuilt
    <3>6. Inst!LockIsOfALaunch'
      BY <1>0, <2>1, <3>3 DEF LaunchKnown, Inst!LockIsOfALaunch, Inst!Unbuilt, CallBecomes
    <3>7. LaunchKnown'
      BY <3>1, <3>4, <3>5, <3>6 DEF LaunchKnown
    <3> QED
      BY <2>4, <3>1, <3>2, <3>3, <3>7
  <2>6. CASE s6' = [s6 EXCEPT ![c].pc = "failed"] /\ s8' \in {s8, s8 \cup {c}} /\ UNCHANGED <<s1, s7>>
    <3>1. CallBecomes(c, s6[c].op, "failed", s6[c].fn)
      BY <1>0, <2>6, CallMoves DEF CallSteps
    <3>2. s6[c].fn \in 0..s1' /\ s1' \in 0..MaxBuilds /\ s1 <= s1'
      BY <1>0, <1>1, <2>6
    <3>3. LaunchTyped' /\ s8' \subseteq s10' /\ Inst!BuiltOnce' /\ Inst!OneBuilder'
      BY <1>0, <2>1, <2>6 DEF LaunchKnown, LaunchTyped, Inst!BuiltOnce, Inst!OneBuilder, Inst!Unbuilt
    <3>4. Inst!LockIsOfALaunch'
      BY <1>0, <2>1, <3>1 DEF LaunchKnown, Inst!LockIsOfALaunch, Inst!Unbuilt, CallBecomes
    <3>5. LaunchKnown'
      BY <3>3, <3>4 DEF LaunchKnown
    <3> QED
      BY <2>4, <3>1, <3>2, <3>5
  <2> QED
    BY <1>5, <2>5, <2>6 DEF Inst!ReinstallBuilt
<1>6. CASE Inst!ReinstallCloses(c)
  <2>1. UNCHANGED <<s1, s2, s3, s4, s6, s7, s8, s9, s10>> /\ s5 = c /\ s5' \in {"none", "nobody"}
        /\ s6[c].op = "reinstall"
    BY <1>6 DEF Inst!ReinstallCloses, Inst!Unlock
  <2>2. LaunchTyped' /\ s8' \subseteq s10' /\ Inst!BuiltOnce' /\ Inst!LockIsOfALaunch'
    BY <1>0, <2>1 DEF LaunchKnown, LaunchTyped, Inst!BuiltOnce, Inst!LockIsOfALaunch
  <2>3. Inst!OneBuilder'
    <3>1. \A d \in InstDaemons : Inst!Unbuilt(d) => s4[d].owner # c \/ s4[d].owner \in s10
      BY <2>1, InstParts DEF Inst!CallKnows
    <3> QED
      BY <1>0, <2>1, <3>1 DEF LaunchKnown, Inst!OneBuilder, Inst!Unbuilt
  <2>4. s1' \in 0..MaxBuilds /\ s1 <= s1' /\ LaunchKnown'
    BY <1>0, <2>1, <2>2, <2>3 DEF LaunchKnown
  <2> QED
    BY <2>1, <2>4, InstUnseen
<1> QED
  BY <1>3, <1>4, <1>5, <1>6

\* The end of a launch: those who wait for it get its answer, and the others are left alone.
LEMMA InstAnswer ==
  ASSUME Inst!InstAssumption, Inst!InstIInv, NEW d \in InstDaemons, NEW fn \in 0..s1,
         Inst!Answered(d, fn), UNCHANGED <<s1, s2, s3, s5, s7, s8, s9, s10>>,
         s4[d].pc \in {"fetch", "closed"}
  PROVE  Inst!InstIInv'
<1>0. /\ s6 \in [InstCallers -> Inst!CallShape] /\ s1 \in Nat /\ s1' \in Nat /\ MaxBuilds \in Nat
      /\ s9 \in BOOLEAN /\ fn \in 0..MaxBuilds /\ LaunchKnown /\ s1' \in 0..MaxBuilds
      /\ s4 \in [InstDaemons -> Inst!FlightShape] /\ DaemonOf \in [InstCallers -> InstDaemons]
  BY InstTypes DEF Inst!InstAssumption, LaunchTyped
<1>1. /\ s4' \in [InstDaemons -> Inst!FlightShape] /\ s4'[d].pc = "none" /\ s4'[d].fn = 0
      /\ \A e \in InstDaemons \ {d} : s4'[e] = s4[e]
  <2>1. Inst!NoFlight \in Inst!FlightShape /\ Inst!NoFlight.pc = "none" /\ Inst!NoFlight.fn = 0
    BY <1>0 DEF Inst!NoFlight, Inst!FlightShape
  <2>2. s4' = [s4 EXCEPT ![d] = Inst!NoFlight]
    BY DEF Inst!Answered
  <2> QED
    BY <1>0, <2>1, <2>2
<1>2. ASSUME NEW c \in InstCallers
      PROVE  /\ s6'[c] \in Inst!CallShape /\ s6'[c].op = s6[c].op
             /\ DaemonOf[c] = d /\ s6[c].pc = "waiting"
                  => s6'[c].pc = (IF fn = 0 THEN "failed" ELSE "persist") /\ s6'[c].fn = fn
             /\ ~(DaemonOf[c] = d /\ s6[c].pc = "waiting") => s6'[c] = s6[c]
  <2> DEFINE p == IF fn = 0 THEN "failed" ELSE "persist"
             w == [s6[c] EXCEPT !.pc = p, !.fn = fn]
  <2>1. p \in {"failed", "persist"} /\ s6[c] \in Inst!CallShape
    BY <1>0
  <2>2. s6'[c] = IF DaemonOf[c] = d /\ s6[c].pc = "waiting" THEN w ELSE s6[c]
    BY DEF Inst!Answered, Inst!Waiting
  <2> HIDE DEF p
  <2>3. w \in Inst!CallShape /\ w.pc = p /\ w.fn = fn /\ w.op = s6[c].op
    BY <1>0, <2>1, Zenon DEF Inst!CallShape
  <2> HIDE DEF w
  <2> QED
    BY <2>1, <2>2, <2>3 DEF p
<1>3. s6' \in [InstCallers -> Inst!CallShape]
  <2>1. s6' = [c \in InstCallers |-> s6'[c]]
    BY DEF Inst!Answered
  <2> QED
    BY <1>2, <2>1, Zenon
<1>4. /\ s2' \in 0..MaxBuilds /\ s3' \in 0..MaxBuilds
      /\ s2' <= s1' /\ s3' <= s1' /\ (s3' # 0 => s2' # 0)
  BY <1>0, InstTypes DEF Inst!InstIInv
<1>8. LaunchKnown'
  <2>1. LaunchTyped' /\ Inst!BuiltOnce' /\ s8' \subseteq s10'
    BY <1>0, <1>1 DEF LaunchKnown, LaunchTyped, Inst!BuiltOnce
  <2>2. Inst!OneBuilder'
    BY <1>0, <1>1 DEF LaunchKnown, Inst!OneBuilder, Inst!Unbuilt
  <2>3. Inst!LockIsOfALaunch'
    BY <1>0, <1>1, <1>2 DEF LaunchKnown, Inst!LockIsOfALaunch, Inst!Unbuilt
  <2> QED
    BY <2>1, <2>2, <2>3 DEF LaunchKnown
<1>5. Inst!InstTypeOK'
  <2>1. \A c \in InstCallers : s6'[c].pc \in {"persist", "clear", "store"} => s6'[c].fn # 0
    BY <1>2 DEF Inst!InstIInv, Inst!InstTypeOK
  <2> QED
    BY <1>0, <1>3, <1>4, <1>8, <2>1, InstTyped DEF LaunchKnown
<1>6. Inst!FollowersServed'
  BY <1>0, <1>1, <1>2 DEF Inst!InstIInv, Inst!FollowersServed
<1>7. ASSUME NEW c \in InstCallers PROVE Inst!CallKnows(c)'
  <2>1. s6[c].fn \in Nat
    BY <1>0, InstTypes
  <2>2. CASE DaemonOf[c] = d /\ s6[c].pc = "waiting"
    BY <1>0, <1>2, <2>2, InstParts DEF Inst!CallKnows
  <2>3. CASE ~(DaemonOf[c] = d /\ s6[c].pc = "waiting")
    BY <1>0, <1>2, <2>1, <2>3 DEF Inst!InstIInv, Inst!CallKnows
  <2> QED
    BY <2>2, <2>3
<1>9. Inst!RowCacheFresh'
  <2>1. \A c \in InstCallers : s6[c].pc = "clear" => s6'[c].pc = "clear"
    BY <1>2
  <2> QED
    BY <2>1 DEF Inst!InstIInv, Inst!RowCacheFresh
<1> QED
  BY <1>4, <1>5, <1>6, <1>7, <1>8, <1>9 DEF Inst!InstIInv, LaunchKnown

\* The stream of a launch closes, with or without the launch being excused.
LEMMA InstCloses ==
  ASSUME Inst!InstAssumption, Inst!InstIInv, NEW d \in InstDaemons, NEW fn \in 0..s1,
         Inst!Closes(d, fn), UNCHANGED <<s1, s2, s3, s6, s7, s9>>,
         s4[d].pc \in {"again", "setup", "build", "built"},
         \/ UNCHANGED <<s8, s10>>
         \/ Inst!Abandons(s4[d].owner)
  PROVE  Inst!InstIInv'
<1>0. /\ s1 \in Nat /\ MaxBuilds \in Nat /\ fn \in 0..MaxBuilds /\ LaunchKnown
      /\ s4 \in [InstDaemons -> Inst!FlightShape] /\ s4[d].owner \in InstCallers
      /\ s5 \in {"none", "nobody"} \cup InstCallers /\ s1' \in 0..MaxBuilds /\ s1 <= s1'
      /\ {"none", "nobody"} \cap InstCallers = {}
  BY InstTypes DEF Inst!InstAssumption, LaunchTyped, LaunchKnown, Inst!OneBuilder
<1>1. FlightBecomes(d, "closed", fn)
  BY <1>0, FlightMoves DEF Inst!Closes
<1>2. (s5 = s4[d].owner /\ s5' \in {"none", "nobody"}) \/ (s5 # s4[d].owner /\ s5' = s5)
  BY DEF Inst!Closes, Inst!Unlock
<1>3. s10' \in {s10, s10 \cup {s4[d].owner}} /\ s8' \subseteq s10' /\ s8' \subseteq InstCallers
  BY <1>0 DEF Inst!Abandons, LaunchKnown, LaunchTyped
<1>4. LaunchTyped' /\ Inst!BuiltOnce' /\ s8' \subseteq s10'
  BY <1>0, <1>1, <1>2, <1>3 DEF LaunchKnown, LaunchTyped, Inst!BuiltOnce, FlightBecomes
<1>5. Inst!OneBuilder'
  <2> SUFFICES ASSUME NEW e \in InstDaemons
               PROVE  (/\ s4[e].pc # "none" => s4[e].owner \in InstCallers /\ DaemonOf[s4[e].owner] = e
                       /\ s4[e].fn <= s1
                       /\ Inst!Unbuilt(e) /\ s4[e].owner \notin s10 => s5 = s4[e].owner
                       /\ s4[e].pc \in {"setup", "build"} /\ s4[e].owner \notin s10
                            => \A i \in 1..s1 : s7[i] \in s10)'
    BY DEF Inst!OneBuilder
  <2>1. CASE e = d
    BY <1>0, <1>1, <2>1 DEF FlightBecomes, LaunchKnown, Inst!OneBuilder, Inst!Unbuilt
  <2>2. CASE e # d
    BY <1>0, <1>1, <1>2, <1>3, <2>2 DEF FlightBecomes, LaunchKnown, Inst!OneBuilder, Inst!Unbuilt
  <2> QED
    BY <2>1, <2>2
<1>6. Inst!LockIsOfALaunch'
  BY <1>0, <1>1, <1>2 DEF FlightBecomes, LaunchKnown, Inst!LockIsOfALaunch, Inst!Unbuilt
<1>7. LaunchKnown' /\ s10 \subseteq s10' /\ \A e \in InstDaemons : s4[e].pc # "none" => s4'[e].pc # "none"
  BY <1>1, <1>3, <1>4, <1>5, <1>6 DEF LaunchKnown, FlightBecomes
<1> QED
  BY <1>0, <1>7, InstUnseen

\* A launch that goes on with the lock or without it.
LEMMA InstGoesOn ==
  ASSUME Inst!InstAssumption, Inst!InstIInv, NEW d \in InstDaemons, NEW p \in {"lock", "again", "setup", "build"},
         Inst!FlightGoes(d, p, 0), UNCHANGED <<s1, s2, s3, s6, s7, s8, s9>>, s4[d].pc # "none",
         s10' \in {s10, s10 \cup {s4[d].owner}},
         s5' = s5 \/ (s5 = "none" /\ s5' \in {"nobody", s4[d].owner}),
         s5' = s4[d].owner /\ s5' # s5 => p = "again",
         p # "lock" /\ s4[d].owner \notin s10' => s5' = s4[d].owner,
         p = "build" => s4[d].pc = "setup", p = "setup" => s1 = 0, p = "lock" => s4[d].pc = "fetch"
  PROVE  Inst!InstIInv'
<1>0. /\ s1 \in Nat /\ MaxBuilds \in Nat /\ 0 \in 0..MaxBuilds /\ LaunchKnown
      /\ s4 \in [InstDaemons -> Inst!FlightShape] /\ s4[d].owner \in InstCallers
      /\ s5 \in {"none", "nobody"} \cup InstCallers /\ s1' \in 0..MaxBuilds /\ s1 <= s1'
      /\ {"none", "nobody"} \cap InstCallers = {} /\ s10 \subseteq InstCallers
  BY InstTypes DEF Inst!InstAssumption, LaunchTyped, LaunchKnown, Inst!OneBuilder
<1>1. FlightBecomes(d, p, 0)
  BY <1>0, FlightMoves
<1>4. LaunchTyped' /\ Inst!BuiltOnce' /\ s8' \subseteq s10'
  BY <1>0, <1>1 DEF LaunchKnown, LaunchTyped, Inst!BuiltOnce, FlightBecomes
<1>5. Inst!OneBuilder'
  <2> SUFFICES ASSUME NEW e \in InstDaemons
               PROVE  (/\ s4[e].pc # "none" => s4[e].owner \in InstCallers /\ DaemonOf[s4[e].owner] = e
                       /\ s4[e].fn <= s1
                       /\ Inst!Unbuilt(e) /\ s4[e].owner \notin s10 => s5 = s4[e].owner
                       /\ s4[e].pc \in {"setup", "build"} /\ s4[e].owner \notin s10
                            => \A i \in 1..s1 : s7[i] \in s10)'
    BY DEF Inst!OneBuilder
  <2>1. CASE e = d
    BY <1>0, <1>1, <2>1 DEF FlightBecomes, LaunchKnown, Inst!OneBuilder, Inst!Unbuilt
  <2>2. CASE e # d
    BY <1>0, <1>1, <2>2 DEF FlightBecomes, LaunchKnown, Inst!OneBuilder, Inst!Unbuilt
  <2> QED
    BY <2>1, <2>2
<1>6. Inst!LockIsOfALaunch'
  BY <1>0, <1>1 DEF FlightBecomes, LaunchKnown, Inst!LockIsOfALaunch, Inst!Unbuilt
<1>7. LaunchKnown' /\ s10 \subseteq s10' /\ \A e \in InstDaemons : s4[e].pc # "none" => s4'[e].pc # "none"
  BY <1>1, <1>4, <1>5, <1>6 DEF LaunchKnown, FlightBecomes
<1> QED
  BY <1>0, <1>7, InstUnseen

\* The connector builds the function of a launch under way.
LEMMA InstBuilt ==
  ASSUME Inst!InstAssumption, Inst!InstIInv, NEW d \in InstDaemons, Inst!FlightBuilt(d)
  PROVE  Inst!InstIInv'
<1>0. /\ s1 \in Nat /\ MaxBuilds \in Nat /\ LaunchKnown /\ s4[d].pc = "build"
      /\ s4 \in [InstDaemons -> Inst!FlightShape] /\ s4[d].owner \in InstCallers
      /\ UNCHANGED <<s2, s3, s5, s6, s8, s9, s10>> /\ Inst!Builds(s4[d].owner)
      /\ Inst!FlightGoes(d, "built", s1 + 1)
  BY InstTypes DEF Inst!InstAssumption, LaunchTyped, LaunchKnown, Inst!OneBuilder, Inst!FlightBuilt
<1>1. s1 + 1 \in 0..MaxBuilds /\ FlightBecomes(d, "built", s1 + 1)
  <2>1. s1 + 1 \in 0..MaxBuilds
    BY <1>0 DEF Inst!Builds
  <2> QED
    BY <1>0, <2>1, FlightMoves
<1>2. \/ s4[d].owner \in s10
      \/ /\ \A i \in 1..s1 : s7[i] \in s10
         /\ \A e \in InstDaemons : s4'[e].pc \in {"setup", "build"} => s4'[e].owner \in s10
  <2> SUFFICES ASSUME s4[d].owner \notin s10
               PROVE  /\ \A i \in 1..s1 : s7[i] \in s10
                      /\ \A e \in InstDaemons : s4'[e].pc \in {"setup", "build"} => s4'[e].owner \in s10
    OBVIOUS
  <2>1. (\A i \in 1..s1 : s7[i] \in s10) /\ s5 = s4[d].owner /\ DaemonOf[s4[d].owner] = d
    BY <1>0 DEF LaunchKnown, Inst!OneBuilder, Inst!Unbuilt
  <2>2. ASSUME NEW e \in InstDaemons, s4'[e].pc \in {"setup", "build"} PROVE s4'[e].owner \in s10
    BY <1>0, <1>1, <2>1, <2>2 DEF LaunchKnown, Inst!OneBuilder, Inst!Unbuilt, FlightBecomes
  <2> QED
    BY <2>1, <2>2
<1>3. /\ s1' \in 0..MaxBuilds /\ s1 <= s1' /\ s1' = s1 + 1
      /\ s7' \in [1..MaxBuilds -> {"none"} \cup InstCallers] /\ Inst!BuiltOnce'
      /\ \A e \in InstDaemons :
           s4'[e].pc \in {"setup", "build"} /\ s4'[e].owner \notin s10
             /\ (\A i \in 1..s1 : s7[i] \in s10) => \A i \in 1..s1' : s7'[i] \in s10
  BY <1>0, <1>2, BuildKnown
<1>4. LaunchTyped' /\ s8' \subseteq s10'
  BY <1>0, <1>1, <1>3 DEF LaunchKnown, LaunchTyped, FlightBecomes
<1>5. Inst!OneBuilder'
  <2>1. \A e \in InstDaemons : s4[e].fn \in Nat
    BY <1>0 DEF Inst!FlightShape
  <2> SUFFICES ASSUME NEW e \in InstDaemons
               PROVE  (/\ s4[e].pc # "none" => s4[e].owner \in InstCallers /\ DaemonOf[s4[e].owner] = e
                       /\ s4[e].fn <= s1
                       /\ Inst!Unbuilt(e) /\ s4[e].owner \notin s10 => s5 = s4[e].owner
                       /\ s4[e].pc \in {"setup", "build"} /\ s4[e].owner \notin s10
                            => \A i \in 1..s1 : s7[i] \in s10)'
    BY DEF Inst!OneBuilder
  <2>2. CASE e = d
    BY <1>0, <1>1, <1>3, <2>2 DEF FlightBecomes, LaunchKnown, Inst!OneBuilder, Inst!Unbuilt
  <2>3. CASE e # d
    BY <1>0, <1>1, <1>3, <2>1, <2>3 DEF FlightBecomes, LaunchKnown, Inst!OneBuilder, Inst!Unbuilt
  <2> QED
    BY <2>2, <2>3
<1>6. Inst!LockIsOfALaunch'
  BY <1>0, <1>1 DEF FlightBecomes, LaunchKnown, Inst!LockIsOfALaunch, Inst!Unbuilt
<1>7. LaunchKnown' /\ s10 \subseteq s10' /\ \A e \in InstDaemons : s4[e].pc # "none" => s4'[e].pc # "none"
  BY <1>0, <1>1, <1>3, <1>4, <1>5, <1>6 DEF LaunchKnown, FlightBecomes
<1> QED
  BY <1>0, <1>3, <1>7, InstUnseen

\* The steps of a launch.
LEMMA InstFlights ==
  ASSUME Inst!InstAssumption, Inst!InstIInv, NEW d \in InstDaemons,
         \/ Inst!FlightFetch(d) \/ Inst!FlightLock(d) \/ Inst!FlightFetchAgain(d) \/ Inst!FlightSetup(d)
         \/ Inst!FlightBuilt(d) \/ Inst!FlightCloses(d) \/ Inst!FlightEnds(d)
  PROVE  Inst!InstIInv'
<1> USE DEF Inst!Connector_
<1>0. /\ s1 \in Nat /\ 0 \in 0..s1 /\ s1 \in 0..s1 /\ LaunchKnown /\ s4[d].fn \in 0..s1
      /\ {"none", "nobody"} \cap InstCallers = {}
  <2>1. s4[d] \in Inst!FlightShape /\ s1 \in Nat /\ s4[d].fn <= s1
    BY InstTypes DEF LaunchTyped, LaunchKnown, Inst!OneBuilder
  <2>2. s4[d].fn \in 0..MaxBuilds /\ MaxBuilds \in Nat
    BY <2>1 DEF Inst!FlightShape, Inst!InstAssumption
  <2> QED
    BY <2>1, <2>2, InstTypes DEF Inst!InstAssumption
<1>1. \A fn \in {0, s1, s4[d].fn} : fn \in 0..s1
  BY <1>0
<1>4. CASE Inst!FlightFetch(d)
  <2>1. s4[d].pc = "fetch" /\ UNCHANGED <<s1, s2, s3, s5, s7, s8, s9, s10>>
    BY <1>4 DEF Inst!FlightFetch
  <2>2. CASE Inst!FlightGoes(d, "lock", 0) /\ UNCHANGED s6
    BY <1>0, <2>1, <2>2, InstGoesOn
  <2> QED
    BY <1>0, <1>4, <2>1, <2>2, InstAnswer DEF Inst!FlightFetch
<1>5. CASE Inst!FlightLock(d)
  <2>1. s4[d].pc = "lock" /\ Inst!FlightGoes(d, "again", 0) /\ UNCHANGED <<s1, s2, s3, s6, s7, s8, s9>>
    BY <1>5 DEF Inst!FlightLock
  <2>2. CASE s5 = "none" /\ s5' = s4[d].owner /\ s10' = s10
    BY <1>0, <2>1, <2>2, InstGoesOn
  <2>3. CASE (s5' = s5 \/ (s5 = "none" /\ s5' = "nobody")) /\ s10' = s10 \cup {s4[d].owner}
    <3>1. s4[d].owner \in InstCallers
      BY <1>0, <2>1 DEF LaunchKnown, Inst!OneBuilder
    <3> QED
      BY <1>0, <2>1, <2>3, <3>1, InstGoesOn
  <2> QED
    BY <1>5, <2>2, <2>3 DEF Inst!FlightLock, Inst!Acquires, Inst!GoesOnUnlocked
<1>6. CASE Inst!FlightFetchAgain(d)
  <2>1. s4[d].pc = "again" /\ UNCHANGED <<s1, s2, s3, s6, s7, s8, s9, s10>>
    BY <1>6 DEF Inst!FlightFetchAgain
  <2>2. CASE s1 = 0 /\ Inst!FlightGoes(d, "setup", 0) /\ UNCHANGED s5
    <3>1. s4[d].owner \notin s10 => s5 = s4[d].owner
      BY <1>0, <2>1 DEF LaunchKnown, Inst!OneBuilder, Inst!Unbuilt
    <3> QED
      BY <1>0, <2>1, <2>2, <3>1, InstGoesOn
  <2> QED
    BY <1>0, <1>6, <2>1, <2>2, InstCloses DEF Inst!FlightFetchAgain
<1>7. CASE Inst!FlightSetup(d)
  <2>1. s4[d].pc = "setup" /\ UNCHANGED <<s1, s2, s3, s6, s7, s9>>
    BY <1>7 DEF Inst!FlightSetup
  <2>2. CASE Inst!FlightGoes(d, "build", 0) /\ UNCHANGED <<s5, s8, s10>>
    <3>1. s4[d].owner \notin s10 => s5 = s4[d].owner
      BY <1>0, <2>1 DEF LaunchKnown, Inst!OneBuilder, Inst!Unbuilt
    <3> QED
      BY <1>0, <2>1, <2>2, <3>1, InstGoesOn
  <2> QED
    BY <1>0, <1>7, <2>1, <2>2, InstCloses DEF Inst!FlightSetup
<1>8. CASE Inst!FlightCloses(d)
  <2>1. s4[d].pc \in {"build", "built"} /\ UNCHANGED <<s1, s2, s3, s6, s7, s9>>
    BY <1>8 DEF Inst!FlightCloses
  <2>2. PICK fn \in {0, s4[d].fn} : /\ Inst!Closes(d, fn)
                                    /\ UNCHANGED <<s8, s10>> \/ Inst!Abandons(s4[d].owner)
    BY <1>8 DEF Inst!FlightCloses
  <2> QED
    BY <1>1, <2>1, <2>2, InstCloses
<1>9. CASE Inst!FlightEnds(d)
  BY <1>0, <1>9, InstAnswer DEF Inst!FlightEnds
<1> QED
  BY <1>4, <1>5, <1>6, <1>7, <1>8, <1>9, InstBuilt

\* The token in Redis lapses.
LEMMA InstLapses ==
  ASSUME Inst!InstAssumption, Inst!InstIInv, Inst!LockLapses
  PROVE  Inst!InstIInv'
<1>0. /\ UNCHANGED <<s1, s2, s3, s4, s6, s7, s8, s9>> /\ s5 # "none" /\ s5' = "none"
      /\ s10' = s10 \cup {c \in InstCallers : c = s5 /\
                            \E d \in InstDaemons : s4[d].owner = c /\ Inst!Unbuilt(d)}
  BY DEF Inst!LockLapses, Inst!Connector_
<1>1. LaunchKnown /\ s1 \in 0..MaxBuilds /\ s1 <= s1 /\ {"none", "nobody"} \cap InstCallers = {}
  BY InstTypes DEF Inst!InstAssumption
<1>2. LaunchTyped' /\ Inst!BuiltOnce' /\ s8' \subseteq s10' /\ s10 \subseteq s10' /\ Inst!LockIsOfALaunch'
  BY <1>0, <1>1 DEF LaunchKnown, LaunchTyped, Inst!BuiltOnce, Inst!LockIsOfALaunch
<1>3. \A d \in InstDaemons : Inst!Unbuilt(d) => s4[d].owner \in s10'
  <2> SUFFICES ASSUME NEW d \in InstDaemons, Inst!Unbuilt(d), s4[d].owner \notin s10
               PROVE  s4[d].owner \in s10'
    BY <1>2
  <2>1. s5 = s4[d].owner /\ s5 \in InstCallers
    BY <1>1 DEF LaunchKnown, Inst!OneBuilder, Inst!Unbuilt
  <2> QED
    BY <1>0, <2>1
<1>4. Inst!OneBuilder'
  BY <1>0, <1>1, <1>3 DEF LaunchKnown, Inst!OneBuilder, Inst!Unbuilt
<1>5. LaunchKnown'
  BY <1>2, <1>4 DEF LaunchKnown
<1> QED
  BY <1>0, <1>1, <1>2, <1>5, InstUnseen

\* The cached row expires, or nothing happens.
LEMMA InstIdle ==
  ASSUME Inst!InstAssumption, Inst!InstIInv, Inst!RowCacheExpires \/ UNCHANGED Inst!instVars
  PROVE  Inst!InstIInv'
<1>0. UNCHANGED <<s1, s2, s4, s5, s6, s7, s8, s9, s10>> /\ (s3' = s3 \/ s3' = 0)
  BY DEF Inst!RowCacheExpires, Inst!instVars, Inst!Connector_
<1>1. s3' \in 0..MaxBuilds /\ s3' <= s1' /\ s2' <= s1' /\ (s3' # 0 => s2' # 0)
  BY <1>0, InstTypes DEF Inst!InstIInv, Inst!InstAssumption
<1>2. \A c \in InstCallers : s6'[c].pc \in {"persist", "clear", "store"} => s6'[c].fn # 0
  BY <1>0 DEF Inst!InstIInv, Inst!InstTypeOK
<1>3. LaunchKnown' /\ LaunchTyped'
  BY <1>0, InstTypes, LaunchKept DEF LaunchKnown
<1>4. Inst!InstTypeOK'
  BY <1>0, <1>1, <1>2, <1>3, InstTypes, InstTyped
<1>5. Inst!FollowersServed' /\ Inst!RowCacheFresh' /\ \A c \in InstCallers : Inst!CallKnows(c)'
  BY <1>0 DEF Inst!InstIInv, Inst!FollowersServed, Inst!CallKnows, Inst!RowCacheFresh
<1> QED
  BY <1>1, <1>3, <1>4, <1>5 DEF Inst!InstIInv, LaunchKnown

\* The invariant holds at the start.
LEMMA InstStart ==
  ASSUME Inst!InstAssumption, Inst!InstInit
  PROVE  Inst!InstIInv
<1>0. /\ s1 = 0 /\ s2 = 0 /\ s3 = 0 /\ s5 = "none" /\ s8 = {} /\ s10 = {} /\ s9 = FALSE
      /\ s7 = [i \in 1..MaxBuilds |-> "none"] /\ "none" \notin InstCallers
      /\ s4 = [d \in InstDaemons |-> Inst!NoFlight] /\ s6 = [c \in InstCallers |-> Inst!NoCall]
  BY DEF Inst!InstInit, Inst!InstAssumption
<1>2. 0 \in 0..MaxBuilds
  BY DEF Inst!InstAssumption
<1>1. Inst!NoFlight \in Inst!FlightShape /\ Inst!NoFlight.pc = "none" /\ Inst!NoFlight.fn = 0
  BY <1>2 DEF Inst!NoFlight, Inst!FlightShape
<1>3. Inst!NoCall \in Inst!CallShape /\ Inst!NoCall.pc = "new" /\ Inst!NoCall.fn = 0 /\ Inst!NoCall.op = "none"
  BY <1>2, Zenon DEF Inst!NoCall, Inst!CallShape
<1>4. Inst!InstTypeOK
  BY <1>0, <1>1, <1>2, <1>3 DEF Inst!InstTypeOK
<1>5. \A c \in InstCallers : s6[c].pc = "new" /\ s6[c].fn = 0 /\ s6[c].op = "none"
  BY <1>0, <1>3
<1>6. \A d \in InstDaemons : s4[d].pc = "none" /\ s4[d].fn = 0
  BY <1>0, <1>1
<1>7. Inst!FollowersServed /\ (\A c \in InstCallers : Inst!CallKnows(c)) /\ Inst!OneBuilder
  BY <1>0, <1>5, <1>6 DEF Inst!FollowersServed, Inst!CallKnows, Inst!OneBuilder, Inst!Unbuilt
<1>8. Inst!BuiltOnce /\ Inst!LockIsOfALaunch /\ Inst!RowCacheFresh
  BY <1>0 DEF Inst!BuiltOnce, Inst!LockIsOfALaunch, Inst!RowCacheFresh
<1> QED
  BY <1>0, <1>4, <1>7, <1>8 DEF Inst!InstIInv

\* Every step of an installation keeps the invariant.
LEMMA InstStep ==
  ASSUME Inst!InstAssumption, Inst!InstIInv, Inst!InstNext \/ UNCHANGED Inst!instVars
  PROVE  Inst!InstIInv'
<1>1. ASSUME NEW c \in InstCallers,
             \/ Inst!InstallCall(c) \/ Inst!CallerLeaves(c) \/ Inst!Persist(c) \/ Inst!ClearCache(c)
             \/ Inst!ReinstallCall(c) \/ Inst!ReinstallBuilt(c) \/ Inst!ReinstallCloses(c)
             \/ Inst!LateBuild(c)
             \/ \E fn \in 1..s1 : Inst!SwitchCall(c, fn)
             \/ Inst!ReadCache(c) \/ Inst!ReadRow(c) \/ Inst!StoreCache(c)
      PROVE  Inst!InstIInv'
  BY <1>1, InstAsks, InstWrites, InstReads, InstLate
<1> QED
  BY <1>1, InstFlights, InstLapses, InstIdle DEF Inst!InstNext, Inst!InstOver

\* For any number of callers and daemons: a caller that leaves does not cancel what others
\* wait for; no two functions are built for launches that looked for one and kept the lock
\* until they had it, though tokens lapse, Redis fails, and builds given up by a timeout end
\* later; every launch gives its token back; a reported success is stored, and the cached
\* row is the stored one unless a reader was overtaken or a clean-up failed (installer.go,
\* installer_serverless.go, launch.go, serverless.go).
THEOREM FunctionIsBuiltOnce ==
  RuntimesSpec => [](unit = "build" => /\ Inst!InstTypeOK /\ Inst!FollowersServed /\ Inst!BuiltOnce
                                       /\ Inst!LockIsOfALaunch
                                       /\ Inst!DoneIsPersisted /\ Inst!RowCacheFresh)
<1> DEFINE Inv == unit = "build" => Inst!InstIInv
           Good == unit = "build" => /\ Inst!InstTypeOK /\ Inst!FollowersServed /\ Inst!BuiltOnce
                                     /\ Inst!LockIsOfALaunch
                                     /\ Inst!DoneIsPersisted /\ Inst!RowCacheFresh
<1>1. RuntimesInit => Inv
  BY InstStart, RuntimesAssumption DEF RuntimesInit
<1>2. Inv /\ [RuntimesNext]_runtimesVars => Inv'
  <2> SUFFICES ASSUME Inv, [RuntimesNext]_runtimesVars, unit' = "build" PROVE Inst!InstIInv'
    OBVIOUS
  <2>1. unit = "build" /\ Inst!InstIInv
    BY DEF RuntimesNext, runtimesVars
  <2>2. Inst!InstNext \/ UNCHANGED Inst!instVars
    BY <2>1 DEF RuntimesNext, runtimesVars, unitVars, Inst!instVars
  <2> QED
    BY <2>1, <2>2, InstStep, RuntimesAssumption
<1>3. Inv => Good
  <2> SUFFICES ASSUME unit = "build", Inst!InstIInv PROVE Inst!DoneIsPersisted
    BY DEF Inst!InstIInv
  <2> QED
    BY DEF Inst!InstIInv, Inst!CallKnows, Inst!DoneIsPersisted
<1> QED
  BY <1>1, <1>2, <1>3, PTL DEF RuntimesSpec

------------------------------------------------------------------------------
(* ServerlessCall: the size of a request *)

\* The instance takes these operators from FiniteSets, too.
LEMMA CallFiniteSets ==
  ASSUME NEW S
  PROVE  (Call!IsFiniteSet(S) <=> IsFiniteSet(S)) /\ Call!Cardinality(S) = Cardinality(S)
<1>1. Call!IsFiniteSet(S) <=> IsFiniteSet(S)
  BY Zenon DEF Call!IsFiniteSet, IsFiniteSet
<1>2. Call!Cardinality(S) = Cardinality(S)
  BY Zenon DEF Call!Cardinality, Cardinality
<1> QED
  BY <1>1, <1>2

\* The numbers up to n are n.
LEMMA CountUpTo ==
  ASSUME NEW n \in Nat
  PROVE  IsFiniteSet(1..n) /\ Cardinality(1..n) = n
<1>1. Cardinality(1..n) = IF 1 > n THEN 0 ELSE n - 1 + 1
  BY FS_Interval
<1> QED
  BY <1>1, FS_Interval

\* There are finitely many bytes in some of the texts.
LEMMA TextsFinite ==
  ASSUME NEW ts \in Seq(Nat), NEW a \in Nat, NEW b \in Nat, b <= Len(ts)
  PROVE  IsFiniteSet(Call!TextsBytes(ts, a, b)) /\ Cardinality(Call!TextsBytes(ts, a, b)) \in Nat
<1> DEFINE I == a + 1..b
           S == {{k} \X (1..ts[k]) : k \in I}
           f == [k \in I |-> {k} \X (1..ts[k])]
<1>1. IsFiniteSet(I)
  BY FS_Interval
<1>2. f \in Surjection(I, S)
  BY DEF Surjection
<1> HIDE DEF f
<1>3. IsFiniteSet(S)
  BY <1>1, <1>2, FS_Surjection, Zenon
<1>4. ASSUME NEW T \in S PROVE IsFiniteSet(T)
  <2>1. PICK k \in I : T = {k} \X (1..ts[k])
    BY <1>4
  <2>2. IsFiniteSet(1..ts[k])
    <3>1. ts[k] \in Int
      OBVIOUS
    <3> QED
      BY <3>1, FS_Interval
  <2>3. IsFiniteSet({k})
    BY FS_Singleton
  <2> QED
    BY <2>1, <2>2, <2>3, FS_Product, Zenon
<1> HIDE DEF S
<1>5. IsFiniteSet(UNION S)
  BY <1>3, <1>4, FS_UNION, Zenon
<1>6. Call!TextsBytes(ts, a, b) = UNION S
  BY DEF Call!TextsBytes, S
<1> QED
  BY <1>5, <1>6, FS_CardinalityType

\* One more text adds its bytes.
LEMMA TextsNext ==
  ASSUME NEW ts \in Seq(Nat), NEW a \in Nat, NEW b \in Nat, a <= b, b < Len(ts)
  PROVE  Cardinality(Call!TextsBytes(ts, a, b + 1)) = Cardinality(Call!TextsBytes(ts, a, b)) + ts[b + 1]
<1> DEFINE R == Call!TextsBytes(ts, a, b)
           K == {b + 1} \X (1..ts[b + 1])
<1>1. ts[b + 1] \in Nat
  OBVIOUS
<1>2. IsFiniteSet(1..ts[b + 1]) /\ Cardinality(1..ts[b + 1]) = ts[b + 1]
  BY <1>1, CountUpTo
<1>3. IsFiniteSet({b + 1}) /\ Cardinality({b + 1}) = 1
  BY FS_Singleton
<1>4. IsFiniteSet(K) /\ Cardinality(K) = Cardinality({b + 1}) * Cardinality(1..ts[b + 1])
  BY <1>2, <1>3, FS_Product, Zenon
<1>5. Call!TextsBytes(ts, a, b + 1) = R \cup K
  <2>1. a + 1..b + 1 = (a + 1..b) \cup {b + 1}
    OBVIOUS
  <2> QED
    BY <2>1, Zenon DEF Call!TextsBytes
<1>6. R \cap K = {}
  BY DEF Call!TextsBytes
<1>7. Cardinality(R \cap K) = 0
  BY <1>6, FS_EmptySet
<1>8. IsFiniteSet(R) /\ Cardinality(R) \in Nat
  BY TextsFinite
<1>9. Cardinality(R \cup K) = Cardinality(R) + Cardinality(K) - Cardinality(R \cap K)
  BY <1>4, <1>8, FS_Union, Zenon
<1> HIDE DEF R, K
<1>11. Cardinality(K) = ts[b + 1]
  BY <1>1, <1>2, <1>3, <1>4
<1>12. Cardinality(Call!TextsBytes(ts, a, b + 1)) = Cardinality(R \cup K)
  BY <1>5, Zenon
<1>13. Cardinality(R \cup K) = Cardinality(R) + ts[b + 1]
  BY <1>1, <1>7, <1>8, <1>9, <1>11
<1>10. Cardinality(Call!TextsBytes(ts, a, b + 1)) = Cardinality(R) + ts[b + 1]
  BY <1>12, <1>13, Zenon
<1> QED
  BY <1>10 DEF R

\* The size of a request grows with its texts, by the text and a comma.
LEMMA PayloadNext ==
  ASSUME Call!CallAssumption, NEW ts \in Seq(Nat), NEW a \in Nat, NEW b \in Nat, a <= b, b <= Len(ts)
  PROVE  /\ Call!PayloadBytes(ts, a, b) \in Nat
         /\ Call!PayloadBytes(ts, a, a) = EmptyBytes
         /\ b < Len(ts) => Call!PayloadBytes(ts, a, b + 1)
                             = Call!PayloadBytes(ts, a, b) + ts[b + 1] + (IF b > a THEN 1 ELSE 0)
<1>1. EmptyBytes \in Nat
  BY DEF Call!CallAssumption
<1>2. Cardinality(Call!TextsBytes(ts, a, b)) \in Nat
  BY TextsFinite
<1>3. Call!TextsBytes(ts, a, a) = {}
  BY DEF Call!TextsBytes
<1>4. Cardinality(Call!TextsBytes(ts, a, a)) = 0
  BY <1>3, FS_EmptySet
<1>5. ASSUME NEW x PROVE Call!Cardinality(x) = Cardinality(x)
  BY CallFiniteSets
<1>6. Call!PayloadBytes(ts, a, b) \in Nat /\ Call!PayloadBytes(ts, a, a) = EmptyBytes
  BY <1>1, <1>2, <1>4, <1>5 DEF Call!PayloadBytes
<1>7. ASSUME b < Len(ts)
      PROVE  Call!PayloadBytes(ts, a, b + 1)
               = Call!PayloadBytes(ts, a, b) + ts[b + 1] + (IF b > a THEN 1 ELSE 0)
  <2>1. Cardinality(Call!TextsBytes(ts, a, b + 1)) = Cardinality(Call!TextsBytes(ts, a, b)) + ts[b + 1]
    BY <1>7, TextsNext
  <2>2. ts[b + 1] \in Nat
    BY <1>7
  <2>3. CASE b > a
    <3>1. Call!PayloadBytes(ts, a, b + 1) = EmptyBytes + Cardinality(Call!TextsBytes(ts, a, b + 1)) + (b + 1 - a - 1)
      BY <1>5, <2>3 DEF Call!PayloadBytes
    <3>2. Call!PayloadBytes(ts, a, b) = EmptyBytes + Cardinality(Call!TextsBytes(ts, a, b)) + (b - a - 1)
      BY <1>5, <2>3 DEF Call!PayloadBytes
    <3> DEFINE m == Cardinality(Call!TextsBytes(ts, a, b))
               t == ts[b + 1]
    <3>3. m \in Nat /\ t \in Nat
      BY <1>2, <2>2
    <3>4. Call!PayloadBytes(ts, a, b + 1) = EmptyBytes + (m + t) + (b + 1 - a - 1)
      BY <2>1, <3>1
    <3>5. Call!PayloadBytes(ts, a, b) = EmptyBytes + m + (b - a - 1)
      BY <3>2
    <3> HIDE DEF m, t
    <3>6. Call!PayloadBytes(ts, a, b + 1) = Call!PayloadBytes(ts, a, b) + t + 1
      BY <1>1, <2>3, <3>3, <3>4, <3>5
    <3> QED
      BY <2>3, <3>6 DEF t
  <2>4. CASE b = a
    <3>1. Call!PayloadBytes(ts, a, b + 1) = EmptyBytes + Call!Cardinality(Call!TextsBytes(ts, a, b + 1))
      BY <1>1, <1>2, <1>5, <2>1, <2>2, <2>4 DEF Call!PayloadBytes
    <3>2. Call!PayloadBytes(ts, a, b) = EmptyBytes + Call!Cardinality(Call!TextsBytes(ts, a, b))
      BY <1>1, <1>2, <1>5, <2>4 DEF Call!PayloadBytes
    <3> QED
      BY <1>1, <1>2, <1>5, <2>1, <2>2, <2>4, <3>1, <3>2
  <2> QED
    BY <2>3, <2>4
<1> QED
  BY <1>6, <1>7

\* A request of some of the texts of another one is not larger.
LEMMA PayloadGrows ==
  ASSUME Call!CallAssumption, NEW ts \in Seq(Nat), NEW a \in Nat, NEW b \in Nat, NEW c \in Nat, NEW d \in Nat,
         a <= c, c <= d, d <= b, b <= Len(ts)
  PROVE  Call!PayloadBytes(ts, c, d) <= Call!PayloadBytes(ts, a, b)
<1>1. EmptyBytes \in Nat
  BY DEF Call!CallAssumption
<1>2. c + 1..d \subseteq a + 1..b
  OBVIOUS
<1>3. Call!TextsBytes(ts, c, d) \in SUBSET Call!TextsBytes(ts, a, b)
  BY <1>2, Zenon DEF Call!TextsBytes
<1>4. /\ IsFiniteSet(Call!TextsBytes(ts, a, b)) /\ Cardinality(Call!TextsBytes(ts, a, b)) \in Nat
      /\ Cardinality(Call!TextsBytes(ts, c, d)) \in Nat
  BY TextsFinite, SMTT(30)
<1>5. Cardinality(Call!TextsBytes(ts, c, d)) <= Cardinality(Call!TextsBytes(ts, a, b))
  BY <1>3, <1>4, FS_Subset, Zenon
<1>6. ASSUME NEW x PROVE Call!Cardinality(x) = Cardinality(x)
  BY CallFiniteSets
<1> QED
  BY <1>1, <1>4, <1>5, <1>6 DEF Call!PayloadBytes

\* Some number of a set of numbers is the least.
LEMMA LeastNumber ==
  ASSUME NEW S, S \subseteq Nat, S # {}
  PROVE  \E x \in S : \A y \in S : x <= y
<1>1. PICK x \in S : \A y \in S : ~(<<y, x>> \in OpToRel(<, Nat))
  BY NatLessThanWellFounded, WFMin
<1>2. ASSUME NEW y \in S, y < x PROVE FALSE
  <2>1. x \in Nat /\ y \in Nat
    OBVIOUS
  <2>2. <<y, x>> \in OpToRel(<, Nat)
    BY <1>2, <2>1, Zenon DEF OpToRel
  <2> QED
    BY <1>1, <2>2
<1> QED
  BY <1>2

\* Texts that no cut separates fit into one request, with the one before the next cut.
LEMMA NextCut ==
  ASSUME Call!CallAssumption, s1 \in Seq(Nat), NEW C \in Call!Cuts(s1), NEW p \in Nat, NEW q \in Nat,
         p <= q, q < Len(s1), \A c \in C : ~(p < c /\ c <= q)
  PROVE  Call!PayloadBytes(s1, p, q + 1) <= MaxRequestBytes
<1> DEFINE Lo == {p - c : c \in {d \in C : d <= p}}
           Hi == {d \in C : d > q}
<1>1. /\ C \subseteq 0..Len(s1) /\ 0 \in C /\ Len(s1) \in C
      /\ \A a, b \in C : (a < b /\ \A c \in C : ~(a < c /\ c < b)) => Call!Fits(s1, a, b)
  BY DEF Call!Cuts
<1>0. \A c \in C : c \in Nat /\ c <= Len(s1)
  BY <1>1
<1>2. Lo \subseteq Nat /\ Hi \subseteq Nat
  <2>1. ASSUME NEW c \in C, c <= p PROVE p - c \in Nat
    BY <1>0, <2>1
  <2>2. Hi \subseteq Nat
    BY <1>0
  <2> QED
    BY <2>1, <2>2
<1>3. p - 0 \in Lo /\ Len(s1) \in Hi
  BY <1>1
<1>4. PICK m \in Lo : \A y \in Lo : m <= y
  BY <1>2, <1>3, LeastNumber, Zenon
<1>5. PICK b \in Hi : \A y \in Hi : b <= y
  BY <1>2, <1>3, LeastNumber, Zenon
<1>6. PICK a \in C : a <= p /\ m = p - a
  BY <1>4
<1>7. \A c \in C : c <= p => c <= a
  <2> TAKE c \in C
  <2> HAVE c <= p
  <2>1. p - c \in Lo
    OBVIOUS
  <2>2. m <= p - c
    BY <1>4, <2>1
  <2> QED
    BY <1>1, <1>6, <2>2
<1>8. \A c \in C : c > q => b <= c
  BY <1>5
<1>9. a \in Nat /\ b \in Nat /\ b \in C /\ b > q /\ b <= Len(s1)
  BY <1>1, <1>5, <1>6
<1> HIDE DEF Lo, Hi
<1>10. \A c \in C : ~(a < c /\ c < b)
  <2> SUFFICES ASSUME NEW c \in C, a < c, c < b PROVE FALSE
    OBVIOUS
  <2>1. c \in Nat /\ (c <= p => c <= a) /\ (c > q => b <= c) /\ ~(p < c /\ c <= q)
    BY <1>0, <1>7, <1>8
  <2> QED
    BY <1>9, <2>1
<1>11. Call!Fits(s1, a, b)
  BY <1>1, <1>6, <1>9, <1>10
<1>12. Call!PayloadBytes(s1, a, b) <= MaxRequestBytes
  BY <1>11 DEF Call!Fits
<1>13. Call!PayloadBytes(s1, p, q + 1) <= Call!PayloadBytes(s1, a, b)
  BY <1>6, <1>9, PayloadGrows
<1>14. /\ Call!PayloadBytes(s1, p, q + 1) \in Nat /\ Call!PayloadBytes(s1, a, b) \in Nat
       /\ MaxRequestBytes \in Nat
  BY <1>6, <1>9, PayloadNext, SMTT(30) DEF Call!CallAssumption
<1> QED
  BY <1>12, <1>13, <1>14

\* A cut set is finite, and 0 is not counted among the batches.
LEMMA CutSetCounts ==
  ASSUME s1 \in Seq(Nat), NEW C \in Call!Cuts(s1), NEW n \in Nat
  PROVE  /\ IsFiniteSet(C) /\ IsFiniteSet(C \cap (1..n))
         /\ Cardinality(C) \in Nat /\ Cardinality(C \cap (1..n)) \in Nat
         /\ n = Len(s1) => Cardinality(C) = Cardinality(C \cap (1..n)) + 1
<1>1. C \in SUBSET (0..Len(s1)) /\ 0 \in C
  BY DEF Call!Cuts
<1>2. IsFiniteSet(0..Len(s1))
  BY FS_Interval
<1>3. IsFiniteSet(C)
  BY <1>1, <1>2, FS_Subset, Zenon
<1>4. IsFiniteSet(C \cap (1..n))
  BY <1>3, FS_Intersection, Zenon
<1>5. Cardinality(C) \in Nat /\ Cardinality(C \cap (1..n)) \in Nat
  BY <1>3, <1>4, FS_CardinalityType
<1>6. ASSUME n = Len(s1) PROVE Cardinality(C) = Cardinality(C \cap (1..n)) + 1
  <2> DEFINE D == C \cap (1..n)
  <2>1. C = D \cup {0} /\ 0 \notin D
    <3>1. \A c \in C : c \in D \/ c = 0
      BY <1>1, <1>6
    <3>2. 0 \notin D /\ D \subseteq C
      OBVIOUS
    <3> QED
      BY <1>1, <3>1, <3>2, Zenon
  <2>2. IsFiniteSet(D)
    BY <1>4
  <2> HIDE DEF D
  <2>3. Cardinality(D \cup {0}) = Cardinality(D) + 1
    BY <2>1, <2>2, FS_AddElement
  <2>4. Cardinality(C) = Cardinality(D) + 1
    BY <2>1, <2>3, Zenon
  <2> QED
    BY <2>4 DEF D
<1> QED
  BY <1>3, <1>4, <1>5, <1>6

\* When the next text does not fit into the batch under way, every way to cut has a cut in it.
LEMMA NoneFewerNext ==
  ASSUME Call!CallAssumption, s1 \in Seq(Nat), NEW b \in Seq(Call!BatchShape), NEW p \in Nat, NEW q \in Nat,
         p <= q, q < Len(s1), Call!NoneFewer(s1, b, p), Call!PayloadBytes(s1, p, q + 1) > MaxRequestBytes,
         NEW x \in Call!BatchShape
  PROVE  Call!NoneFewer(s1, Append(b, x), q)
<1> SUFFICES ASSUME NEW C \in Call!Cuts(s1)
             PROVE  Len(Append(b, x)) <= Call!Cardinality(C \cap (1..q))
  BY DEF Call!NoneFewer
<1>1. Call!PayloadBytes(s1, p, q + 1) \in Nat /\ MaxRequestBytes \in Nat
  BY PayloadNext DEF Call!CallAssumption
<1>2. ~(Call!PayloadBytes(s1, p, q + 1) <= MaxRequestBytes)
  BY <1>1
<1>3. PICK c \in C : p < c /\ c <= q
  BY <1>2, NextCut
<1>4. c \in Nat
  BY DEF Call!Cuts
<1> DEFINE P == C \cap (1..p)
           Q == C \cap (1..q)
<1>5. IsFiniteSet(P) /\ IsFiniteSet(Q) /\ Cardinality(P) \in Nat /\ Cardinality(Q) \in Nat
  BY CutSetCounts
<1>6. c \notin P /\ P \cup {c} \in SUBSET Q
  BY <1>3, <1>4
<1>7. Len(b) <= Cardinality(P)
  BY CallFiniteSets DEF Call!NoneFewer
<1> HIDE DEF P, Q
<1>8. Cardinality(P \cup {c}) = Cardinality(P) + 1
  BY <1>5, <1>6, FS_AddElement
<1>9. Cardinality(P \cup {c}) <= Cardinality(Q)
  BY <1>5, <1>6, FS_Subset, Zenon
<1>10. Len(Append(b, x)) = Len(b) + 1 /\ Len(b) \in Nat
  BY AppendProperties, LenProperties
<1>11. Len(b) + 1 <= Cardinality(Q)
  BY <1>5, <1>7, <1>8, <1>9, <1>10
<1> QED
  BY <1>10, <1>11, CallFiniteSets DEF Q

\* The last batch counts as well: every way to cut ends with the last text.
LEMMA NoneFewerLast ==
  ASSUME s1 \in Seq(Nat), NEW b \in Seq(Call!BatchShape), NEW p \in Nat, p < Len(s1),
         Call!NoneFewer(s1, b, p), NEW x \in Call!BatchShape
  PROVE  Call!NoneFewer(s1, Append(b, x), Len(s1))
<1> SUFFICES ASSUME NEW C \in Call!Cuts(s1)
             PROVE  Len(Append(b, x)) <= Call!Cardinality(C \cap (1..Len(s1)))
  BY DEF Call!NoneFewer
<1> DEFINE P == C \cap (1..p)
           Q == C \cap (1..Len(s1))
           c == Len(s1)
<1>4. c \in Nat /\ c \in C
  BY DEF Call!Cuts
<1>5. IsFiniteSet(P) /\ IsFiniteSet(Q) /\ Cardinality(P) \in Nat /\ Cardinality(Q) \in Nat
  BY <1>4, CutSetCounts
<1>6. c \notin P /\ P \cup {c} \in SUBSET Q
  BY <1>4
<1>7. Len(b) <= Cardinality(P)
  BY CallFiniteSets DEF Call!NoneFewer
<1> HIDE DEF P, Q, c
<1>8. Cardinality(P \cup {c}) = Cardinality(P) + 1
  BY <1>5, <1>6, FS_AddElement
<1>9. Cardinality(P \cup {c}) <= Cardinality(Q)
  BY <1>5, <1>6, FS_Subset, Zenon
<1>10. Len(Append(b, x)) = Len(b) + 1 /\ Len(b) \in Nat
  BY AppendProperties, LenProperties
<1>11. Len(b) + 1 <= Cardinality(Q)
  BY <1>5, <1>7, <1>8, <1>9, <1>10
<1> QED
  BY <1>10, <1>11, CallFiniteSets DEF Q

\* A batch of the texts p+1 .. q goes on where the batches before it end.
LEMMA CoversNext ==
  ASSUME NEW b \in Seq(Call!BatchShape), NEW p \in Nat, NEW q \in Nat, p < q,
         Call!Covers(s1, b, p), Call!Fits(s1, p, q)
  PROVE  Call!Batch(p, q) \in Call!BatchShape /\ Call!Covers(s1, Append(b, Call!Batch(p, q)), q)
<1> DEFINE x == Call!Batch(p, q)
           nb == Append(b, x)
           n == Len(b)
<1>1. x \in Call!BatchShape /\ x.itemOffset = p /\ x.itemCount = q - p /\ Call!End(x) = q
  BY DEF Call!Batch, Call!BatchShape, Call!End
<1>2. n \in Nat /\ \A k \in 1..n : b[k] \in Call!BatchShape /\ Call!End(b[k]) \in Nat
  <2>1. n \in Nat /\ \A k \in 1..n : b[k] \in Call!BatchShape
    BY LenProperties, ElementOfSeq
  <2>2. ASSUME NEW y \in Call!BatchShape PROVE Call!End(y) \in Nat
    BY DEF Call!BatchShape, Call!End
  <2> QED
    BY <2>1, <2>2
<1> HIDE DEF x
<1>3. /\ nb \in Seq(Call!BatchShape) /\ nb # <<>> /\ Len(nb) = n + 1
      /\ \A k \in 1..n : nb[k] = b[k]
      /\ nb[n + 1] = x
  BY <1>1, AppendProperties
<1>4. \A k \in 1..n :
       /\ b[k].itemCount > 0 /\ k <= Call!End(b[k]) /\ Call!End(b[k]) <= p
       /\ Call!Fits(s1, b[k].itemOffset, Call!End(b[k]))
       /\ b[k].itemOffset = IF k = 1 THEN 0 ELSE Call!End(b[k - 1])
       /\ \A j \in 1..n : j < k => Call!End(b[j]) < Call!End(b[k])
  BY DEF Call!Covers
<1>5. p = IF n = 0 THEN 0 ELSE Call!End(b[n])
  BY EmptySeq DEF Call!Covers
<1>6. DOMAIN nb = 1..n + 1
  BY <1>2, <1>3
<1> HIDE DEF nb, n
<1>7. ASSUME NEW k \in 1..n + 1
      PROVE  /\ nb[k].itemCount > 0 /\ k <= Call!End(nb[k]) /\ Call!End(nb[k]) <= q
             /\ Call!Fits(s1, nb[k].itemOffset, Call!End(nb[k]))
             /\ nb[k].itemOffset = IF k = 1 THEN 0 ELSE Call!End(nb[k - 1])
             /\ \A j \in 1..n + 1 : j < k => Call!End(nb[j]) < Call!End(nb[k])
  <2>1. CASE k \in 1..n
    <3>1. nb[k] = b[k] /\ (k > 1 => k - 1 \in 1..n /\ nb[k - 1] = b[k - 1])
      BY <1>2, <1>3, <2>1
    <3>2. Call!End(nb[k]) \in Nat /\ Call!End(nb[k]) <= p /\ Call!End(nb[k]) <= q
      BY <1>2, <1>4, <2>1, <3>1
    <3>3. \A j \in 1..n + 1 : j < k => j \in 1..n /\ nb[j] = b[j]
      BY <1>2, <1>3, <2>1
    <3> QED
      BY <1>4, <2>1, <3>1, <3>2, <3>3
  <2>2. CASE k = n + 1
    <3>1. nb[k] = x /\ Call!End(nb[k]) = q
      BY <1>1, <1>3, <2>2
    <3>2. n > 0 => n \in 1..n /\ nb[n] = b[n] /\ n <= Call!End(b[n]) /\ p = Call!End(b[n])
      BY <1>2, <1>3, <1>4, <1>5
    <3>3. k <= q
      BY <1>2, <2>2, <3>2
    <3>4. x.itemOffset = IF k = 1 THEN 0 ELSE Call!End(nb[k - 1])
      BY <1>1, <1>2, <1>5, <2>2, <3>2
    <3>5. ASSUME NEW j \in 1..n + 1, j < k PROVE Call!End(nb[j]) < Call!End(nb[k])
      <4>1. j \in 1..n /\ nb[j] = b[j]
        BY <1>2, <1>3, <2>2, <3>5
      <4>2. Call!End(b[j]) \in Nat /\ Call!End(b[j]) <= p
        BY <1>2, <1>4, <4>1
      <4> QED
        BY <3>1, <4>1, <4>2
    <3> QED
      BY <1>1, <3>1, <3>3, <3>4, <3>5
  <2> QED
    BY <1>2, <2>1, <2>2
<1>8. q = IF nb = <<>> THEN 0 ELSE Call!End(nb[Len(nb)])
  BY <1>1, <1>3
<1>9. Call!Covers(s1, nb, q)
  BY <1>6, <1>7, <1>8 DEF Call!Covers
<1> QED
  BY <1>1, <1>9 DEF x, nb

\* Batches that cover the texts, when no way to cut needs fewer, are as few as possible.
LEMMA FewestFound ==
  ASSUME Call!CallAssumption, s1 \in Seq(Nat), NEW b \in Seq(Call!BatchShape),
         Call!Covers(s1, b, Len(s1)), Call!NoneFewer(s1, b, Len(s1))
  PROVE  Len(b) = Call!FewestBatches(s1)
<1> DEFINE n == Len(b)
           m == Len(s1)
           W == {0} \cup {Call!End(b[k]) : k \in 1..n}
<1>1. n \in Nat /\ m \in Nat
  BY LenProperties
<1>2. ASSUME NEW k \in 1..n
      PROVE  b[k] \in Call!BatchShape /\ Call!End(b[k]) \in Nat /\ b[k].itemOffset \in Nat /\ b[k].itemCount \in Nat
             /\ Call!End(b[k]) = b[k].itemOffset + b[k].itemCount
  <2>1. b[k] \in Call!BatchShape
    BY LenProperties, ElementOfSeq
  <2> QED
    BY <2>1 DEF Call!BatchShape, Call!End
<1>3. \A k \in 1..n :
       /\ b[k].itemCount > 0 /\ Call!End(b[k]) <= m
       /\ Call!Fits(s1, b[k].itemOffset, Call!End(b[k]))
       /\ b[k].itemOffset = IF k = 1 THEN 0 ELSE Call!End(b[k - 1])
  BY DEF Call!Covers
<1>4. m = IF n = 0 THEN 0 ELSE Call!End(b[n])
  BY EmptySeq DEF Call!Covers
<1>5. \A c \in W : c \in Nat /\ c <= m
  BY <1>1, <1>2, <1>3
<1>6. 0 \in W /\ m \in W
  BY <1>1, <1>4
<1>7. ASSUME NEW a \in W, NEW c \in W, a < c, \A d \in W : ~(a < d /\ d < c)
      PROVE  Call!Fits(s1, a, c)
  <2>1. a \in Nat /\ c \in Nat /\ c <= m
    BY <1>5
  <2>2. PICK k \in 1..n : c = Call!End(b[k])
    BY <1>7, <2>1
  <2> DEFINE o == b[k].itemOffset
  <2>3. o \in Nat /\ o < c /\ Call!Fits(s1, o, c)
    BY <1>2, <1>3, <2>2
  <2>4. o \in W
    <3>1. CASE k = 1
      BY <1>3, <3>1
    <3>2. CASE k # 1
      <4>1. k - 1 \in 1..n /\ o = Call!End(b[k - 1])
        BY <1>1, <1>3, <3>2
      <4> QED
        BY <4>1
    <3> QED
      BY <3>1, <3>2
  <2> HIDE DEF W, o
  <2>5. o <= a
    BY <1>7, <2>1, <2>3, <2>4
  <2>6. Call!PayloadBytes(s1, a, c) <= Call!PayloadBytes(s1, o, c)
    BY <1>7, <2>1, <2>3, <2>5, PayloadGrows
  <2>7. /\ Call!PayloadBytes(s1, a, c) \in Nat /\ Call!PayloadBytes(s1, o, c) \in Nat
        /\ MaxRequestBytes \in Nat
    BY <1>7, <2>1, <2>3, <2>5, PayloadNext DEF Call!CallAssumption
  <2> QED
    BY <2>3, <2>6, <2>7 DEF Call!Fits
<1>8. W \in Call!Cuts(s1)
  <2> HIDE DEF W
  <2>1. W \in SUBSET (0..Len(s1))
    <3>1. ASSUME NEW c \in W PROVE c \in 0..Len(s1)
      BY <1>1, <1>5
    <3> QED
      BY <3>1
  <2> QED
    BY <1>6, <1>7, <2>1 DEF Call!Cuts
<1>9. Cardinality(W) <= n + 1
  <2> DEFINE f == [k \in 0..n |-> IF k = 0 THEN 0 ELSE Call!End(b[k])]
  <2>1. f \in Surjection(0..n, W)
    <3>1. f \in [0..n -> W]
      BY <1>1
    <3>2. \A c \in W : \E k \in 0..n : f[k] = c
      <4>1. ASSUME NEW k \in 1..n PROVE k \in 0..n /\ f[k] = Call!End(b[k])
        BY <1>1
      <4>2. 0 \in 0..n /\ f[0] = 0
        BY <1>1
      <4> QED
        BY <4>1, <4>2
    <3> QED
      BY <3>1, <3>2, Zenon DEF Surjection
  <2>2. IsFiniteSet(0..n) /\ Cardinality(0..n) = n + 1
    <3>1. Cardinality(0..n) = IF 0 > n THEN 0 ELSE n - 0 + 1
      BY <1>1, FS_Interval
    <3> QED
      BY <1>1, <3>1, FS_Interval
  <2> HIDE DEF f, W
  <2>3. Cardinality(W) <= Cardinality(0..n)
    BY <2>1, <2>2, FS_Surjection, Zenon
  <2> QED
    BY <2>2, <2>3
<1> HIDE DEF W
<1>10. ASSUME NEW C \in Call!Cuts(s1)
       PROVE  Cardinality(C) \in Nat /\ n <= Cardinality(C) - 1 /\ Call!Cardinality(C) = Cardinality(C)
  <2>1. /\ Cardinality(C \cap (1..m)) \in Nat /\ Cardinality(C) \in Nat
        /\ Cardinality(C) = Cardinality(C \cap (1..m)) + 1
    BY <1>1, CutSetCounts
  <2>2. n <= Cardinality(C \cap (1..m))
    BY CallFiniteSets DEF Call!NoneFewer
  <2> QED
    BY <1>1, <2>1, <2>2, CallFiniteSets
<1> DEFINE N == {Call!Cardinality(C) - 1 : C \in Call!Cuts(s1)}
<1>11. Cardinality(W) - 1 = n /\ Call!Cardinality(W) = Cardinality(W)
  BY <1>1, <1>8, <1>9, <1>10
<1>12. n \in N
  BY <1>8, <1>11
<1>13. \A y \in N : y \in Int /\ n <= y
  BY <1>10
<1> HIDE DEF N
<1>14. Call!Min(N) = n
  <2>1. Call!Min(N) = CHOOSE x \in N : \A y \in N : x <= y
    BY DEF Call!Min
  <2>2. \A x \in N : (\A y \in N : x <= y) => x = n
    BY <1>1, <1>12, <1>13
  <2> QED
    BY <1>12, <1>13, <2>1, <2>2
<1> QED
  BY <1>14 DEF Call!FewestBatches, N

------------------------------------------------------------------------------
(* ServerlessCall: splitTextRequest *)

\* The size of the request for one text.
LEMMA PayloadOne ==
  ASSUME Call!CallAssumption, NEW ts \in Seq(Nat), NEW k \in Nat, k < Len(ts)
  PROVE  Call!PayloadBytes(ts, k, k + 1) = EmptyBytes + ts[k + 1]
<1>1. k <= k /\ k <= Len(ts)
  BY LenProperties
<1>2. Call!PayloadBytes(ts, k, k + 1) = Call!PayloadBytes(ts, k, k) + ts[k + 1] + (IF k > k THEN 1 ELSE 0)
  BY <1>1, PayloadNext, Zenon
<1>3. Call!PayloadBytes(ts, k, k) = EmptyBytes
  BY <1>1, PayloadNext, Zenon
<1>4. EmptyBytes \in Nat /\ ts[k + 1] \in Nat
  <2>1. k + 1 \in 1..Len(ts)
    OBVIOUS
  <2> QED
    BY <2>1, ElementOfSeq DEF Call!CallAssumption
<1>5. ~(k > k)
  OBVIOUS
<1> QED
  BY <1>2, <1>3, <1>4, <1>5

\* The types that the steps rely on.
LEMMA CallFields ==
  ASSUME Call!CallAssumption, Call!CallShape
  PROVE  /\ s1 \in Seq(Nat) /\ Len(s1) \in Nat /\ \A k \in 1..Len(s1) : s1[k] \in Nat
         /\ s3.batches \in Seq(Call!BatchShape) /\ s3.seen \in Nat /\ s3.start \in Nat /\ s3.estimated \in Nat
         /\ s4.pc \in Call!CallPCs /\ s4.i \in 1..MaxTexts + 1 /\ s4.merged \in Seq(Nat) /\ s4.models \in SUBSET Models
         /\ {EmptyBytes, MaxRequestBytes, MaxTexts, MaxLines, MaxRetryTimes} \subseteq Nat
         /\ MaxRetryTimes > 0
<1>1. TextBytes \subseteq Nat /\ s1 \in Seq(TextBytes)
  BY DEF Call!CallShape, Call!CallAssumption
<1>2. Len(s1) \in Nat /\ \A k \in 1..Len(s1) : s1[k] \in Nat
  BY <1>1, LenProperties, ElementOfSeq
<1>3. s1 \in Seq(Nat)
  <2>1. s1 = [k \in 1..Len(s1) |-> s1[k]]
    BY <1>1
  <2> QED
    BY <1>2, <2>1
<1>4. /\ s3.batches \in Seq(Call!BatchShape) /\ s3.seen \in Nat /\ s3.start \in Nat /\ s3.estimated \in Nat
  BY DEF Call!CallShape, Call!PlanShape
<1>5. /\ s4.pc \in Call!CallPCs /\ s4.i \in 1..MaxTexts + 1 /\ s4.merged \in Seq(Nat) /\ s4.models \in SUBSET Models
  BY DEF Call!CallShape, Call!CoShape
<1>6. {EmptyBytes, MaxRequestBytes, MaxTexts, MaxLines, MaxRetryTimes} \subseteq Nat /\ MaxRetryTimes > 0
  BY DEF Call!CallAssumption
<1> QED
  BY <1>2, <1>3, <1>4, <1>5, <1>6

\* What the coordinator becomes when it goes on.
LEMMA CoSteps ==
  ASSUME s4 \in Call!CoShape, NEW l \in Call!CallPCs, Call!CoGoes(l)
  PROVE  s4' \in Call!CoShape /\ s4'.pc = l /\ s4'.i = s4.i /\ s4'.merged = s4.merged /\ s4'.models = s4.models
BY DEF Call!CoGoes, Call!CoShape

\* There are no more batches than texts.
LEMMA CoversLen ==
  ASSUME NEW b \in Seq(Call!BatchShape), NEW n \in Nat, Call!Covers(s1, b, n)
  PROVE  Len(b) \in Nat /\ Len(b) <= n
<1>1. Len(b) \in Nat
  BY LenProperties
<1>2. CASE Len(b) = 0
  BY <1>2
<1>3. CASE Len(b) > 0
  <2>1. Len(b) \in DOMAIN b /\ b # <<>>
    BY <1>1, <1>3
  <2> QED
    BY <1>1, <2>1 DEF Call!Covers
<1> QED
  BY <1>1, <1>2, <1>3

\* splitTextRequest refuses a request only if some text does not fit on its own.
LEMMA RefusedKnown ==
  ASSUME Call!CallShape, Call!PlanKnows, NEW e \in {"too large", "mismatch"}, Call!Refuse(e), s1' = s1,
         ~Call!Fits(s1, 0, 0) \/ \E k \in 1..Len(s1) : ~Call!Fits(s1, k - 1, k)
  PROVE  /\ s3' \in Call!PlanShape /\ s4' \in Call!CoShape
         /\ s4'.pc = "refused" /\ s4'.i = s4.i /\ s4'.merged = s4.merged /\ s4'.models = s4.models
         /\ Call!PlanKnows' /\ Call!PlanIsOptimal'
<1>1. /\ s4' \in Call!CoShape /\ s4'.pc = "refused" /\ s4'.i = s4.i
      /\ s4'.merged = s4.merged /\ s4'.models = s4.models
  BY CoSteps DEF Call!Refuse, Call!CallShape, Call!CallPCs
<1>2. s3' \in Call!PlanShape /\ s3'.err = e /\ s3'.batches = s3.batches
  BY DEF Call!Refuse, Call!CallShape, Call!PlanShape
<1>3. Call!PlanKnows'
  BY <1>1, <1>2 DEF Call!PlanKnows
<1>4. Call!PlanIsOptimal'
  BY <1>1, <1>2 DEF Call!PlanIsOptimal
<1> QED
  BY <1>1, <1>2, <1>3, <1>4

\* What PlanKnows says within the loop.
LEMMA LoopKnows ==
  ASSUME Call!PlanKnows, s4.pc = "plan"
  PROVE  /\ s3.err = "none" /\ s3.seen <= Len(s1)
         /\ s3.start < s3.seen \/ (s3.start = 0 /\ s3.seen = 0)
         /\ s3.estimated = Call!PayloadBytes(s1, s3.start, s3.seen)
         /\ s3.estimated <= MaxRequestBytes
         /\ Call!Covers(s1, s3.batches, s3.start) /\ Call!NoneFewer(s1, s3.batches, s3.start)
BY DEF Call!PlanKnows

\* SplitStart
LEMMA SplitStartKnown ==
  ASSUME Call!CallAssumption, Call!CallShape, Call!PlanKnows, Call!SplitStart
  PROVE  /\ s3' \in Call!PlanShape /\ s4' \in Call!CoShape
         /\ s4'.pc \in {"plan", "refused"} /\ s4'.i = s4.i /\ s4'.merged = s4.merged /\ s4'.models = s4.models
         /\ Call!PlanKnows' /\ Call!PlanIsOptimal'
<1>1. s1' = s1 /\ s4.pc = "split"
  BY DEF Call!SplitStart, Call!At_
<1>2. s3 = [batches |-> <<>>, seen |-> 0, start |-> 0, estimated |-> EmptyBytes, err |-> "none"]
  BY <1>1 DEF Call!PlanKnows
<1>3. s1 \in Seq(Nat) /\ Len(s1) \in Nat /\ {EmptyBytes, MaxRequestBytes} \subseteq Nat
  BY CallFields
<1>4. Call!PayloadBytes(s1, 0, 0) = EmptyBytes
  BY <1>3, PayloadNext
<1>5. CASE EmptyBytes > MaxRequestBytes
  <2>1. Call!Refuse("too large")
    BY <1>5 DEF Call!SplitStart
  <2>2. ~Call!Fits(s1, 0, 0)
    BY <1>3, <1>4, <1>5 DEF Call!Fits
  <2> QED
    BY <1>1, <2>1, <2>2, RefusedKnown
<1>6. CASE ~(EmptyBytes > MaxRequestBytes)
  <2>1. Call!CoGoes("plan") /\ s3' = s3
    BY <1>6 DEF Call!SplitStart
  <2>2. /\ s4' \in Call!CoShape /\ s4'.pc = "plan" /\ s4'.i = s4.i
        /\ s4'.merged = s4.merged /\ s4'.models = s4.models
    BY <2>1, CoSteps DEF Call!CallShape, Call!CallPCs
  <2>3. /\ s3'.err = "none" /\ s3'.seen = 0 /\ s3'.start = 0 /\ s3'.estimated = EmptyBytes
        /\ s3'.batches = <<>> /\ s3' \in Call!PlanShape
    BY <1>2, <2>1 DEF Call!CallShape
  <2>4. Call!Covers(s1, <<>>, 0)
    BY DEF Call!Covers
  <2>5. Call!NoneFewer(s1, <<>>, 0)
    <3>1. ASSUME NEW C \in Call!Cuts(s1) PROVE 0 <= Call!Cardinality(C \cap (1..0))
      <4>1. Cardinality(C \cap (1..0)) \in Nat
        BY <1>3, CutSetCounts
      <4> QED
        BY <4>1, CallFiniteSets
    <3> QED
      BY <3>1 DEF Call!NoneFewer
  <2>6. Call!PlanKnows'
    BY <1>1, <1>3, <1>4, <1>6, <2>2, EmptySeq, <2>3, <2>4, <2>5 DEF Call!PlanKnows
  <2>7. Call!PlanIsOptimal'
    BY <2>2 DEF Call!PlanIsOptimal
  <2> QED
    BY <2>2, <2>3, <2>6, <2>7
<1> QED
  BY <1>5, <1>6

\* SplitText
LEMMA SplitTextKnown ==
  ASSUME Call!CallAssumption, Call!CallShape, Call!PlanKnows, Call!SplitText
  PROVE  /\ s3' \in Call!PlanShape /\ s4' \in Call!CoShape
         /\ s4'.pc \in {"plan", "refused"} /\ s4'.i = s4.i /\ s4'.merged = s4.merged /\ s4'.models = s4.models
         /\ Call!PlanKnows' /\ Call!PlanIsOptimal'
<1> DEFINE i == s3.seen + 1
           next == s3.estimated + s1[i] + (IF s3.seen > s3.start THEN 1 ELSE 0)
           alone == EmptyBytes + s1[i]
<1>1. s1' = s1 /\ s4.pc = "plan" /\ s3.seen < Len(s1)
  BY DEF Call!SplitText, Call!At_
<1>2. /\ s3.err = "none"
      /\ s3.start < s3.seen \/ (s3.start = 0 /\ s3.seen = 0)
      /\ s3.estimated = Call!PayloadBytes(s1, s3.start, s3.seen) /\ s3.estimated <= MaxRequestBytes
      /\ Call!Covers(s1, s3.batches, s3.start) /\ Call!NoneFewer(s1, s3.batches, s3.start)
  BY <1>1, LoopKnows
<1>3. /\ s1 \in Seq(Nat) /\ Len(s1) \in Nat /\ EmptyBytes \in Nat /\ MaxRequestBytes \in Nat
      /\ s3.batches \in Seq(Call!BatchShape) /\ s3.seen \in Nat /\ s3.start \in Nat /\ s3.estimated \in Nat
  BY CallFields
<1>4. i \in Nat /\ i \in 1..Len(s1) /\ i - 1 = s3.seen /\ s1[i] \in Nat /\ next \in Nat /\ alone \in Nat
  <2>1. i \in Nat /\ i \in 1..Len(s1) /\ i - 1 = s3.seen
    BY <1>1, <1>3
  <2>2. s1[i] \in Nat
    BY <2>1, CallFields
  <2> HIDE DEF i
  <2> QED
    BY <1>3, <2>1, <2>2, SMTT(30)
<1>5. Call!PayloadBytes(s1, s3.start, i) = next
  <2>1. s3.start <= s3.seen /\ s3.seen <= Len(s1)
    BY <1>1, <1>2, <1>3
  <2>2. Call!PayloadBytes(s1, s3.start, s3.seen + 1)
          = Call!PayloadBytes(s1, s3.start, s3.seen) + s1[s3.seen + 1] + (IF s3.seen > s3.start THEN 1 ELSE 0)
    BY <1>1, <1>3, <2>1, PayloadNext
  <2> QED
    BY <1>2, <2>2
<1>6. Call!PayloadBytes(s1, i - 1, i) = alone
  <2>1. Call!PayloadBytes(s1, s3.seen, s3.seen + 1) = EmptyBytes + s1[s3.seen + 1]
    BY <1>1, <1>3, PayloadOne
  <2> QED
    BY <1>4, <2>1
<1>7. \/ next <= MaxRequestBytes /\ s3' = [s3 EXCEPT !.seen = i, !.estimated = next] /\ s4' = s4
      \/ next > MaxRequestBytes /\ Call!Unfit(alone) # "none" /\ Call!Refuse(Call!Unfit(alone))
      \/ /\ next > MaxRequestBytes /\ Call!Unfit(alone) = "none"
         /\ s3' = [s3 EXCEPT !.batches = Append(s3.batches, Call!Batch(s3.start, s3.seen)),
                             !.start = s3.seen, !.seen = i, !.estimated = alone]
         /\ s4' = s4
  BY DEF Call!SplitText
<1> HIDE DEF next, alone
<1>8. s4 \in Call!CoShape
  BY DEF Call!CallShape
<1>9. CASE next <= MaxRequestBytes /\ s3' = [s3 EXCEPT !.seen = i, !.estimated = next] /\ s4' = s4
  <2>1. /\ s3' \in Call!PlanShape /\ s3'.seen = i /\ s3'.estimated = next /\ s3'.batches = s3.batches
        /\ s3'.start = s3.start /\ s3'.err = s3.err
    BY <1>4, <1>9 DEF Call!CallShape, Call!PlanShape
  <2>2. Call!PlanKnows'
    <3>1. s3.start < i /\ i <= Len(s1)
      <4>1. s3.start <= s3.seen
        BY <1>2, <1>3
      <4> QED
        BY <1>3, <1>4, <4>1
    <3>2. Len(s3.batches) <= Len(s1)
      BY DEF Call!PlanKnows
    <3> HIDE DEF i
    <3> QED
      BY <1>1, <1>2, <1>5, <1>9, <2>1, <3>1, <3>2 DEF Call!PlanKnows
  <2>3. Call!PlanIsOptimal'
    BY <1>1, <1>9 DEF Call!PlanIsOptimal
  <2> QED
    BY <1>1, <1>8, <1>9, <2>1, <2>2, <2>3
<1>10. CASE next > MaxRequestBytes /\ Call!Unfit(alone) # "none" /\ Call!Refuse(Call!Unfit(alone))
  <2>1. ~(Call!PayloadBytes(s1, s3.start, s3.seen) > MaxRequestBytes)
    BY <1>2, <1>3
  <2>2. Call!Unfit(alone) = "too large" /\ (s3.seen = s3.start \/ alone > MaxRequestBytes)
    BY <1>10, <2>1 DEF Call!Unfit
  <2>3. alone > MaxRequestBytes
    <3>1. CASE s3.seen = s3.start
      BY <1>3, <1>4, <1>5, <1>6, <1>10, <3>1
    <3> QED
      BY <2>2, <3>1
  <2>4. ~Call!Fits(s1, i - 1, i)
    BY <1>3, <1>4, <1>6, <2>3 DEF Call!Fits
  <2>5. Call!Refuse("too large")
    BY <1>10, <2>2
  <2> QED
    BY <1>1, <1>4, <2>4, <2>5, RefusedKnown
<1>11. CASE /\ next > MaxRequestBytes /\ Call!Unfit(alone) = "none"
            /\ s3' = [s3 EXCEPT !.batches = Append(s3.batches, Call!Batch(s3.start, s3.seen)),
                                !.start = s3.seen, !.seen = i, !.estimated = alone]
            /\ s4' = s4
  <2> DEFINE x == Call!Batch(s3.start, s3.seen)
             nb == Append(s3.batches, x)
  <2>1. s3.seen # s3.start /\ ~(alone > MaxRequestBytes)
    BY <1>11 DEF Call!Unfit
  <2>2. s3.start < s3.seen
    BY <1>2, <2>1
  <2>3. Call!Fits(s1, s3.start, s3.seen)
    BY <1>2 DEF Call!Fits
  <2>4. x \in Call!BatchShape /\ Call!Covers(s1, nb, s3.seen)
    BY <1>2, <1>3, <2>2, <2>3, CoversNext
  <2>5. Call!PayloadBytes(s1, s3.start, s3.seen + 1) > MaxRequestBytes
    BY <1>5, <1>11
  <2> HIDE DEF x
  <2>6. Call!NoneFewer(s1, nb, s3.seen)
    BY <1>1, <1>2, <1>3, <2>2, <2>4, <2>5, NoneFewerNext
  <2>7. nb \in Seq(Call!BatchShape)
    BY <1>3, <2>4, AppendProperties
  <2>8. s3' = [s3 EXCEPT !.batches = nb, !.start = s3.seen, !.seen = i, !.estimated = alone]
    BY <1>11 DEF x
  <2> HIDE DEF nb
  <2>9. /\ s3' \in Call!PlanShape /\ s3'.seen = i /\ s3'.estimated = alone /\ s3'.batches = nb
        /\ s3'.start = s3.seen /\ s3'.err = s3.err
    BY <1>3, <1>4, <2>7, <2>8 DEF Call!CallShape, Call!PlanShape
  <2>10. Call!PlanKnows'
    <3>1. s3.seen < i /\ i <= Len(s1) /\ alone <= MaxRequestBytes
      BY <1>3, <1>4, <2>1
    <3>2. Call!PayloadBytes(s1, s3.seen, i) = alone
      BY <1>4, <1>6
    <3>3. Len(nb) <= Len(s1)
      <4>1. Len(nb) \in Nat /\ Len(nb) <= s3.seen
        BY <1>3, <2>4, <2>7, CoversLen
      <4> QED
        BY <1>1, <1>3, <4>1
    <3> HIDE DEF i
    <3> QED
      BY <1>1, <1>2, <1>11, <2>4, <2>6, <2>9, <3>1, <3>2, <3>3 DEF Call!PlanKnows
  <2>11. Call!PlanIsOptimal'
    BY <1>1, <1>11 DEF Call!PlanIsOptimal
  <2> QED
    BY <1>1, <1>8, <1>11, <2>9, <2>10, <2>11
<1> QED
  BY <1>7, <1>9, <1>10, <1>11

\* Batches that cover all texts and are as few as possible are an optimal plan.
LEMMA PlanFound ==
  ASSUME Call!CallAssumption, s1 \in Seq(Nat), s1' = s1, s3' \in Call!PlanShape, s3'.err = "none",
         s4'.pc \in {"single", "batch"},
         Call!Covers(s1, s3'.batches, Len(s1)), Call!NoneFewer(s1, s3'.batches, Len(s1))
  PROVE  Call!PlanKnows' /\ Call!PlanIsOptimal'
<1> DEFINE b == s3'.batches
<1>1. b \in Seq(Call!BatchShape)
  BY DEF Call!PlanShape
<1>2. Len(b) = Call!FewestBatches(s1)
  BY <1>1, FewestFound
<1>3. Call!PlanKnows'
  <2>1. Len(b) <= Len(s1)
    BY <1>1, CoversLen, LenProperties
  <2> QED
    BY <2>1 DEF Call!PlanKnows
<1>4. /\ \A k \in DOMAIN b : /\ Call!Fits(s1, b[k].itemOffset, Call!End(b[k])) /\ b[k].itemCount > 0
                             /\ b[k].itemOffset = IF k = 1 THEN 0 ELSE Call!End(b[k - 1])
      /\ Len(s1) = IF b = <<>> THEN 0 ELSE Call!End(b[Len(b)])
  BY DEF Call!Covers
<1>5. Call!PlanIsOptimal'
  BY <1>2, <1>4 DEF Call!PlanIsOptimal
<1> QED
  BY <1>3, <1>5

\* SplitEnd
LEMMA SplitEndKnown ==
  ASSUME Call!CallAssumption, Call!CallShape, Call!PlanKnows, Call!SplitEnd
  PROVE  /\ s3' \in Call!PlanShape /\ s4' \in Call!CoShape
         /\ s4'.pc \in {"single", "batch"} /\ s4'.i = s4.i /\ s4'.merged = s4.merged /\ s4'.models = s4.models
         /\ s4'.pc = "batch" => Len(s3'.batches) > 1
         /\ Call!PlanKnows' /\ Call!PlanIsOptimal'
<1>1. s1' = s1 /\ s4.pc = "plan" /\ s3.seen = Len(s1)
  BY DEF Call!SplitEnd, Call!At_
<1>2. /\ s3.err = "none"
      /\ s3.start < s3.seen \/ (s3.start = 0 /\ s3.seen = 0)
      /\ s3.estimated = Call!PayloadBytes(s1, s3.start, s3.seen) /\ s3.estimated <= MaxRequestBytes
      /\ Call!Covers(s1, s3.batches, s3.start) /\ Call!NoneFewer(s1, s3.batches, s3.start)
  BY <1>1, LoopKnows
<1>3. /\ s1 \in Seq(Nat) /\ Len(s1) \in Nat /\ MaxRequestBytes \in Nat
      /\ s3.batches \in Seq(Call!BatchShape) /\ s3.seen \in Nat /\ s3.start \in Nat /\ s3.estimated \in Nat
  BY CallFields
<1> DEFINE x == Call!Batch(s3.start, s3.seen)
           nb == Append(s3.batches, x)
<1>4. /\ s3' = IF s3.start < s3.seen THEN [s3 EXCEPT !.batches = nb, !.start = s3.seen] ELSE s3
      /\ Call!CoGoes(IF Len(s3'.batches) <= 1 THEN "single" ELSE "batch")
  BY <1>2, <1>3 DEF Call!SplitEnd
<1>5. /\ s3' \in Call!PlanShape /\ s3'.err = "none"
      /\ Call!Covers(s1, s3'.batches, Len(s1)) /\ Call!NoneFewer(s1, s3'.batches, Len(s1))
  <2>1. CASE s3.start < s3.seen
    <3>1. Call!Fits(s1, s3.start, s3.seen)
      BY <1>2 DEF Call!Fits
    <3>2. x \in Call!BatchShape /\ Call!Covers(s1, nb, s3.seen)
      BY <1>2, <1>3, <2>1, <3>1, CoversNext
    <3> HIDE DEF x
    <3>3. Call!NoneFewer(s1, nb, Len(s1))
      BY <1>1, <1>2, <1>3, <2>1, <3>2, NoneFewerLast
    <3>4. nb \in Seq(Call!BatchShape)
      BY <1>3, <3>2, AppendProperties
    <3> HIDE DEF nb
    <3>5. s3' \in Call!PlanShape /\ s3'.err = s3.err /\ s3'.batches = nb
      BY <1>3, <1>4, <2>1, <3>4 DEF Call!CallShape, Call!PlanShape
    <3> QED
      BY <1>1, <1>2, <3>2, <3>3, <3>5
  <2>2. CASE s3.start = 0 /\ s3.seen = 0
    BY <1>1, <1>2, <1>4, <2>2 DEF Call!CallShape
  <2> QED
    BY <1>2, <2>1, <2>2
<1> HIDE DEF nb
<1>6. Len(s3'.batches) \in Nat
  BY <1>5, LenProperties DEF Call!PlanShape
<1>7. /\ s4' \in Call!CoShape /\ s4'.pc = (IF Len(s3'.batches) <= 1 THEN "single" ELSE "batch")
      /\ s4'.i = s4.i /\ s4'.merged = s4.merged /\ s4'.models = s4.models
  <2> DEFINE l == IF Len(s3'.batches) <= 1 THEN "single" ELSE "batch"
  <2>1. l \in Call!CallPCs
    BY DEF Call!CallPCs
  <2>2. Call!CoGoes(l) /\ s4 \in Call!CoShape
    BY <1>4 DEF Call!CallShape
  <2> HIDE DEF l
  <2>3. /\ s4' \in Call!CoShape /\ s4'.pc = l
        /\ s4'.i = s4.i /\ s4'.merged = s4.merged /\ s4'.models = s4.models
    BY <2>1, <2>2, CoSteps
  <2> QED
    BY <2>3 DEF l
<1>8. s4'.pc \in {"single", "batch"} /\ (s4'.pc = "batch" => Len(s3'.batches) > 1)
  BY <1>6, <1>7
<1>9. Call!PlanKnows' /\ Call!PlanIsOptimal'
  BY <1>1, <1>3, <1>5, <1>8, PlanFound
<1> QED
  BY <1>5, <1>7, <1>8, <1>9

------------------------------------------------------------------------------
(* ServerlessCall: what is left alone *)

\* A plan that is found or refused stays.
LEMMA PlanKept ==
  ASSUME Call!PlanKnows, Call!PlanIsOptimal, s1' = s1, s3' = s3,
         \/ s4'.pc = s4.pc
         \/ s4.pc \notin {"split", "plan", "refused"} /\ s4'.pc \notin {"split", "plan", "refused"}
  PROVE  Call!PlanKnows' /\ Call!PlanIsOptimal'
<1>1. Call!PlanKnows'
  BY DEF Call!PlanKnows
<1>2. Call!PlanIsOptimal'
  BY DEF Call!PlanIsOptimal
<1> QED
  BY <1>1, <1>2

\* Nothing is known of the caller's stream that a step elsewhere could change.
LEMMA ClientKept ==
  ASSUME Call!ClientKnows, s1' = s1, s5' = s5, s4'.pc = s4.pc \/ s4'.pc # "close"
  PROVE  Call!ClientKnows'
BY DEF Call!ClientKnows, Call!Upto_

\* A batch that the step does not touch.
LEMMA BatchKept ==
  ASSUME NEW j \in Call!BatchIds, Call!BatchKnows(j), s3' = s3, s4'.i = s4.i,
         s8'[j] = s8[j], s9'[j] = s9[j], s10'[j] = s10[j],
         s10[j].pc \in {"activate", "invoke", "scan", "chunk"} /\ s9[j].st = "open" => s7' = s7 \/ (s7 = j => s7' = j),
         \/ j # s4.i
         \/ s4'.pc = s4.pc /\ (s4.pc = "write" /\ s7 = j => s7' = j)
         \/ s4'.pc \notin {"split", "plan", "refused", "single", "batch", "write"}
  PROVE  Call!BatchKnows(j)'
BY DEF Call!BatchKnows, Call!Fresh

\* The whole invariant from its parts.
LEMMA CallIInvNext ==
  ASSUME Call!CallShape, s1' = s1, s2' = s2,
         s3' \in Call!PlanShape, s4' \in Call!CoShape, s5' \in Call!ClientShape, s6' \in BOOLEAN,
         s7' \in 0..MaxTexts, s8' \in [Call!BatchIds -> Call!LisShape],
         s9' \in [Call!BatchIds -> Call!RespShape], s10' \in [Call!BatchIds -> Call!GorShape],
         Call!PlanKnows', Call!PlanIsOptimal', Call!CoKnows', Call!ClientKnows',
         \A j \in Call!BatchIds : Call!BatchKnows(j)'
  PROVE  Call!CallIInv'
<1>1. Call!CallShape'
  <2>1. s1' \in Seq(TextBytes) /\ Len(s1') <= MaxTexts /\ s2' \in {"embedding", "tokens"}
    BY DEF Call!CallShape
  <2>2. Call!BatchIds' = Call!BatchIds
    BY DEF Call!BatchIds
  <2> QED
    BY <2>1, <2>2, Zenon DEF Call!CallShape
<1> QED
  BY <1>1, Zenon DEF Call!CallIInv, Call!BatchIds

\* The parts of the shape.
LEMMA ShapeParts ==
  ASSUME Call!CallShape
  PROVE  /\ s3 \in Call!PlanShape /\ s4 \in Call!CoShape /\ s5 \in Call!ClientShape /\ s6 \in BOOLEAN
         /\ s7 \in 0..MaxTexts /\ s8 \in [Call!BatchIds -> Call!LisShape]
         /\ s9 \in [Call!BatchIds -> Call!RespShape] /\ s10 \in [Call!BatchIds -> Call!GorShape]
BY Zenon DEF Call!CallShape

\* A step of batch i, its listener, its response or its goroutine, that keeps what is known
\* of this batch.
LEMMA BatchMoves ==
  ASSUME Call!CallAssumption, Call!CallIInv, NEW i \in Call!BatchIds, ~Call!Fresh(i),
         s1' = s1, s2' = s2, s3' = s3, s4' = s4, s5' = s5, s6' = s6,
         s7' = s7 \/ s7' = Call!DeleteIf(i),
         s8' \in [Call!BatchIds -> Call!LisShape], s9' \in [Call!BatchIds -> Call!RespShape],
         s10' \in [Call!BatchIds -> Call!GorShape],
         \A j \in Call!BatchIds \ {i} : s8'[j] = s8[j] /\ s9'[j] = s9[j] /\ s10'[j] = s10[j],
         s9[i].st = "closed" => s9'[i].st = "closed",
         i = s4.i /\ s4.pc = "write" =>
           s7' = s7 /\ s8'[i].st = s8[i].st /\ s10'[i].pc = s10[i].pc /\ s9'[i].hook = s9[i].hook,
         s10'[i].pc \in {"activate", "invoke", "scan", "chunk"} /\ s9'[i].st = "open" => s7' = i /\ s8'[i].st = "open",
         s10'[i].pc # "none" => s10[i].pc # "none",
         Call!Whole(s3.batches[i], s9'[i].q), Call!Whole(s3.batches[i], s10'[i].held),
         s10'[i].tries < MaxRetryTimes, s10'[i].lines <= MaxLines
  PROVE  Call!CallIInv'
<1>1. /\ Call!CallShape /\ Call!PlanKnows /\ Call!PlanIsOptimal /\ Call!CoKnows /\ Call!ClientKnows
      /\ \A j \in Call!BatchIds : Call!BatchKnows(j)
  BY DEF Call!CallIInv
<1>2. /\ s3' \in Call!PlanShape /\ s4' \in Call!CoShape /\ s5' \in Call!ClientShape /\ s6' \in BOOLEAN
      /\ s7 \in 0..MaxTexts /\ MaxTexts \in Nat
  BY <1>1, ShapeParts, CallFields
<1>3. s7' \in 0..MaxTexts /\ (s7 = 0 => s7' = 0) /\ \A j \in Call!BatchIds \ {i} : s7 = j => s7' = j
  BY <1>2 DEF Call!DeleteIf, Call!BatchIds
<1>4. Call!PlanKnows' /\ Call!PlanIsOptimal'
  BY <1>1, PlanKept
<1>5. Call!ClientKnows'
  BY <1>1, ClientKept
<1>6. Call!CoKnows'
  BY <1>1, <1>3 DEF Call!CoKnows, Call!Upto_
<1>7. Call!BatchKnows(i)'
  BY <1>1 DEF Call!BatchKnows
<1>8. ASSUME NEW j \in Call!BatchIds \ {i} PROVE Call!BatchKnows(j)'
  <2>1. Call!BatchKnows(j) /\ s8'[j] = s8[j] /\ s9'[j] = s9[j] /\ s10'[j] = s10[j] /\ (s7 = j => s7' = j)
    BY <1>1, <1>3
  <2> QED
    BY <2>1, BatchKept
<1> QED
  BY <1>1, <1>2, <1>3, <1>4, <1>5, <1>6, <1>7, <1>8, CallIInvNext

\* The outcome is marked while the caller is closing its stream.
LEMMA ClientMarked ==
  ASSUME Call!ClientKnows, s5 \in Call!ClientShape, s1' = s1, s5.st = "leaving",
         NEW o \in {"success", "error", "canceled"}, s5' = [s5 EXCEPT !.outcome = o]
  PROVE  s5' \in Call!ClientShape /\ Call!ClientKnows'
<1>1. /\ s5' \in Call!ClientShape /\ s5'.st = "leaving" /\ s5'.err = s5.err /\ s5'.recorded = s5.recorded
      /\ s5'.data = s5.data
  BY DEF Call!ClientShape
<1> QED
  BY <1>1 DEF Call!ClientKnows, Call!Upto_

\* closeServerlessBatchResponse: the caller reads an error, unless the stream is closed.
LEMMA FailCallKnown ==
  ASSUME Call!CallShape, Call!ClientKnows, Call!FailCall("ended"), s1' = s1
  PROVE  /\ s4' \in Call!CoShape /\ s4'.pc = "ended" /\ s4'.i = s4.i
         /\ s4'.merged = s4.merged /\ s4'.models = s4.models
         /\ s5' \in Call!ClientShape /\ s6' \in BOOLEAN /\ Call!ClientKnows'
<1>0. s4 \in Call!CoShape /\ s5 \in Call!ClientShape
  BY ShapeParts
<1>1. /\ s4' \in Call!CoShape /\ s4'.pc = "ended" /\ s4'.i = s4.i
      /\ s4'.merged = s4.merged /\ s4'.models = s4.models
  BY <1>0, CoSteps DEF Call!FailCall, Call!CallPCs
<1>2. s6' \in BOOLEAN
  <2>1. s6 \in BOOLEAN
    BY ShapeParts
  <2> QED
    BY <2>1, Zenon DEF Call!FailCall, Call!CloseClient
<1> DEFINE o == IF s6 THEN s5.outcome ELSE "error"
<1>3. CASE s5' = s5
  BY <1>0, <1>1, <1>2, <1>3, ClientKept
<1>4. CASE s5.st = "open" /\ s5' = [s5 EXCEPT !.st = "closed", !.err = "yes", !.outcome = o, !.recorded = o]
  <2>1. o \in {"canceled", "error"}
    BY <1>4 DEF Call!ClientKnows
  <2> HIDE DEF o
  <2>2. s5' \in Call!ClientShape /\ s5'.st = "closed" /\ s5'.err = "yes" /\ s5'.recorded = o /\ s5'.data = s5.data
    BY <1>0, <1>4, <2>1 DEF Call!ClientShape
  <2>3. Call!ClientKnows'
    BY <1>1, <2>1, <2>2 DEF Call!ClientKnows, Call!Upto_
  <2> QED
    BY <1>1, <1>2, <2>2, <2>3
<1>5. CASE s5.st = "leaving" /\ s5' = [s5 EXCEPT !.outcome = o]
  <2>1. o \in {"success", "error", "canceled"}
    BY <1>0 DEF Call!ClientShape
  <2> HIDE DEF o
  <2>2. s5' \in Call!ClientShape /\ Call!ClientKnows'
    BY <1>0, <1>1, <1>5, <2>1, ClientMarked
  <2> QED
    BY <1>1, <1>2, <2>2
<1> QED
  BY <1>3, <1>4, <1>5 DEF Call!FailCall, Call!CloseClient

\* A coordinator that has ended keeps what it merged.
LEMMA CoEnds ==
  ASSUME Call!CoKnows, s1' = s1, s2' = s2, s4'.pc = "ended",
         s4'.merged = s4.merged, s4'.models = s4.models
  PROVE  Call!CoKnows'
BY DEF Call!CoKnows

\* The coordinator gives up.
LEMMA CoFails ==
  ASSUME Call!CallAssumption, Call!CallIInv, Call!FailCall("ended"),
         s4.pc \notin {"split", "plan", "refused", "single"},
         s1' = s1, s2' = s2, s3' = s3, s10' = s10,
         \/ s7' = s7
         \/ s7' = 0 /\ s7 = s4.i /\ s10[s4.i].pc = "none",
         s8' \in [Call!BatchIds -> Call!LisShape], s9' \in [Call!BatchIds -> Call!RespShape],
         \A j \in Call!BatchIds \ {s4.i} : s8'[j] = s8[j] /\ s9'[j] = s9[j],
         s4.i \in Call!BatchIds =>
           /\ s9'[s4.i].st # s9[s4.i].st => s9[s4.i].st = "open"
           /\ s9'[s4.i].q \in {s9[s4.i].q, <<>>}
           /\ s8'[s4.i] = s8[s4.i] \/ s10[s4.i].pc = "none"
  PROVE  Call!CallIInv'
<1>1. /\ Call!CallShape /\ Call!PlanKnows /\ Call!PlanIsOptimal /\ Call!CoKnows /\ Call!ClientKnows
      /\ \A j \in Call!BatchIds : Call!BatchKnows(j)
  BY DEF Call!CallIInv
<1>2. /\ s4' \in Call!CoShape /\ s4'.pc = "ended" /\ s4'.i = s4.i
      /\ s4'.merged = s4.merged /\ s4'.models = s4.models
      /\ s5' \in Call!ClientShape /\ s6' \in BOOLEAN /\ Call!ClientKnows'
  BY <1>1, FailCallKnown
<1>3. s3' \in Call!PlanShape /\ s7' \in 0..MaxTexts /\ s10' \in [Call!BatchIds -> Call!GorShape]
  BY <1>1, ShapeParts, CallFields
<1>4. Call!PlanKnows' /\ Call!PlanIsOptimal'
  BY <1>1, <1>2, PlanKept
<1>5. Call!CoKnows'
  BY <1>1, <1>2, CoEnds
<1>6. ASSUME NEW j \in Call!BatchIds, j # s4.i PROVE Call!BatchKnows(j)'
  <2>1. Call!BatchKnows(j) /\ s8'[j] = s8[j] /\ s9'[j] = s9[j] /\ s10'[j] = s10[j]
    BY <1>1, <1>6
  <2>2. s7' = s7 \/ (s7 = j => s7' = j)
    BY <1>6
  <2> QED
    BY <1>2, <1>6, <2>1, <2>2, BatchKept
<1>7. ASSUME NEW j \in Call!BatchIds, j = s4.i PROVE Call!BatchKnows(j)'
  <2>1. Call!BatchKnows(j)
    BY <1>1, <1>7
  <2>2. /\ s4'.i = j
        /\ s9'[j].st # s9[j].st => s9[j].st = "open"
        /\ s9'[j].q \in {s9[j].q, <<>>}
        /\ s8'[j] = s8[j] \/ s10[j].pc = "none"
    BY <1>2, <1>7
  <2>3. Call!Whole(s3.batches[j], <<>>)
    BY DEF Call!Whole
  <2>4. j \in 1..MaxTexts + 1 /\ MaxTexts \in Nat
    BY <1>1, <1>7, CallFields
  <2> QED
    BY <1>2, <2>1, <2>2, <2>3, <2>4 DEF Call!BatchKnows
<1> QED
  BY <1>1, <1>2, <1>3, <1>4, <1>5, <1>6, <1>7, CallIInvNext

------------------------------------------------------------------------------
(* ServerlessCall: listeners, responses and goroutines *)

\* A listener whose state is set.
LEMMA LisGoes ==
  ASSUME s8 \in [Call!BatchIds -> Call!LisShape], NEW i \in Call!BatchIds,
         NEW x \in {"none", "open", "closing", "closed"}, s8' = [s8 EXCEPT ![i].st = x]
  PROVE  /\ s8' \in [Call!BatchIds -> Call!LisShape] /\ s8'[i].st = x
         /\ \A j \in Call!BatchIds \ {i} : s8'[j] = s8[j]
BY DEF Call!LisShape

\* Broadcast.Close
LEMMA LisCloses ==
  ASSUME s8 \in [Call!BatchIds -> Call!LisShape], NEW i \in Call!BatchIds,
         NEW x \in {"co", "resp", "gor"}, s8' = Call!ListenerClosing(i, x)
  PROVE  /\ s8' \in [Call!BatchIds -> Call!LisShape]
         /\ \A j \in Call!BatchIds \ {i} : s8'[j] = s8[j]
<1>1. CASE s8[i].st = "open"
  BY <1>1 DEF Call!LisShape, Call!ListenerClosing
<1>2. CASE s8[i].st # "open"
  BY <1>2 DEF Call!ListenerClosing
<1> QED
  BY <1>1, <1>2

\* Stream.close of a response.
LEMMA RespCloses ==
  ASSUME s9 \in [Call!BatchIds -> Call!RespShape], NEW i \in Call!BatchIds, NEW e \in Call!YesNo,
         NEW x \in {"co", "cancel", "gor"}, s9' = Call!Closing(i, e, x)
  PROVE  /\ s9' \in [Call!BatchIds -> Call!RespShape]
         /\ s9'[i].st # "open" /\ (s9[i].st # "open" => s9'[i].st = s9[i].st)
         /\ s9'[i].q = s9[i].q /\ s9'[i].hook = s9[i].hook
         /\ \A j \in Call!BatchIds \ {i} : s9'[j] = s9[j]
<1>1. CASE s9[i].st = "open"
  <2> DEFINE r == [s9[i] EXCEPT !.st = "closing", !.err = e, !.by = x]
  <2>1. r \in Call!RespShape /\ r.st = "closing" /\ r.q = s9[i].q /\ r.hook = s9[i].hook
    BY DEF Call!RespShape
  <2>2. s9' = [s9 EXCEPT ![i] = r]
    BY <1>1 DEF Call!Closing
  <2> HIDE DEF r
  <2> QED
    BY <1>1, <2>1, <2>2
<1>2. CASE s9[i].st # "open"
  BY <1>2 DEF Call!Closing
<1> QED
  BY <1>1, <1>2

\* A response whose state is set.
LEMMA RespGoes ==
  ASSUME s9 \in [Call!BatchIds -> Call!RespShape], NEW i \in Call!BatchIds,
         NEW x \in {"open", "closing", "closed"}, s9' = [s9 EXCEPT ![i].st = x]
  PROVE  /\ s9' \in [Call!BatchIds -> Call!RespShape]
         /\ s9'[i].st = x /\ s9'[i].q = s9[i].q /\ s9'[i].hook = s9[i].hook
         /\ \A j \in Call!BatchIds \ {i} : s9'[j] = s9[j]
BY DEF Call!RespShape

\* Its callback is set or taken.
LEMMA RespHooks ==
  ASSUME s9 \in [Call!BatchIds -> Call!RespShape], NEW i \in Call!BatchIds,
         NEW x \in {"no", "yes", "ran"}, s9' = [s9 EXCEPT ![i].hook = x]
  PROVE  /\ s9' \in [Call!BatchIds -> Call!RespShape]
         /\ s9'[i].st = s9[i].st /\ s9'[i].q = s9[i].q /\ s9'[i].hook = x
         /\ \A j \in Call!BatchIds \ {i} : s9'[j] = s9[j]
BY DEF Call!RespShape

\* Its buffer is set.
LEMMA RespFills ==
  ASSUME s9 \in [Call!BatchIds -> Call!RespShape], NEW i \in Call!BatchIds,
         NEW x \in Seq(Call!AnswerShape), s9' = [s9 EXCEPT ![i].q = x]
  PROVE  /\ s9' \in [Call!BatchIds -> Call!RespShape]
         /\ s9'[i].st = s9[i].st /\ s9'[i].q = x /\ s9'[i].hook = s9[i].hook
         /\ \A j \in Call!BatchIds \ {i} : s9'[j] = s9[j]
BY DEF Call!RespShape

\* A goroutine that goes on.
LEMMA GorSteps ==
  ASSUME s10 \in [Call!BatchIds -> Call!GorShape], NEW i \in Call!BatchIds,
         NEW l \in Call!GorPCs, Call!GorGoes(i, l)
  PROVE  /\ s10' \in [Call!BatchIds -> Call!GorShape] /\ s10'[i].pc = l
         /\ s10'[i].held = s10[i].held /\ s10'[i].tries = s10[i].tries /\ s10'[i].lines = s10[i].lines
         /\ \A j \in Call!BatchIds \ {i} : s10'[j] = s10[j]
BY DEF Call!GorGoes, Call!GorShape

\* A goroutine that ends with an error.
LEMMA GorFails ==
  ASSUME s10 \in [Call!BatchIds -> Call!GorShape], NEW i \in Call!BatchIds,
         s10' = [s10 EXCEPT ![i].pc = "delete", ![i].sendEnd = "no"]
  PROVE  /\ s10' \in [Call!BatchIds -> Call!GorShape] /\ s10'[i].pc = "delete"
         /\ s10'[i].held = s10[i].held /\ s10'[i].tries = s10[i].tries /\ s10'[i].lines = s10[i].lines
         /\ \A j \in Call!BatchIds \ {i} : s10'[j] = s10[j]
BY DEF Call!GorShape, Call!GorPCs, Call!YesNo

\* One more try.
LEMMA GorTries ==
  ASSUME s10 \in [Call!BatchIds -> Call!GorShape], NEW i \in Call!BatchIds,
         s10' = [s10 EXCEPT ![i].tries = @ + 1]
  PROVE  /\ s10' \in [Call!BatchIds -> Call!GorShape] /\ s10'[i].pc = s10[i].pc
         /\ s10'[i].held = s10[i].held /\ s10'[i].tries = s10[i].tries + 1 /\ s10'[i].lines = s10[i].lines
         /\ \A j \in Call!BatchIds \ {i} : s10'[j] = s10[j]
<1> DEFINE n == s10[i].tries + 1
           g == [s10[i] EXCEPT !.tries = n]
<1>1. n \in Nat
  BY DEF Call!GorShape
<1>2. s10' = [s10 EXCEPT ![i] = g]
  OBVIOUS
<1> HIDE DEF n
<1>3. g \in Call!GorShape /\ g.pc = s10[i].pc /\ g.held = s10[i].held /\ g.tries = n /\ g.lines = s10[i].lines
  BY <1>1 DEF Call!GorShape
<1> HIDE DEF g
<1> QED
  BY <1>2, <1>3 DEF n

\* A goroutine that becomes g.
LEMMA GorBecomes ==
  ASSUME s10 \in [Call!BatchIds -> Call!GorShape], NEW i \in Call!BatchIds,
         NEW g \in Call!GorShape, s10' = [s10 EXCEPT ![i] = g]
  PROVE  /\ s10' \in [Call!BatchIds -> Call!GorShape] /\ s10'[i] = g
         /\ \A j \in Call!BatchIds \ {i} : s10'[j] = s10[j]
OBVIOUS

------------------------------------------------------------------------------
(* ServerlessCall: the coordinator *)

\* splitTextRequest touches no batch.
LEMMA SplitKept ==
  ASSUME Call!CallAssumption, Call!CallIInv, s4.pc \in {"split", "plan"},
         s3' \in Call!PlanShape, s4' \in Call!CoShape, s4'.pc \in {"plan", "refused", "single", "batch"},
         s4'.i = s4.i, s4'.merged = s4.merged, s4'.models = s4.models,
         s4'.pc = "batch" => Len(s3'.batches) > 1,
         Call!PlanKnows', Call!PlanIsOptimal',
         s1' = s1, s2' = s2, s5' = s5, s6' = s6, s7' = s7, s8' = s8, s9' = s9, s10' = s10
  PROVE  Call!CallIInv'
<1>1. /\ Call!CallShape /\ Call!PlanKnows /\ Call!PlanIsOptimal /\ Call!CoKnows /\ Call!ClientKnows
      /\ \A j \in Call!BatchIds : Call!BatchKnows(j)
  BY DEF Call!CallIInv
<1>2. /\ s5' \in Call!ClientShape /\ s6' \in BOOLEAN
      /\ s7' \in 0..MaxTexts /\ s8' \in [Call!BatchIds -> Call!LisShape]
      /\ s9' \in [Call!BatchIds -> Call!RespShape] /\ s10' \in [Call!BatchIds -> Call!GorShape]
  BY <1>1, ShapeParts
<1>3. Call!ClientKnows'
  BY <1>1, ClientKept
<1>4. s4.i = 1 /\ s4.merged = <<>> /\ s7 = 0
  BY <1>1 DEF Call!CoKnows
<1>5. Call!CoKnows'
  <2>1. ASSUME s4'.pc = "batch"
        PROVE  s4'.i <= Len(s3'.batches) /\ s4'.merged = Call!Upto_(s3'.batches[s4'.i].itemOffset)
    <3> DEFINE b == s3'.batches
    <3>1. Len(b) > 1 /\ Len(b) \in Nat /\ DOMAIN b = 1..Len(b)
      BY <2>1, LenProperties DEF Call!PlanShape
    <3>2. Call!Covers(s1', b, Len(s1'))
      BY <2>1 DEF Call!PlanKnows
    <3>3. b[1].itemOffset = 0
      BY <3>1, <3>2 DEF Call!Covers
    <3>4. Call!Upto_(0) = <<>>
      BY DEF Call!Upto_
    <3> QED
      BY <1>4, <3>1, <3>3, <3>4
  <2> QED
    BY <1>1, <1>4, <2>1 DEF Call!CoKnows
<1>6. ASSUME NEW j \in Call!BatchIds PROVE Call!BatchKnows(j)'
  <2>1. j \in Nat /\ j >= 1
    BY <1>1, CallFields DEF Call!BatchIds
  <2>2. Call!Fresh(j)
    BY <1>1, <1>4, <2>1 DEF Call!BatchKnows
  <2>3. Call!Whole(s3'.batches[j], <<>>)
    BY DEF Call!Whole
  <2>4. /\ MaxRetryTimes > 0 /\ MaxLines \in Nat
    BY <1>1, CallFields
  <2>5. /\ s9'[j].q = <<>> /\ s9'[j].st = "open" /\ s10'[j].held = <<>> /\ s10'[j].pc = "none"
        /\ s10'[j].tries = 0 /\ s10'[j].lines = 0
    BY <2>2 DEF Call!Fresh, Call!NewResponse, Call!NoGoroutine
  <2>6. Call!Fresh(j)'
    BY <2>2 DEF Call!Fresh
  <2> QED
    BY <1>4, <2>1, <2>3, <2>4, <2>5, <2>6 DEF Call!BatchKnows
<1> QED
  BY <1>1, <1>2, <1>3, <1>5, <1>6, CallIInvNext

\* The steps of splitTextRequest.
LEMMA SplitStep ==
  ASSUME Call!CallAssumption, Call!CallIInv, Call!SplitStart \/ Call!SplitText \/ Call!SplitEnd
  PROVE  Call!CallIInv'
<1>1. Call!CallShape /\ Call!PlanKnows
  BY DEF Call!CallIInv
<1>2. /\ s4.pc \in {"split", "plan"}
      /\ s1' = s1 /\ s2' = s2 /\ s5' = s5 /\ s6' = s6 /\ s7' = s7 /\ s8' = s8 /\ s9' = s9 /\ s10' = s10
  BY DEF Call!SplitStart, Call!SplitText, Call!SplitEnd, Call!At_
<1>3. /\ s3' \in Call!PlanShape /\ s4' \in Call!CoShape
      /\ s4'.pc \in {"plan", "refused", "single", "batch"}
      /\ s4'.i = s4.i /\ s4'.merged = s4.merged /\ s4'.models = s4.models
      /\ s4'.pc = "batch" => Len(s3'.batches) > 1
      /\ Call!PlanKnows' /\ Call!PlanIsOptimal'
  <2>1. CASE Call!SplitStart
    BY <1>1, <2>1, SplitStartKnown
  <2>2. CASE Call!SplitText
    BY <1>1, <2>2, SplitTextKnown
  <2>3. CASE Call!SplitEnd
    BY <1>1, <2>3, SplitEndKnown
  <2> QED
    BY <2>1, <2>2, <2>3
<1> QED
  BY <1>2, <1>3, SplitKept

\* The batch under way is one of the plan.
LEMMA BatchUnderWay ==
  ASSUME Call!CallAssumption, Call!CallShape, Call!PlanKnows, Call!CoKnows,
         s4.pc \in {"batch", "write", "hook", "read"}
  PROVE  /\ s4.i \in Call!BatchIds /\ s4.i \in Nat /\ s4.i \in 1..Len(s3.batches) /\ Len(s3.batches) \in Nat
         /\ Len(s3.batches) <= Len(s1) /\ Len(s1) <= MaxTexts
         /\ s3.batches[s4.i] \in Call!BatchShape /\ s4.merged = Call!Upto_(s3.batches[s4.i].itemOffset)
         /\ Call!Covers(s1, s3.batches, Len(s1))
<1>1. /\ s3.batches \in Seq(Call!BatchShape) /\ s4.i \in 1..MaxTexts + 1 /\ MaxTexts \in Nat /\ Len(s1) \in Nat
      /\ Len(s1) <= MaxTexts
  BY CallFields DEF Call!CallShape
<1>2. s4.i <= Len(s3.batches) /\ s4.merged = Call!Upto_(s3.batches[s4.i].itemOffset)
  BY DEF Call!CoKnows
<1>3. Len(s3.batches) <= Len(s1) /\ Call!Covers(s1, s3.batches, Len(s1))
  BY DEF Call!PlanKnows
<1>4. Len(s3.batches) \in Nat
  BY <1>1, LenProperties
<1>5. s4.i \in 1..Len(s3.batches) /\ s4.i \in Call!BatchIds
  BY <1>1, <1>2, <1>3, <1>4 DEF Call!BatchIds
<1>6. s3.batches[s4.i] \in Call!BatchShape
  BY <1>1, <1>5, ElementOfSeq
<1> QED
  BY <1>1, <1>2, <1>3, <1>4, <1>5, <1>6

\* The coordinator goes on within a batch.
LEMMA CoMoves ==
  ASSUME Call!CallAssumption, Call!CallIInv, NEW i \in Call!BatchIds, i = s4.i,
         s4.pc \in {"batch", "write", "hook"}, NEW l \in {"write", "hook", "read"}, Call!CoGoes(l),
         s1' = s1, s2' = s2, s3' = s3, s5' = s5, s6' = s6, s7' \in 0..MaxTexts,
         s8' \in [Call!BatchIds -> Call!LisShape], s9' \in [Call!BatchIds -> Call!RespShape],
         s10' \in [Call!BatchIds -> Call!GorShape],
         \A j \in Call!BatchIds \ {i} : s8'[j] = s8[j] /\ s9'[j] = s9[j] /\ s10'[j] = s10[j],
         l = "write" => s8'[i].st = "open" /\ s10'[i].pc = "none" /\ s9'[i].hook = "no" /\ s7' = i,
         s10'[i].pc \in {"activate", "invoke", "scan", "chunk"} /\ s9'[i].st = "open" => s7' = i /\ s8'[i].st = "open",
         Call!Whole(s3.batches[i], s9'[i].q), Call!Whole(s3.batches[i], s10'[i].held),
         s10'[i].tries < MaxRetryTimes, s10'[i].lines <= MaxLines
  PROVE  Call!CallIInv'
<1>1. /\ Call!CallShape /\ Call!PlanKnows /\ Call!PlanIsOptimal /\ Call!CoKnows /\ Call!ClientKnows
      /\ \A j \in Call!BatchIds : Call!BatchKnows(j)
  BY DEF Call!CallIInv
<1>2. /\ s3' \in Call!PlanShape /\ s4 \in Call!CoShape /\ s5' \in Call!ClientShape /\ s6' \in BOOLEAN
  BY <1>1, ShapeParts
<1>3. /\ s4' \in Call!CoShape /\ s4'.pc = l /\ s4'.i = s4.i /\ s4'.merged = s4.merged /\ s4'.models = s4.models
  BY <1>2, CoSteps DEF Call!CallPCs
<1>4. Call!PlanKnows' /\ Call!PlanIsOptimal'
  BY <1>1, <1>3, PlanKept
<1>5. Call!ClientKnows'
  BY <1>1, <1>3, ClientKept
<1>6. Call!CoKnows'
  BY <1>1, <1>3 DEF Call!CoKnows, Call!Upto_
<1>7. i \in 1..Len(s3.batches) /\ i \in Nat
  BY <1>1, BatchUnderWay
<1>8. Call!BatchKnows(i)'
  <2>1. i \in DOMAIN s3.batches
    BY <1>1, <1>7, CallFields
  <2> QED
    BY <1>3, <1>7, <2>1 DEF Call!BatchKnows
<1>9. ASSUME NEW j \in Call!BatchIds, j # i PROVE Call!BatchKnows(j)'
  <2>1. Call!BatchKnows(j) /\ s8'[j] = s8[j] /\ s9'[j] = s9[j] /\ s10'[j] = s10[j] /\ j \in Nat
    BY <1>1, <1>9 DEF Call!BatchIds
  <2>2. ~(s10[j].pc \in {"activate", "invoke", "scan", "chunk"} /\ s9[j].st = "open")
    <3>1. CASE j < i
      BY <1>7, <2>1, <3>1 DEF Call!BatchKnows
    <3>2. CASE j > i
      <4>1. Call!Fresh(j)
        BY <1>7, <2>1, <3>2 DEF Call!BatchKnows
      <4> QED
        BY <4>1 DEF Call!Fresh, Call!NoGoroutine
    <3> QED
      BY <1>7, <1>9, <2>1, <3>1, <3>2
  <2> QED
    BY <1>3, <1>9, <2>1, <2>2, BatchKept
<1> QED
  BY <1>1, <1>2, <1>3, <1>4, <1>5, <1>6, <1>8, <1>9, CallIInvNext

\* The coordinator or the caller changes only the caller's stream.
LEMMA ClientMoves ==
  ASSUME Call!CallAssumption, Call!CallIInv,
         s4' \in Call!CoShape, s4'.i = s4.i, s4'.merged = s4.merged, s4'.models = s4.models,
         \/ s4'.pc = s4.pc
         \/ s4.pc = "write result" /\ s4'.pc = "close"
         \/ s4.pc = "close" /\ s4'.pc = "ended",
         s1' = s1, s2' = s2, s3' = s3, s7' = s7, s8' = s8, s9' = s9, s10' = s10,
         s5' \in Call!ClientShape, s6' \in BOOLEAN, Call!ClientKnows'
  PROVE  Call!CallIInv'
<1>1. /\ Call!CallShape /\ Call!PlanKnows /\ Call!PlanIsOptimal /\ Call!CoKnows
      /\ \A j \in Call!BatchIds : Call!BatchKnows(j)
  BY DEF Call!CallIInv
<1>2. /\ s3' \in Call!PlanShape /\ s7' \in 0..MaxTexts /\ s8' \in [Call!BatchIds -> Call!LisShape]
      /\ s9' \in [Call!BatchIds -> Call!RespShape] /\ s10' \in [Call!BatchIds -> Call!GorShape]
  BY <1>1, ShapeParts
<1>3. Call!PlanKnows' /\ Call!PlanIsOptimal'
  BY <1>1, PlanKept
<1>4. Call!CoKnows'
  BY <1>1 DEF Call!CoKnows, Call!Upto_
<1>5. ASSUME NEW j \in Call!BatchIds PROVE Call!BatchKnows(j)'
  BY <1>1, BatchKept
<1> QED
  BY <1>1, <1>2, <1>3, <1>4, <1>5, CallIInvNext

\* BatchListen
LEMMA BatchListenStep ==
  ASSUME Call!CallAssumption, Call!CallIInv, Call!BatchListen
  PROVE  Call!CallIInv'
<1> DEFINE i == s4.i
<1>1. /\ Call!CallShape /\ Call!PlanKnows /\ Call!CoKnows /\ \A j \in Call!BatchIds : Call!BatchKnows(j)
  BY DEF Call!CallIInv
<1>2. s4.pc = "batch" /\ s1' = s1 /\ s2' = s2 /\ s3' = s3 /\ s9' = s9 /\ s10' = s10
  BY DEF Call!BatchListen, Call!At_
<1>3. /\ s7 \in 0..MaxTexts /\ s8 \in [Call!BatchIds -> Call!LisShape]
      /\ s9' \in [Call!BatchIds -> Call!RespShape] /\ s10' \in [Call!BatchIds -> Call!GorShape]
  BY <1>1, <1>2, ShapeParts
<1>4. i \in Call!BatchIds /\ i \in 0..MaxTexts
  BY <1>1, <1>2, BatchUnderWay DEF Call!BatchIds
<1>5. CASE s6 /\ Call!FailCall("ended") /\ s7' = s7 /\ s8' = s8
  BY <1>2, <1>3, <1>5, CoFails
<1>6. CASE s7' = i /\ s8' = [s8 EXCEPT ![i].st = "open"] /\ Call!CoGoes("write") /\ s5' = s5 /\ s6' = s6
  <2>1. Call!Fresh(i)
    BY <1>1, <1>2, <1>4 DEF Call!BatchKnows
  <2>2. /\ s9'[i].q = <<>> /\ s9'[i].hook = "no" /\ s10'[i].held = <<>> /\ s10'[i].pc = "none"
        /\ s10'[i].tries = 0 /\ s10'[i].lines = 0
    BY <1>2, <2>1 DEF Call!Fresh, Call!NewResponse, Call!NoGoroutine
  <2>3. Call!Whole(s3.batches[i], <<>>)
    BY DEF Call!Whole
  <2>4. MaxRetryTimes > 0 /\ MaxLines >= 0
    BY <1>1, CallFields
  <2>5. /\ s8' \in [Call!BatchIds -> Call!LisShape] /\ s8'[i].st = "open"
        /\ \A j \in Call!BatchIds \ {i} : s8'[j] = s8[j]
    BY <1>3, <1>4, <1>6, LisGoes
  <2> QED
    BY <1>2, <1>3, <1>4, <1>6, <2>2, <2>3, <2>4, <2>5, CoMoves
<1> QED
  BY <1>5, <1>6 DEF Call!BatchListen

\* BatchWrite
LEMMA BatchWriteStep ==
  ASSUME Call!CallAssumption, Call!CallIInv, Call!BatchWrite
  PROVE  Call!CallIInv'
<1> DEFINE i == s4.i
<1>1. /\ Call!CallShape /\ Call!PlanKnows /\ Call!CoKnows /\ \A j \in Call!BatchIds : Call!BatchKnows(j)
  BY DEF Call!CallIInv
<1>2. s4.pc = "write" /\ s1' = s1 /\ s2' = s2 /\ s3' = s3
  BY DEF Call!BatchWrite, Call!At_
<1>3. /\ s7 \in 0..MaxTexts /\ s8 \in [Call!BatchIds -> Call!LisShape]
      /\ s9 \in [Call!BatchIds -> Call!RespShape] /\ s10 \in [Call!BatchIds -> Call!GorShape]
  BY <1>1, ShapeParts
<1>4. i \in Call!BatchIds
  BY <1>1, <1>2, BatchUnderWay
<1>5. /\ s8[i].st = "open" /\ s10[i].pc = "none" /\ s9[i].hook = "no" /\ s7 = i
      /\ Call!Whole(s3.batches[i], s9[i].q) /\ Call!Whole(s3.batches[i], s10[i].held)
      /\ s10[i].tries < MaxRetryTimes /\ s10[i].lines <= MaxLines
  BY <1>1, <1>2, <1>4 DEF Call!BatchKnows
<1>6. CASE /\ Call!CoGoes("hook") /\ Call!GorGoes(i, "activate")
           /\ s5' = s5 /\ s6' = s6 /\ s7' = s7 /\ s8' = s8 /\ s9' = s9
  <2>1. /\ s10' \in [Call!BatchIds -> Call!GorShape]
        /\ s10'[i].held = s10[i].held /\ s10'[i].tries = s10[i].tries /\ s10'[i].lines = s10[i].lines
        /\ \A j \in Call!BatchIds \ {i} : s10'[j] = s10[j]
    BY <1>3, <1>4, <1>6, GorSteps DEF Call!GorPCs
  <2> QED
    BY <1>2, <1>3, <1>4, <1>5, <1>6, <2>1, CoMoves
<1>7. CASE /\ s7' \in {s7, Call!DeleteIf(i)}
           /\ s8' = Call!ListenerClosing(i, "co") /\ s9' = Call!Closing(i, "no", "co")
           /\ Call!FailCall("ended") /\ s10' = s10
  <2>0. s7' = s7 \/ (s7' = 0 /\ s7 = i /\ s10[i].pc = "none")
    BY <1>5, <1>7 DEF Call!DeleteIf
  <2>1. s8' \in [Call!BatchIds -> Call!LisShape] /\ \A j \in Call!BatchIds \ {i} : s8'[j] = s8[j]
    BY <1>3, <1>4, <1>7, LisCloses
  <2>2. /\ s9' \in [Call!BatchIds -> Call!RespShape]
        /\ (s9[i].st # "open" => s9'[i].st = s9[i].st) /\ s9'[i].q = s9[i].q
        /\ \A j \in Call!BatchIds \ {i} : s9'[j] = s9[j]
    BY <1>3, <1>4, <1>7, RespCloses DEF Call!YesNo
  <2> QED
    BY <1>2, <1>5, <1>7, <2>0, <2>1, <2>2, CoFails
<1> QED
  BY <1>6, <1>7 DEF Call!BatchWrite

\* BatchHook
LEMMA BatchHookStep ==
  ASSUME Call!CallAssumption, Call!CallIInv, Call!BatchHook
  PROVE  Call!CallIInv'
<1> DEFINE i == s4.i
<1>1. /\ Call!CallShape /\ Call!PlanKnows /\ Call!CoKnows /\ \A j \in Call!BatchIds : Call!BatchKnows(j)
  BY DEF Call!CallIInv
<1>2. /\ s4.pc = "hook" /\ s1' = s1 /\ s2' = s2 /\ s3' = s3 /\ s5' = s5 /\ s6' = s6 /\ s7' = s7 /\ s10' = s10
      /\ Call!CoGoes("read")
  BY DEF Call!BatchHook, Call!At_
<1>3. /\ s7' \in 0..MaxTexts /\ s8 \in [Call!BatchIds -> Call!LisShape]
      /\ s9 \in [Call!BatchIds -> Call!RespShape] /\ s10' \in [Call!BatchIds -> Call!GorShape]
  BY <1>1, <1>2, ShapeParts
<1>4. i \in Call!BatchIds
  BY <1>1, <1>2, BatchUnderWay
<1>5. /\ s10[i].pc \in {"activate", "invoke", "scan", "chunk"} /\ s9[i].st = "open" => s7 = i /\ s8[i].st = "open"
      /\ Call!Whole(s3.batches[i], s9[i].q) /\ Call!Whole(s3.batches[i], s10[i].held)
      /\ s10[i].tries < MaxRetryTimes /\ s10[i].lines <= MaxLines
  BY <1>1, <1>4 DEF Call!BatchKnows
<1>6. CASE s9' = [s9 EXCEPT ![i].hook = "yes"] /\ s8' = s8
  <2>1. /\ s9' \in [Call!BatchIds -> Call!RespShape] /\ s9'[i].st = s9[i].st /\ s9'[i].q = s9[i].q
        /\ \A j \in Call!BatchIds \ {i} : s9'[j] = s9[j]
    BY <1>3, <1>4, <1>6, RespHooks
  <2> QED
    BY <1>2, <1>3, <1>4, <1>5, <1>6, <2>1, CoMoves
<1>7. CASE s9[i].st = "closed" /\ s8' = Call!ListenerClosing(i, "co") /\ s9' = s9
  <2>1. s8' \in [Call!BatchIds -> Call!LisShape] /\ \A j \in Call!BatchIds \ {i} : s8'[j] = s8[j]
    BY <1>3, <1>4, <1>7, LisCloses
  <2> QED
    BY <1>2, <1>3, <1>4, <1>5, <1>7, <2>1, CoMoves
<1> QED
  BY <1>6, <1>7 DEF Call!BatchHook

\* WriteResult
LEMMA WriteResultStep ==
  ASSUME Call!CallAssumption, Call!CallIInv, Call!WriteResult
  PROVE  Call!CallIInv'
<1>1. Call!CallShape /\ Call!CoKnows /\ Call!ClientKnows
  BY DEF Call!CallIInv
<1>2. /\ s4.pc = "write result" /\ s1' = s1 /\ s2' = s2 /\ s3' = s3
      /\ s7' = s7 /\ s8' = s8 /\ s9' = s9 /\ s10' = s10
  BY DEF Call!WriteResult, Call!At_
<1>3. /\ s4 \in Call!CoShape /\ s5 \in Call!ClientShape /\ s6 \in BOOLEAN
      /\ s8' \in [Call!BatchIds -> Call!LisShape] /\ s9' \in [Call!BatchIds -> Call!RespShape]
  BY <1>1, <1>2, ShapeParts
<1>4. CASE Call!FailCall("ended")
  BY <1>2, <1>3, <1>4, CoFails
<1>5. CASE /\ s5' = IF s5.st = "open" THEN [s5 EXCEPT !.data = s4.merged] ELSE s5
           /\ Call!CoGoes("close") /\ s6' = s6
  <2>1. /\ s4' \in Call!CoShape /\ s4'.pc = "close" /\ s4'.i = s4.i
        /\ s4'.merged = s4.merged /\ s4'.models = s4.models
    BY <1>3, <1>5, CoSteps DEF Call!CallPCs
  <2>2. s4.merged = Call!Upto_(Len(s1)) /\ s4.merged \in Seq(Nat)
    BY <1>1, <1>2, CallFields DEF Call!CoKnows
  <2>3. s5' \in Call!ClientShape
    BY <1>3, <1>5, <2>2 DEF Call!ClientShape
  <2>4. Call!ClientKnows'
    <3>1. CASE s5.st = "open"
      <4>1. /\ s5'.data = s4.merged /\ s5'.st = "open" /\ s5'.recorded = s5.recorded /\ s5'.outcome = s5.outcome
            /\ s5.recorded = "no" /\ s5'.err = s5.err
        BY <1>1, <1>3, <1>5, <3>1 DEF Call!ClientShape, Call!ClientKnows
      <4>2. Call!Upto_(Len(s1')) = Call!Upto_(Len(s1))
        BY <1>2
      <4> QED
        BY <1>1, <2>2, <3>1, <4>1, <4>2 DEF Call!ClientKnows
    <3>2. CASE s5.st # "open"
      <4>1. s5' = s5
        BY <1>5, <3>2
      <4> QED
        BY <1>1, <1>2, <3>2, <4>1 DEF Call!ClientKnows, Call!Upto_
    <3> QED
      BY <3>1, <3>2
  <2> QED
    BY <1>2, <1>3, <1>5, <2>1, <2>3, <2>4, ClientMoves
<1> QED
  BY <1>4, <1>5 DEF Call!WriteResult

\* The end of the caller's stream with o as its outcome and no error.
LEMMA ClientEnds ==
  ASSUME Call!CallShape, Call!ClientKnows, NEW o \in {"success", "canceled"}, s1' = s1, s5.st = "open",
         s5' = [s5 EXCEPT !.st = "closed", !.err = "no", !.outcome = o, !.recorded = o],
         o = "success" => s4.pc = "close"
  PROVE  s5' \in Call!ClientShape /\ Call!ClientKnows'
<1>1. s5 \in Call!ClientShape
  BY ShapeParts
<1>2. /\ s5' \in Call!ClientShape /\ s5'.st = "closed" /\ s5'.err = "no" /\ s5'.recorded = o
      /\ s5'.data = s5.data
  BY <1>1 DEF Call!ClientShape, Call!YesNo
<1>3. Call!ClientKnows'
  BY <1>2 DEF Call!ClientKnows, Call!Upto_
<1> QED
  BY <1>2, <1>3

\* CloseResult
LEMMA CloseResultStep ==
  ASSUME Call!CallAssumption, Call!CallIInv, Call!CloseResult
  PROVE  Call!CallIInv'
<1>1. Call!CallShape /\ Call!CoKnows /\ Call!ClientKnows
  BY DEF Call!CallIInv
<1>2. /\ s4.pc = "close" /\ s1' = s1 /\ s2' = s2 /\ s3' = s3
      /\ s7' = s7 /\ s8' = s8 /\ s9' = s9 /\ s10' = s10 /\ Call!CoGoes("ended")
  BY DEF Call!CloseResult, Call!At_
<1>3. s4 \in Call!CoShape /\ s5 \in Call!ClientShape
  BY <1>1, ShapeParts
<1>4. /\ s4' \in Call!CoShape /\ s4'.pc = "ended" /\ s4'.i = s4.i
      /\ s4'.merged = s4.merged /\ s4'.models = s4.models
  BY <1>2, <1>3, CoSteps DEF Call!CallPCs
<1>5. s6' \in BOOLEAN
  <2>1. s6 \in BOOLEAN
    BY <1>1, ShapeParts
  <2> QED
    BY <2>1, Zenon DEF Call!CloseResult, Call!CloseClient
<1> DEFINE o == IF s6 THEN s5.outcome ELSE "success"
<1>6. \/ s5' = s5
      \/ s5.st = "open" /\ s5' = [s5 EXCEPT !.st = "closed", !.err = "no", !.outcome = o, !.recorded = o]
      \/ s5.st = "leaving" /\ s5' = [s5 EXCEPT !.outcome = o]
  BY DEF Call!CloseResult, Call!CloseClient
<1>7. s5' \in Call!ClientShape /\ Call!ClientKnows'
  <2>1. CASE s5' = s5
    BY <1>1, <1>2, <1>3, <1>4, <2>1, ClientKept
  <2>2. CASE s5.st = "open" /\ s5' = [s5 EXCEPT !.st = "closed", !.err = "no", !.outcome = o, !.recorded = o]
    <3>1. o \in {"success", "canceled"}
      BY <1>1, <2>2 DEF Call!ClientKnows
    <3> HIDE DEF o
    <3> QED
      BY <1>1, <1>2, <2>2, <3>1, ClientEnds
  <2>3. CASE s5.st = "leaving" /\ s5' = [s5 EXCEPT !.outcome = o]
    <3>1. o \in {"success", "error", "canceled"}
      BY <1>3 DEF Call!ClientShape
    <3> HIDE DEF o
    <3> QED
      BY <1>1, <1>2, <1>3, <2>3, <3>1, ClientMarked
  <2> QED
    BY <1>6, <2>1, <2>2, <2>3
<1> QED
  BY <1>2, <1>4, <1>5, <1>7, ClientMoves

\* ClientLeaves
LEMMA ClientLeavesStep ==
  ASSUME Call!CallAssumption, Call!CallIInv, Call!ClientLeaves
  PROVE  Call!CallIInv'
<1>1. Call!CallShape /\ Call!ClientKnows
  BY DEF Call!CallIInv
<1>2. /\ s1' = s1 /\ s2' = s2 /\ s3' = s3 /\ s4' = s4
      /\ s7' = s7 /\ s8' = s8 /\ s9' = s9 /\ s10' = s10
  BY DEF Call!ClientLeaves
<1>3. s4 \in Call!CoShape /\ s5 \in Call!ClientShape
  BY <1>1, ShapeParts
<1>4. s6' \in BOOLEAN
  <2>1. s6 \in BOOLEAN
    BY <1>1, ShapeParts
  <2> QED
    BY <2>1, Zenon DEF Call!ClientLeaves
<1>5. s5' \in Call!ClientShape /\ Call!ClientKnows'
  <2>1. CASE s5.st = "open" /\ s5' = [s5 EXCEPT !.st = "leaving", !.err = "left"]
    <3>1. /\ s5' \in Call!ClientShape /\ s5'.st = "leaving" /\ s5'.err = "left"
          /\ s5'.recorded = s5.recorded /\ s5'.data = s5.data
      BY <1>3, <2>1 DEF Call!ClientShape
    <3> QED
      BY <1>1, <1>2, <2>1, <3>1 DEF Call!ClientKnows, Call!Upto_
  <2>2. CASE s5' = s5
    BY <1>1, <1>2, <1>3, <2>2, ClientKept
  <2> QED
    BY <2>1, <2>2 DEF Call!ClientLeaves
<1> QED
  BY <1>2, <1>3, <1>4, <1>5, ClientMoves

\* ClientGone
LEMMA ClientGoneStep ==
  ASSUME Call!CallAssumption, Call!CallIInv, Call!ClientGone
  PROVE  Call!CallIInv'
<1>1. Call!CallShape /\ Call!ClientKnows
  BY DEF Call!CallIInv
<1>2. /\ s1' = s1 /\ s2' = s2 /\ s3' = s3 /\ s4' = s4 /\ s5.st = "leaving"
      /\ s7' = s7 /\ s8' = s8 /\ s9' = s9 /\ s10' = s10
      /\ s5' = [s5 EXCEPT !.st = "closed", !.recorded = s5.outcome]
  BY DEF Call!ClientGone
<1>3. s4 \in Call!CoShape /\ s5 \in Call!ClientShape
  BY <1>1, ShapeParts
<1>4. s6' \in BOOLEAN
  BY Zenon DEF Call!ClientGone
<1>5. /\ s5' \in Call!ClientShape /\ s5'.st = "closed" /\ s5'.err = s5.err /\ s5'.data = s5.data
  BY <1>2, <1>3 DEF Call!ClientShape
<1>6. Call!ClientKnows'
  BY <1>1, <1>2, <1>5 DEF Call!ClientKnows, Call!Upto_
<1> QED
  BY <1>2, <1>3, <1>4, <1>5, <1>6, ClientMoves

\* The results of the first n texts, and then those of the next m.
LEMMA UptoNext ==
  ASSUME NEW n \in Nat, NEW m \in Nat
  PROVE  /\ Call!Upto_(n) \in Seq(Nat) /\ Len(Call!Upto_(n)) = n
         /\ Call!Upto_(n) \o [j \in 1..m |-> n + j] = Call!Upto_(n + m)
<1> DEFINE u == Call!Upto_(n)
           v == [j \in 1..m |-> n + j]
           w == Call!Upto_(n + m)
<1>1. u \in Seq(Nat) /\ Len(u) = n /\ \A k \in 1..n : u[k] = k
  BY DEF Call!Upto_
<1>2. v \in Seq(Nat) /\ Len(v) = m /\ \A k \in 1..m : v[k] = n + k
  OBVIOUS
<1>3. w \in Seq(Nat) /\ Len(w) = n + m /\ \A k \in 1..n + m : w[k] = k
  BY DEF Call!Upto_
<1> HIDE DEF u, v, w
<1>4. /\ u \o v \in Seq(Nat) /\ Len(u \o v) = Len(u) + Len(v)
      /\ \A k \in 1..Len(u) + Len(v) : (u \o v)[k] = IF k <= Len(u) THEN u[k] ELSE v[k - Len(u)]
  BY <1>1, <1>2, ConcatProperties, Zenon
<1>5. \A k \in 1..n + m : (u \o v)[k] = w[k]
  BY <1>1, <1>2, <1>3, <1>4
<1>6. Len(u \o v) = Len(w)
  BY <1>1, <1>2, <1>3, <1>4
<1>7. u \o v = w
  BY <1>3, <1>4, <1>5, <1>6, SeqEqual
<1> QED
  BY <1>1, <1>7 DEF u, v, w

\* The batch under way is consumed.
LEMMA CoConsumes ==
  ASSUME Call!CallAssumption, Call!CallIInv, NEW i \in Call!BatchIds, i = s4.i, s4.pc = "read",
         s9[i].st = "closed", Call!Consumed(s9[i].q),
         s4' = [s4 EXCEPT !.merged = @ \o s9[i].q[1].items, !.models = @ \cup {s9[i].q[1].model},
                          !.i = s4.i + 1,
                          !.pc = IF s4.i = Len(s3.batches) THEN "write result" ELSE "batch"],
         s1' = s1, s2' = s2, s3' = s3
  PROVE  /\ s4' \in Call!CoShape /\ s4'.i = i + 1 /\ s4'.pc \in {"batch", "write result"}
         /\ Call!CoKnows'
<1>1. /\ Call!CallShape /\ Call!PlanKnows /\ Call!CoKnows /\ Call!BatchKnows(i)
  BY DEF Call!CallIInv
<1>2. /\ i \in Nat /\ i \in 1..Len(s3.batches) /\ Len(s3.batches) \in Nat
      /\ Len(s3.batches) <= Len(s1) /\ Len(s1) <= MaxTexts
      /\ s3.batches[i] \in Call!BatchShape /\ s4.merged = Call!Upto_(s3.batches[i].itemOffset)
      /\ Call!Covers(s1, s3.batches, Len(s1))
  BY <1>1, BatchUnderWay
<1>3. /\ s4 \in Call!CoShape /\ s4.models \in SUBSET Models /\ MaxTexts \in Nat /\ Len(s1) \in Nat
      /\ DOMAIN s3.batches = 1..Len(s3.batches)
  BY <1>1, ShapeParts, CallFields
<1> DEFINE b == s3.batches[i]
           q == s9[i].q
           a == q[1]
           o == b.itemOffset
           n == b.itemCount
           l == IF i = Len(s3.batches) THEN "write result" ELSE "batch"
           ms == s4.models \cup {a.model}
           g == s4.merged \o a.items
<1>4. o \in Nat /\ n \in Nat /\ Call!End(b) = o + n
  BY <1>2 DEF Call!BatchShape, Call!End
<1>5. q \in Seq(Call!AnswerShape)
  BY <1>1, ShapeParts DEF Call!RespShape
<1>6. /\ Len(q) = 1 /\ Len(a.items) = n
      /\ s2 = "embedding" => s4.models \subseteq {a.model}
  BY DEF Call!Consumed
<1>7. a \in Call!AnswerShape /\ 1 \in DOMAIN q
  BY <1>5, <1>6
<1>8. a.model \in Models
  BY <1>7 DEF Call!AnswerShape
<1>9. a.items = [j \in 1..n |-> o + j]
  <2>1. Call!Whole(b, q)
    BY <1>1 DEF Call!BatchKnows
  <2>2. a.items = Call!Items(b)
    BY <1>6, <1>7, <2>1 DEF Call!Whole
  <2> QED
    BY <2>2 DEF Call!Items
<1>10. s4.merged = Call!Upto_(o)
  BY <1>2
<1> HIDE DEF o, n
<1>11. g = Call!Upto_(o + n)
  BY <1>4, <1>9, <1>10, UptoNext
<1>12. g \in Seq(Nat) /\ Len(g) = o + n
  <2>1. o + n \in Nat /\ 0 \in Nat
    BY <1>4
  <2>2. Call!Upto_(o + n) \in Seq(Nat) /\ Len(Call!Upto_(o + n)) = o + n
    BY <2>1, UptoNext
  <2> QED
    BY <1>11, <2>2
<1>13. ms \in SUBSET Models /\ l \in Call!CallPCs /\ i + 1 \in 1..MaxTexts + 1
  BY <1>2, <1>3, <1>8 DEF Call!CallPCs
<1>14. s4' = [s4 EXCEPT !.merged = g, !.models = ms, !.i = i + 1, !.pc = l]
  OBVIOUS
<1>15. s2 = "embedding" => Cardinality(ms) <= 1
  <2>1. ASSUME s2 = "embedding" PROVE Cardinality(ms) <= 1
    <3>1. ms = {a.model}
      BY <1>6, <2>1
    <3>2. Cardinality({a.model}) = 1
      BY FS_Singleton
    <3> QED
      BY <3>1, <3>2
  <2> QED
    BY <2>1
<1>16. i \in DOMAIN s3.batches /\ Call!End(b) <= Len(s1)
  BY <1>2, <1>3 DEF Call!Covers
<1>17. i = Len(s3.batches) => Len(s1) = o + n
  <2>1. ASSUME i = Len(s3.batches) PROVE Len(s1) = o + n
    <3>1. s3.batches # <<>>
      BY <1>2
    <3> QED
      BY <1>2, <1>4, <2>1, <3>1 DEF Call!Covers
  <2> QED
    BY <2>1
<1>18. i # Len(s3.batches) => i + 1 \in 1..Len(s3.batches) /\ s3.batches[i + 1].itemOffset = o + n
  <2>1. ASSUME i # Len(s3.batches)
        PROVE  i + 1 \in 1..Len(s3.batches) /\ s3.batches[i + 1].itemOffset = o + n
    <3>1. i + 1 \in 1..Len(s3.batches) /\ i + 1 # 1 /\ (i + 1) - 1 = i
      BY <1>2, <2>1
    <3>2. s3.batches[i + 1].itemOffset = IF i + 1 = 1 THEN 0 ELSE Call!End(s3.batches[(i + 1) - 1])
      BY <1>2, <1>3, <3>1 DEF Call!Covers
    <3> QED
      BY <1>4, <3>1, <3>2
  <2> QED
    BY <2>1
<1> HIDE DEF g, ms, a
<1>19. l \in {"batch", "write result"} /\ (l = "batch" => i # Len(s3.batches)) /\ (l = "write result" => i = Len(s3.batches))
  OBVIOUS
<1> HIDE DEF l
<1>20. s4' \in Call!CoShape /\ s4'.merged = g /\ s4'.models = ms /\ s4'.i = i + 1 /\ s4'.pc = l
  BY <1>3, <1>12, <1>13, <1>14 DEF Call!CoShape
<1>21. Call!CoKnows'
  <2>1. Len(s4'.merged) <= Len(s1')
    BY <1>4, <1>12, <1>16, <1>20
  <2>2. s2' = "embedding" => Call!Cardinality(s4'.models) <= 1
    BY <1>15, <1>20, CallFiniteSets
  <2>3. ASSUME s4'.pc = "batch"
        PROVE  s4'.i <= Len(s3'.batches) /\ s4'.merged = Call!Upto_(s3'.batches[s4'.i].itemOffset)
    <3>1. i + 1 \in 1..Len(s3.batches) /\ s3.batches[i + 1].itemOffset = o + n
      BY <1>18, <1>19, <1>20, <2>3
    <3>2. s3' = s3 /\ s4'.i = i + 1
      BY <1>20
    <3>3. s3'.batches[s4'.i].itemOffset = o + n
      BY <3>1, <3>2
    <3>4. s4'.merged = Call!Upto_(s3'.batches[s4'.i].itemOffset)
      BY <1>11, <1>20, <3>3, Zenon
    <3>5. s4'.i <= Len(s3'.batches)
      BY <1>2, <3>1, <3>2
    <3> QED
      BY <3>4, <3>5
  <2>4. s4'.pc = "write result" => s4'.merged = Call!Upto_(Len(s1'))
    BY <1>11, <1>17, <1>19, <1>20
  <2>5. s4'.pc \in {"batch", "write result"}
    BY <1>19, <1>20
  <2> QED
    BY <2>1, <2>2, <2>3, <2>4, <2>5 DEF Call!CoKnows
<1> QED
  BY <1>19, <1>20, <1>21

\* BatchRead
LEMMA BatchReadStep ==
  ASSUME Call!CallAssumption, Call!CallIInv, Call!BatchRead
  PROVE  Call!CallIInv'
<1> DEFINE i == s4.i
<1>1. /\ Call!CallShape /\ Call!PlanKnows /\ Call!PlanIsOptimal /\ Call!CoKnows /\ Call!ClientKnows
      /\ \A j \in Call!BatchIds : Call!BatchKnows(j)
  BY DEF Call!CallIInv
<1>2. /\ s4.pc = "read" /\ s9[i].st = "closed" /\ s9' = [s9 EXCEPT ![i].q = <<>>]
      /\ s1' = s1 /\ s2' = s2 /\ s3' = s3 /\ s7' = s7 /\ s8' = s8 /\ s10' = s10
  BY DEF Call!BatchRead, Call!At_
<1>3. /\ s3' \in Call!PlanShape /\ s5 \in Call!ClientShape /\ s6 \in BOOLEAN
      /\ s7' \in 0..MaxTexts /\ s8' \in [Call!BatchIds -> Call!LisShape]
      /\ s9 \in [Call!BatchIds -> Call!RespShape] /\ s10' \in [Call!BatchIds -> Call!GorShape]
  BY <1>1, <1>2, ShapeParts
<1>4. i \in Call!BatchIds /\ i \in Nat
  BY <1>1, <1>2, BatchUnderWay
<1>5. /\ s9' \in [Call!BatchIds -> Call!RespShape] /\ s9'[i].st = s9[i].st /\ s9'[i].q = <<>>
      /\ \A j \in Call!BatchIds \ {i} : s9'[j] = s9[j]
  <2>1. <<>> \in Seq(Call!AnswerShape)
    OBVIOUS
  <2> QED
    BY <1>2, <1>3, <1>4, <2>1, RespFills
<1>6. CASE Call!FailCall("ended")
  BY <1>2, <1>3, <1>5, <1>6, CoFails
<1>7. CASE /\ Call!Consumed(s9[i].q) /\ s5' = s5 /\ s6' = s6
           /\ s4' = [s4 EXCEPT !.merged = @ \o s9[i].q[1].items, !.models = @ \cup {s9[i].q[1].model},
                               !.i = s4.i + 1,
                               !.pc = IF s4.i = Len(s3.batches) THEN "write result" ELSE "batch"]
  <2>1. s4' \in Call!CoShape /\ s4'.i = i + 1 /\ s4'.pc \in {"batch", "write result"} /\ Call!CoKnows'
    BY <1>2, <1>4, <1>7, CoConsumes
  <2>2. Call!PlanKnows' /\ Call!PlanIsOptimal'
    BY <1>1, <1>2, <2>1, PlanKept
  <2>3. Call!ClientKnows'
    BY <1>1, <1>2, <1>7, <2>1, ClientKept
  <2>4. ASSUME NEW j \in Call!BatchIds PROVE Call!BatchKnows(j)'
    <3>1. Call!BatchKnows(j) /\ j \in Nat
      BY <1>1 DEF Call!BatchIds
    <3>2. s9'[j].st = s9[j].st /\ Call!Whole(s3.batches[j], s9'[j].q)
      <4>1. Call!Whole(s3.batches[j], <<>>)
        BY DEF Call!Whole
      <4> QED
        BY <1>5, <3>1, <4>1 DEF Call!BatchKnows
    <3>3. j > i => Call!Fresh(j) /\ s9'[j] = s9[j]
      BY <1>4, <1>5, <3>1 DEF Call!BatchKnows
    <3>4. j > i => Call!Fresh(j)'
      BY <1>2, <3>3 DEF Call!Fresh
    <3>5. j < i + 1 => s9[j].st = "closed"
      <4>1. j < i => s9[j].st = "closed"
        BY <3>1 DEF Call!BatchKnows
      <4> QED
        BY <1>2, <1>4, <3>1, <4>1
    <3>6. s4'.i > i /\ s4'.i \in Nat /\ (j > s4'.i => j > i) /\ (j = s4'.i => j > i) /\ (j < s4'.i => j < i + 1)
      <4>1. s4'.i = i + 1 /\ i \in Nat /\ j \in Nat
        BY <1>4, <2>1, <3>1
      <4> HIDE DEF i
      <4> QED
        BY <4>1
    <3> QED
      BY <1>2, <2>1, <3>1, <3>2, <3>4, <3>5, <3>6 DEF Call!BatchKnows
  <2> QED
    BY <1>1, <1>2, <1>3, <1>5, <1>7, <2>1, <2>2, <2>3, <2>4, CallIInvNext
<1> QED
  BY <1>6, <1>7 DEF Call!BatchRead

------------------------------------------------------------------------------
(* ServerlessCall: the response, the listener and the goroutine of a batch *)

\* What is known of a batch, and that it has begun when its goroutine runs.
LEMMA BatchBegun ==
  ASSUME Call!CallIInv, NEW i \in Call!BatchIds
  PROVE  /\ s7 \in 0..MaxTexts /\ s8 \in [Call!BatchIds -> Call!LisShape]
         /\ s9 \in [Call!BatchIds -> Call!RespShape] /\ s10 \in [Call!BatchIds -> Call!GorShape]
         /\ i = s4.i /\ s4.pc = "write" =>
              s8[i].st = "open" /\ s10[i].pc = "none" /\ s9[i].hook = "no" /\ s7 = i
         /\ s10[i].pc \in {"activate", "invoke", "scan", "chunk"} /\ s9[i].st = "open" => s7 = i /\ s8[i].st = "open"
         /\ Call!Whole(s3.batches[i], s9[i].q) /\ Call!Whole(s3.batches[i], s10[i].held)
         /\ s10[i].tries < MaxRetryTimes /\ s10[i].lines <= MaxLines
         /\ s10[i].pc # "none" => i \in DOMAIN s3.batches /\ ~Call!Fresh(i)
         /\ s9[i].st # "open" \/ s8[i].st # "none" => ~Call!Fresh(i)
<1>1. Call!CallShape /\ Call!BatchKnows(i)
  BY DEF Call!CallIInv
<1>2. /\ s7 \in 0..MaxTexts /\ s8 \in [Call!BatchIds -> Call!LisShape]
      /\ s9 \in [Call!BatchIds -> Call!RespShape] /\ s10 \in [Call!BatchIds -> Call!GorShape]
  BY <1>1, ShapeParts
<1>3. Call!Fresh(i) => s10[i].pc = "none" /\ s9[i].st = "open" /\ s8[i].st = "none"
  BY DEF Call!Fresh, Call!NoGoroutine, Call!NewResponse, Call!NoListener
<1> QED
  BY <1>1, <1>2, <1>3 DEF Call!BatchKnows

\* A step of the goroutine that keeps its answer and closes or keeps the response.
LEMMA GorMoves ==
  ASSUME Call!CallAssumption, Call!CallIInv, NEW i \in Call!BatchIds, s10[i].pc # "none",
         s1' = s1, s2' = s2, s3' = s3, s4' = s4, s5' = s5, s6' = s6, s7' = s7, s8' = s8,
         s9' = s9 \/ s9' = Call!Closing(i, "yes", "gor") \/ s9' = Call!Closing(i, "no", "gor"),
         s10' \in [Call!BatchIds -> Call!GorShape],
         \A j \in Call!BatchIds \ {i} : s10'[j] = s10[j],
         s10'[i].pc \in {"activate", "invoke", "scan", "chunk"} =>
           s10[i].pc \in {"activate", "invoke", "scan", "chunk"},
         Call!Whole(s3.batches[i], s10'[i].held), s10'[i].tries < MaxRetryTimes, s10'[i].lines <= MaxLines
  PROVE  Call!CallIInv'
<1>1. /\ s8 \in [Call!BatchIds -> Call!LisShape] /\ s9 \in [Call!BatchIds -> Call!RespShape]
      /\ ~(i = s4.i /\ s4.pc = "write") /\ ~Call!Fresh(i)
      /\ s10[i].pc \in {"activate", "invoke", "scan", "chunk"} /\ s9[i].st = "open" => s7 = i /\ s8[i].st = "open"
      /\ Call!Whole(s3.batches[i], s9[i].q)
  BY BatchBegun
<1>2. /\ s9' \in [Call!BatchIds -> Call!RespShape]
      /\ s9'[i].st = "open" => s9[i].st = "open"
      /\ s9[i].st = "closed" => s9'[i].st = "closed"
      /\ s9'[i].q = s9[i].q
      /\ \A j \in Call!BatchIds \ {i} : s9'[j] = s9[j]
  <2>1. CASE s9' = s9
    BY <1>1, <2>1
  <2>2. CASE s9' = Call!Closing(i, "yes", "gor")
    BY <1>1, <2>2, RespCloses DEF Call!YesNo
  <2>3. CASE s9' = Call!Closing(i, "no", "gor")
    BY <1>1, <2>3, RespCloses DEF Call!YesNo
  <2> QED
    BY <2>1, <2>2, <2>3
<1> QED
  BY <1>1, <1>2, BatchMoves

\* CloseOnCancel
LEMMA CloseOnCancelStep ==
  ASSUME Call!CallAssumption, Call!CallIInv, NEW i \in Call!BatchIds, Call!CloseOnCancel(i)
  PROVE  Call!CallIInv'
<1>1. /\ s1' = s1 /\ s2' = s2 /\ s3' = s3 /\ s4' = s4 /\ s5' = s5 /\ s6' = s6 /\ s7' = s7 /\ s8' = s8 /\ s10' = s10
      /\ s8[i].st # "none" /\ s9' = Call!Closing(i, "no", "cancel")
  BY DEF Call!CloseOnCancel
<1>2. /\ s8 \in [Call!BatchIds -> Call!LisShape] /\ s9 \in [Call!BatchIds -> Call!RespShape]
      /\ s10 \in [Call!BatchIds -> Call!GorShape] /\ ~Call!Fresh(i)
      /\ Call!Whole(s3.batches[i], s9[i].q) /\ Call!Whole(s3.batches[i], s10[i].held)
      /\ s10[i].tries < MaxRetryTimes /\ s10[i].lines <= MaxLines
  BY <1>1, BatchBegun
<1>3. /\ s9' \in [Call!BatchIds -> Call!RespShape]
      /\ s9'[i].st # "open" /\ (s9[i].st # "open" => s9'[i].st = s9[i].st)
      /\ s9'[i].q = s9[i].q /\ s9'[i].hook = s9[i].hook
      /\ \A j \in Call!BatchIds \ {i} : s9'[j] = s9[j]
  BY <1>1, <1>2, RespCloses DEF Call!YesNo
<1> QED
  BY <1>1, <1>2, <1>3, BatchMoves

\* ResponseCallbacks
LEMMA ResponseCallbacksStep ==
  ASSUME Call!CallAssumption, Call!CallIInv, NEW i \in Call!BatchIds, Call!ResponseCallbacks(i)
  PROVE  Call!CallIInv'
<1>1. /\ s1' = s1 /\ s2' = s2 /\ s3' = s3 /\ s4' = s4 /\ s5' = s5 /\ s6' = s6 /\ s7' = s7 /\ s10' = s10
      /\ s9[i].st = "closing"
  BY DEF Call!ResponseCallbacks
<1>2. /\ s8 \in [Call!BatchIds -> Call!LisShape] /\ s9 \in [Call!BatchIds -> Call!RespShape]
      /\ s10 \in [Call!BatchIds -> Call!GorShape] /\ ~Call!Fresh(i)
      /\ i = s4.i /\ s4.pc = "write" => s9[i].hook = "no"
      /\ Call!Whole(s3.batches[i], s9[i].q) /\ Call!Whole(s3.batches[i], s10[i].held)
      /\ s10[i].tries < MaxRetryTimes /\ s10[i].lines <= MaxLines
  BY <1>1, BatchBegun
<1>3. CASE s9[i].hook = "yes" /\ s9' = [s9 EXCEPT ![i].hook = "ran"] /\ s8' = Call!ListenerClosing(i, "resp")
  <2>1. /\ s9' \in [Call!BatchIds -> Call!RespShape]
        /\ s9'[i].st = s9[i].st /\ s9'[i].q = s9[i].q
        /\ \A j \in Call!BatchIds \ {i} : s9'[j] = s9[j]
    BY <1>2, <1>3, RespHooks
  <2>2. s8' \in [Call!BatchIds -> Call!LisShape] /\ \A j \in Call!BatchIds \ {i} : s8'[j] = s8[j]
    BY <1>2, <1>3, LisCloses
  <2>3. ~(i = s4.i /\ s4.pc = "write")
    BY <1>2, <1>3
  <2> QED
    BY <1>1, <1>2, <2>1, <2>2, <2>3, BatchMoves
<1>4. CASE s9' = [s9 EXCEPT ![i].st = "closed"] /\ s8' = s8
  <2>1. /\ s9' \in [Call!BatchIds -> Call!RespShape]
        /\ s9'[i].st = "closed" /\ s9'[i].q = s9[i].q /\ s9'[i].hook = s9[i].hook
        /\ \A j \in Call!BatchIds \ {i} : s9'[j] = s9[j]
    BY <1>2, <1>4, RespGoes
  <2> QED
    BY <1>1, <1>2, <1>4, <2>1, BatchMoves
<1> QED
  BY <1>3, <1>4 DEF Call!ResponseCallbacks

\* ListenerCallback
LEMMA ListenerCallbackStep ==
  ASSUME Call!CallAssumption, Call!CallIInv, NEW i \in Call!BatchIds, Call!ListenerCallback(i)
  PROVE  Call!CallIInv'
<1>1. /\ s1' = s1 /\ s2' = s2 /\ s3' = s3 /\ s4' = s4 /\ s5' = s5 /\ s6' = s6 /\ s9' = s9 /\ s10' = s10
      /\ s8[i].st = "closing" /\ s7' = Call!DeleteIf(i) /\ s8' = [s8 EXCEPT ![i].st = "closed"]
  BY DEF Call!ListenerCallback
<1>2. /\ s8 \in [Call!BatchIds -> Call!LisShape] /\ s9 \in [Call!BatchIds -> Call!RespShape]
      /\ s10 \in [Call!BatchIds -> Call!GorShape] /\ ~Call!Fresh(i)
      /\ ~(i = s4.i /\ s4.pc = "write")
      /\ ~(s10[i].pc \in {"activate", "invoke", "scan", "chunk"} /\ s9[i].st = "open")
      /\ Call!Whole(s3.batches[i], s9[i].q) /\ Call!Whole(s3.batches[i], s10[i].held)
      /\ s10[i].tries < MaxRetryTimes /\ s10[i].lines <= MaxLines
  BY <1>1, BatchBegun
<1>3. s8' \in [Call!BatchIds -> Call!LisShape] /\ \A j \in Call!BatchIds \ {i} : s8'[j] = s8[j]
  BY <1>1, <1>2, LisGoes
<1> QED
  BY <1>1, <1>2, <1>3, BatchMoves

\* SendError and a step that fails: the goroutine ends.
LEMMA StepFailsKept ==
  ASSUME Call!CallAssumption, Call!CallIInv, NEW i \in Call!BatchIds, s10[i].pc # "none",
         Call!SendError(i) \/ Call!StepFails(i),
         s1' = s1, s2' = s2, s3' = s3, s4' = s4, s5' = s5, s6' = s6, s7' = s7, s8' = s8
  PROVE  Call!CallIInv'
<1>1. /\ s10' = [s10 EXCEPT ![i].pc = "delete", ![i].sendEnd = "no"]
      /\ s9' = s9 \/ s9' = Call!Closing(i, "yes", "gor")
  BY DEF Call!SendError, Call!StepFails
<1>2. /\ s10 \in [Call!BatchIds -> Call!GorShape] /\ Call!Whole(s3.batches[i], s10[i].held)
      /\ s10[i].tries < MaxRetryTimes /\ s10[i].lines <= MaxLines
  BY BatchBegun
<1>3. /\ s10' \in [Call!BatchIds -> Call!GorShape] /\ s10'[i].pc = "delete"
      /\ s10'[i].held = s10[i].held /\ s10'[i].tries = s10[i].tries /\ s10'[i].lines = s10[i].lines
      /\ \A j \in Call!BatchIds \ {i} : s10'[j] = s10[j]
  BY <1>1, <1>2, GorFails
<1> QED
  BY <1>1, <1>2, <1>3, GorMoves

\* The goroutine goes on, the response stays or is closed.
LEMMA GorGoesKept ==
  ASSUME Call!CallAssumption, Call!CallIInv, NEW i \in Call!BatchIds, s10[i].pc # "none",
         NEW l \in Call!GorPCs, Call!GorGoes(i, l),
         l \in {"activate", "invoke", "scan", "chunk"} => s10[i].pc \in {"activate", "invoke", "scan", "chunk"},
         s9' = s9 \/ s9' = Call!Closing(i, "no", "gor"),
         s1' = s1, s2' = s2, s3' = s3, s4' = s4, s5' = s5, s6' = s6, s7' = s7, s8' = s8
  PROVE  Call!CallIInv'
<1>2. /\ s10 \in [Call!BatchIds -> Call!GorShape] /\ Call!Whole(s3.batches[i], s10[i].held)
      /\ s10[i].tries < MaxRetryTimes /\ s10[i].lines <= MaxLines
  BY BatchBegun
<1>3. /\ s10' \in [Call!BatchIds -> Call!GorShape] /\ s10'[i].pc = l
      /\ s10'[i].held = s10[i].held /\ s10'[i].tries = s10[i].tries /\ s10'[i].lines = s10[i].lines
      /\ \A j \in Call!BatchIds \ {i} : s10'[j] = s10[j]
  BY <1>2, GorSteps
<1> QED
  BY <1>2, <1>3, GorMoves

\* ActivatePlugin
LEMMA ActivatePluginStep ==
  ASSUME Call!CallAssumption, Call!CallIInv, NEW i \in Call!BatchIds, Call!ActivatePlugin(i)
  PROVE  Call!CallIInv'
<1>1. /\ s1' = s1 /\ s2' = s2 /\ s3' = s3 /\ s4' = s4 /\ s5' = s5 /\ s6' = s6 /\ s7' = s7 /\ s8' = s8
      /\ s10[i].pc = "activate"
  BY DEF Call!ActivatePlugin
<1>2. CASE Call!GorGoes(i, "invoke") /\ s9' = s9
  BY <1>1, <1>2, GorGoesKept DEF Call!GorPCs
<1>3. CASE Call!StepFails(i)
  BY <1>1, <1>3, StepFailsKept
<1> QED
  BY <1>2, <1>3 DEF Call!ActivatePlugin

\* InvokeServerless
LEMMA InvokeServerlessStep ==
  ASSUME Call!CallAssumption, Call!CallIInv, NEW i \in Call!BatchIds, Call!InvokeServerless(i)
  PROVE  Call!CallIInv'
<1>1. /\ s1' = s1 /\ s2' = s2 /\ s3' = s3 /\ s4' = s4 /\ s5' = s5 /\ s6' = s6 /\ s7' = s7 /\ s8' = s8
      /\ s10[i].pc = "invoke"
  BY DEF Call!InvokeServerless
<1>2. CASE Call!GorGoes(i, "scan") /\ s9' = s9
  BY <1>1, <1>2, GorGoesKept DEF Call!GorPCs
<1>3. CASE Call!StepFails(i) \/ Call!SendError(i)
  BY <1>1, <1>3, StepFailsKept
<1>4. CASE s10[i].tries + 1 < MaxRetryTimes /\ s10' = [s10 EXCEPT ![i].tries = @ + 1] /\ s9' = s9
  <2>1. /\ s10 \in [Call!BatchIds -> Call!GorShape] /\ Call!Whole(s3.batches[i], s10[i].held)
        /\ s10[i].lines <= MaxLines
    BY BatchBegun
  <2>2. /\ s10' \in [Call!BatchIds -> Call!GorShape] /\ s10'[i].pc = s10[i].pc
        /\ s10'[i].held = s10[i].held /\ s10'[i].tries = s10[i].tries + 1 /\ s10'[i].lines = s10[i].lines
        /\ \A j \in Call!BatchIds \ {i} : s10'[j] = s10[j]
    BY <1>4, <2>1, GorTries
  <2> QED
    BY <1>1, <1>4, <2>1, <2>2, GorMoves
<1> QED
  BY <1>2, <1>3, <1>4 DEF Call!InvokeServerless

\* An answer has the results of the texts of its batch, or not as many.
LEMMA AnswerKnown ==
  ASSUME Call!CallAssumption, Call!CallIInv, NEW i \in Call!BatchIds, s10[i].pc # "none",
         NEW a \in Call!Answers(i)
  PROVE  <<a>> \in Seq(Call!AnswerShape) /\ Call!Whole(s3.batches[i], <<a>>)
<1> DEFINE b == s3.batches[i]
           all == Call!Items(b)
           m == CHOOSE m \in Models : TRUE
<1>1. Call!CallShape /\ i \in DOMAIN s3.batches
  BY BatchBegun DEF Call!CallIInv
<1>2. b \in Call!BatchShape
  <2>1. s3.batches \in Seq(Call!BatchShape)
    BY <1>1, CallFields
  <2> QED
    BY <1>1, <2>1
<1>3. b.itemOffset \in Nat /\ b.itemCount \in Nat
  BY <1>2 DEF Call!BatchShape
<1>4. all \in Seq(Nat) /\ Len(all) = b.itemCount
  BY <1>3 DEF Call!Items
<1>5. m \in Models
  BY DEF Call!CallAssumption
<1> DEFINE r == SubSeq(all, 2, Len(all))
<1>6. \/ \E x \in Models : a = [items |-> all, model |-> x, usage |-> "yes"]
      \/ a = [items |-> r, model |-> m, usage |-> "yes"]
      \/ a = [items |-> all, model |-> m, usage |-> "no"]
  BY DEF Call!Answers
<1> HIDE DEF all, m
<1>7. r \in Seq(Nat) /\ (Len(r) = b.itemCount => r = all)
  <2>1. CASE Len(all) = 0
    <3>1. all = <<>> /\ r = <<>>
      BY <1>4, <2>1, EmptySeq
    <3> QED
      BY <1>4, <3>1
  <2>2. CASE Len(all) > 0
    <3>1. r \in Seq(Nat) /\ Len(r) = Len(all) - 1
      BY <1>4, <2>2
    <3> QED
      BY <1>3, <1>4, <3>1
  <2> QED
    BY <1>3, <1>4, <2>1, <2>2
<1> HIDE DEF r
<1>8. a \in Call!AnswerShape /\ (a.items = all \/ a.items = r)
  BY <1>4, <1>5, <1>6, <1>7 DEF Call!AnswerShape, Call!YesNo
<1>9. Len(a.items) = b.itemCount => a.items = all
  BY <1>7, <1>8
<1>10. Call!Whole(b, <<a>>)
  BY <1>9 DEF Call!Whole, all
<1> QED
  BY <1>8, <1>10

\* ScanLine
LEMMA ScanLineStep ==
  ASSUME Call!CallAssumption, Call!CallIInv, NEW i \in Call!BatchIds, Call!ScanLine(i)
  PROVE  Call!CallIInv'
<1>1. /\ s1' = s1 /\ s2' = s2 /\ s3' = s3 /\ s4' = s4 /\ s5' = s5 /\ s6' = s6 /\ s7' = s7 /\ s8' = s8
      /\ s10[i].pc = "scan" /\ s10[i].lines < MaxLines
  BY DEF Call!ScanLine
<1>2. /\ s10 \in [Call!BatchIds -> Call!GorShape] /\ Call!Whole(s3.batches[i], s10[i].held)
      /\ s10[i].tries < MaxRetryTimes /\ MaxLines \in Nat
  BY BatchBegun, CallFields DEF Call!CallIInv
<1>3. s10[i] \in Call!GorShape /\ s10[i].lines \in Nat
  BY <1>2 DEF Call!GorShape
<1> DEFINE n == s10[i].lines + 1
           heard == [s10[i] EXCEPT !.lines = n, !.heard = "yes"]
           quiet == [s10[i] EXCEPT !.lines = n]
<1>4. n \in Nat /\ n <= MaxLines
  BY <1>1, <1>2, <1>3
<1>5. \/ \E a \in Call!Answers(i) :
           s10' = [s10 EXCEPT ![i] = [heard EXCEPT !.pc = "chunk", !.held = <<a>>]] /\ s9' = s9
      \/ s10' = [s10 EXCEPT ![i] = heard] /\ (s9' = Call!Closing(i, "yes", "gor") \/ s9' = s9)
      \/ s10' = [s10 EXCEPT ![i] = quiet] /\ s9' = s9
      \/ s10' = [s10 EXCEPT ![i] = [heard EXCEPT !.pc = "delete"]] /\ s9' = s9
      \/ Call!SendError(i)
  BY DEF Call!ScanLine
<1> HIDE DEF n
<1>6. ASSUME NEW g \in Call!GorShape, s10' = [s10 EXCEPT ![i] = g],
             s9' = s9 \/ s9' = Call!Closing(i, "yes", "gor"),
             g.tries = s10[i].tries, g.lines = n, Call!Whole(s3.batches[i], g.held)
      PROVE  Call!CallIInv'
  <2>1. /\ s10' \in [Call!BatchIds -> Call!GorShape] /\ s10'[i] = g
        /\ \A j \in Call!BatchIds \ {i} : s10'[j] = s10[j]
    BY <1>2, <1>6, GorBecomes
  <2> QED
    BY <1>1, <1>2, <1>4, <1>6, <2>1, GorMoves
<1>7. /\ heard \in Call!GorShape /\ heard.tries = s10[i].tries /\ heard.lines = n /\ heard.held = s10[i].held
  BY <1>3, <1>4 DEF Call!GorShape, Call!YesNo
<1>8. /\ quiet \in Call!GorShape /\ quiet.tries = s10[i].tries /\ quiet.lines = n /\ quiet.held = s10[i].held
  BY <1>3, <1>4 DEF Call!GorShape
<1> HIDE DEF heard, quiet
<1>9. ASSUME NEW a \in Call!Answers(i),
             s10' = [s10 EXCEPT ![i] = [heard EXCEPT !.pc = "chunk", !.held = <<a>>]], s9' = s9
      PROVE  Call!CallIInv'
  <2> DEFINE h == <<a>>
             g == [heard EXCEPT !.pc = "chunk", !.held = h]
  <2>1. h \in Seq(Call!AnswerShape) /\ Call!Whole(s3.batches[i], h)
    BY <1>1, AnswerKnown
  <2> HIDE DEF h
  <2>2. g \in Call!GorShape /\ g.tries = heard.tries /\ g.lines = heard.lines /\ g.held = h
    BY <1>7, <2>1 DEF Call!GorShape, Call!GorPCs
  <2>3. s10' = [s10 EXCEPT ![i] = g]
    BY <1>9 DEF h
  <2> HIDE DEF g
  <2> QED
    BY <1>6, <1>7, <1>9, <2>1, <2>2, <2>3
<1>10. ASSUME s10' = [s10 EXCEPT ![i] = [heard EXCEPT !.pc = "delete"]], s9' = s9
       PROVE  Call!CallIInv'
  <2> DEFINE g == [heard EXCEPT !.pc = "delete"]
  <2>1. g \in Call!GorShape /\ g.tries = heard.tries /\ g.lines = heard.lines /\ g.held = heard.held
    BY <1>7 DEF Call!GorShape, Call!GorPCs
  <2>2. s10' = [s10 EXCEPT ![i] = g]
    BY <1>10
  <2> HIDE DEF g
  <2> QED
    BY <1>2, <1>6, <1>7, <1>10, <2>1, <2>2
<1>11. ASSUME s10' = [s10 EXCEPT ![i] = heard], s9' = Call!Closing(i, "yes", "gor") \/ s9' = s9
       PROVE  Call!CallIInv'
  BY <1>2, <1>6, <1>7, <1>11
<1>12. ASSUME s10' = [s10 EXCEPT ![i] = quiet], s9' = s9
       PROVE  Call!CallIInv'
  BY <1>2, <1>6, <1>8, <1>12
<1>13. ASSUME Call!SendError(i) PROVE Call!CallIInv'
  BY <1>1, <1>13, StepFailsKept
<1> QED
  BY <1>5, <1>9, <1>10, <1>11, <1>12, <1>13

\* WriteChunk
LEMMA WriteChunkStep ==
  ASSUME Call!CallAssumption, Call!CallIInv, NEW i \in Call!BatchIds, Call!WriteChunk(i)
  PROVE  Call!CallIInv'
<1>1. /\ s1' = s1 /\ s2' = s2 /\ s3' = s3 /\ s4' = s4 /\ s5' = s5 /\ s6' = s6 /\ s7' = s7 /\ s8' = s8
      /\ s10[i].pc = "chunk"
      /\ s9' = IF s9[i].st = "open" THEN [s9 EXCEPT ![i].q = @ \o s10[i].held] ELSE s9
      /\ s10' = [s10 EXCEPT ![i].pc = "scan", ![i].held = <<>>]
  BY DEF Call!WriteChunk
<1>2. /\ s8 \in [Call!BatchIds -> Call!LisShape] /\ s9 \in [Call!BatchIds -> Call!RespShape]
      /\ s10 \in [Call!BatchIds -> Call!GorShape] /\ ~Call!Fresh(i) /\ ~(i = s4.i /\ s4.pc = "write")
      /\ s9[i].st = "open" => s7 = i /\ s8[i].st = "open"
      /\ Call!Whole(s3.batches[i], s9[i].q) /\ Call!Whole(s3.batches[i], s10[i].held)
      /\ s10[i].tries < MaxRetryTimes /\ s10[i].lines <= MaxLines
  BY <1>1, BatchBegun
<1> DEFINE q == s9[i].q
           h == s10[i].held
           b == s3.batches[i]
<1>3. q \in Seq(Call!AnswerShape) /\ h \in Seq(Call!AnswerShape) /\ Call!Whole(b, q) /\ Call!Whole(b, h)
  BY <1>2 DEF Call!RespShape, Call!GorShape
<1>4. s9[i].st = "open" => s9' = [s9 EXCEPT ![i].q = q \o h]
  BY <1>1
<1> HIDE DEF q, h, b
<1>5. q \o h \in Seq(Call!AnswerShape) /\ Call!Whole(b, q \o h)
  <2>1. /\ q \o h \in Seq(Call!AnswerShape) /\ Len(q \o h) = Len(q) + Len(h)
        /\ \A k \in 1..Len(q) + Len(h) : (q \o h)[k] = IF k <= Len(q) THEN q[k] ELSE h[k - Len(q)]
    BY <1>3, ConcatProperties, Zenon
  <2>2. ASSUME NEW k \in DOMAIN (q \o h), Len((q \o h)[k].items) = b.itemCount
        PROVE  (q \o h)[k].items = Call!Items(b)
    <3>1. k \in 1..Len(q) + Len(h) /\ Len(q) \in Nat /\ Len(h) \in Nat
      BY <1>3, <2>1
    <3>2. CASE k <= Len(q)
      <4>1. k \in DOMAIN q /\ (q \o h)[k] = q[k]
        BY <1>3, <2>1, <3>1, <3>2
      <4> QED
        BY <1>3, <2>2, <4>1 DEF Call!Whole
    <3>3. CASE ~(k <= Len(q))
      <4>1. k - Len(q) \in DOMAIN h /\ (q \o h)[k] = h[k - Len(q)]
        BY <1>3, <2>1, <3>1, <3>3
      <4> QED
        BY <1>3, <2>2, <4>1 DEF Call!Whole
    <3> QED
      BY <3>2, <3>3
  <2> QED
    BY <2>1, <2>2 DEF Call!Whole
<1>6. /\ s9' \in [Call!BatchIds -> Call!RespShape]
      /\ s9'[i].st = s9[i].st /\ Call!Whole(b, s9'[i].q)
      /\ \A j \in Call!BatchIds \ {i} : s9'[j] = s9[j]
  <2>1. CASE s9[i].st = "open"
    <3> DEFINE x == q \o h
    <3>1. x \in Seq(Call!AnswerShape) /\ Call!Whole(b, x) /\ s9' = [s9 EXCEPT ![i].q = x]
      BY <1>4, <1>5, <2>1
    <3> HIDE DEF x
    <3> QED
      BY <1>2, <3>1, RespFills
  <2>2. CASE s9[i].st # "open"
    BY <1>1, <1>2, <1>3, <2>2 DEF q
  <2> QED
    BY <2>1, <2>2
<1>7. /\ s10' \in [Call!BatchIds -> Call!GorShape] /\ s10'[i].pc = "scan" /\ s10'[i].held = <<>>
      /\ s10'[i].tries = s10[i].tries /\ s10'[i].lines = s10[i].lines
      /\ \A j \in Call!BatchIds \ {i} : s10'[j] = s10[j]
  <2> DEFINE e == <<>>
             g == [s10[i] EXCEPT !.pc = "scan", !.held = e]
  <2>0. e \in Seq(Call!AnswerShape)
    OBVIOUS
  <2>2. s10' = [s10 EXCEPT ![i] = g]
    BY <1>1
  <2> HIDE DEF e
  <2>1. g \in Call!GorShape /\ g.pc = "scan" /\ g.held = e /\ g.tries = s10[i].tries /\ g.lines = s10[i].lines
    BY <1>2, <2>0 DEF Call!GorShape, Call!GorPCs
  <2> HIDE DEF g
  <2>3. s10' \in [Call!BatchIds -> Call!GorShape] /\ s10'[i] = g /\ \A j \in Call!BatchIds \ {i} : s10'[j] = s10[j]
    BY <1>2, <2>1, <2>2, GorBecomes
  <2> QED
    BY <2>1, <2>3 DEF e
<1>8. Call!Whole(s3.batches[i], <<>>)
  BY DEF Call!Whole
<1> QED
  BY <1>1, <1>2, <1>6, <1>7, <1>8, BatchMoves DEF b

\* ScanEnds
LEMMA ScanEndsStep ==
  ASSUME Call!CallAssumption, Call!CallIInv, NEW i \in Call!BatchIds, Call!ScanEnds(i)
  PROVE  Call!CallIInv'
<1>1. /\ s1' = s1 /\ s2' = s2 /\ s3' = s3 /\ s4' = s4 /\ s5' = s5 /\ s6' = s6 /\ s7' = s7 /\ s8' = s8
      /\ s10[i].pc = "scan"
  BY DEF Call!ScanEnds
<1>2. CASE Call!GorGoes(i, "delete") /\ s9' = s9
  BY <1>1, <1>2, GorGoesKept DEF Call!GorPCs
<1>3. CASE Call!SendError(i) \/ Call!StepFails(i)
  BY <1>1, <1>3, StepFailsKept
<1> QED
  BY <1>2, <1>3 DEF Call!ScanEnds

\* DeleteListener
LEMMA DeleteListenerStep ==
  ASSUME Call!CallAssumption, Call!CallIInv, NEW i \in Call!BatchIds, Call!DeleteListener(i)
  PROVE  Call!CallIInv'
<1> DEFINE l == IF s10[i].sendEnd = "yes" THEN "end" ELSE "close"
<1>1. /\ s1' = s1 /\ s2' = s2 /\ s3' = s3 /\ s4' = s4 /\ s5' = s5 /\ s6' = s6 /\ s8' = s8 /\ s9' = s9
      /\ s10[i].pc = "delete" /\ s7' = Call!DeleteIf(i) /\ Call!GorGoes(i, l)
  BY DEF Call!DeleteListener
<1>2. /\ s8 \in [Call!BatchIds -> Call!LisShape] /\ s9 \in [Call!BatchIds -> Call!RespShape]
      /\ s10 \in [Call!BatchIds -> Call!GorShape] /\ ~Call!Fresh(i) /\ ~(i = s4.i /\ s4.pc = "write")
      /\ Call!Whole(s3.batches[i], s9[i].q) /\ Call!Whole(s3.batches[i], s10[i].held)
      /\ s10[i].tries < MaxRetryTimes /\ s10[i].lines <= MaxLines
  BY <1>1, BatchBegun
<1>3. l \in Call!GorPCs /\ l \in {"end", "close"}
  BY DEF Call!GorPCs
<1> HIDE DEF l
<1>4. /\ s10' \in [Call!BatchIds -> Call!GorShape] /\ s10'[i].pc = l
      /\ s10'[i].held = s10[i].held /\ s10'[i].tries = s10[i].tries /\ s10'[i].lines = s10[i].lines
      /\ \A j \in Call!BatchIds \ {i} : s10'[j] = s10[j]
  BY <1>1, <1>2, <1>3, GorSteps
<1> QED
  BY <1>1, <1>2, <1>3, <1>4, BatchMoves

\* SendEnd
LEMMA SendEndStep ==
  ASSUME Call!CallAssumption, Call!CallIInv, NEW i \in Call!BatchIds, Call!SendEnd(i)
  PROVE  Call!CallIInv'
<1>1. /\ s1' = s1 /\ s2' = s2 /\ s3' = s3 /\ s4' = s4 /\ s5' = s5 /\ s6' = s6 /\ s7' = s7 /\ s8' = s8
      /\ s10[i].pc = "end" /\ s9' = Call!Closing(i, "no", "gor") /\ Call!GorGoes(i, "close")
  BY DEF Call!SendEnd
<1> QED
  BY <1>1, GorGoesKept DEF Call!GorPCs

\* CloseListener
LEMMA CloseListenerStep ==
  ASSUME Call!CallAssumption, Call!CallIInv, NEW i \in Call!BatchIds, Call!CloseListener(i)
  PROVE  Call!CallIInv'
<1> DEFINE g == [Call!NoGoroutine EXCEPT !.pc = "gone"]
<1>1. /\ s1' = s1 /\ s2' = s2 /\ s3' = s3 /\ s4' = s4 /\ s5' = s5 /\ s6' = s6 /\ s7' = s7 /\ s9' = s9
      /\ s10[i].pc = "close" /\ s8' = Call!ListenerClosing(i, "gor") /\ s10' = [s10 EXCEPT ![i] = g]
  BY DEF Call!CloseListener
<1>2. /\ s8 \in [Call!BatchIds -> Call!LisShape] /\ s9 \in [Call!BatchIds -> Call!RespShape]
      /\ s10 \in [Call!BatchIds -> Call!GorShape] /\ ~Call!Fresh(i) /\ ~(i = s4.i /\ s4.pc = "write")
      /\ Call!Whole(s3.batches[i], s9[i].q)
  BY <1>1, BatchBegun
<1>3. s8' \in [Call!BatchIds -> Call!LisShape] /\ \A j \in Call!BatchIds \ {i} : s8'[j] = s8[j]
  BY <1>1, <1>2, LisCloses
<1>4. g \in Call!GorShape /\ g.pc = "gone" /\ g.held = <<>> /\ g.tries = 0 /\ g.lines = 0
  <2> DEFINE e == <<>>
             h == [pc |-> "gone", tries |-> 0, sendEnd |-> "yes", heard |-> "no", lines |-> 0, held |-> e]
  <2>1. e \in Seq(Call!AnswerShape)
    OBVIOUS
  <2>2. g = h
    BY DEF Call!NoGoroutine
  <2> HIDE DEF e
  <2>3. h \in Call!GorShape /\ h.pc = "gone" /\ h.held = e /\ h.tries = 0 /\ h.lines = 0
    BY <2>1 DEF Call!GorShape, Call!GorPCs, Call!YesNo
  <2> HIDE DEF h, g
  <2> QED
    BY <2>2, <2>3 DEF e
<1> HIDE DEF g
<1>5. /\ s10' \in [Call!BatchIds -> Call!GorShape] /\ s10'[i] = g
      /\ \A j \in Call!BatchIds \ {i} : s10'[j] = s10[j]
  BY <1>1, <1>2, <1>4, GorBecomes
<1>6. Call!Whole(s3.batches[i], <<>>) /\ MaxRetryTimes > 0 /\ MaxLines >= 0
  BY CallFields DEF Call!Whole, Call!CallIInv
<1> QED
  BY <1>1, <1>2, <1>3, <1>4, <1>5, <1>6, BatchMoves

------------------------------------------------------------------------------
(* ServerlessCall: the invariant *)

\* Nothing changes.
LEMMA CallIdle ==
  ASSUME Call!CallAssumption, Call!CallIInv, UNCHANGED Call!callVars
  PROVE  Call!CallIInv'
<1>1. Call!CallShape /\ Call!ClientKnows
  BY DEF Call!CallIInv
<1>2. /\ s1' = s1 /\ s2' = s2 /\ s3' = s3 /\ s4' = s4 /\ s5' = s5 /\ s6' = s6 /\ s7' = s7 /\ s8' = s8
      /\ s9' = s9 /\ s10' = s10
  BY DEF Call!callVars
<1>3. s4 \in Call!CoShape /\ s5 \in Call!ClientShape /\ s6 \in BOOLEAN
  BY <1>1, ShapeParts
<1>4. Call!ClientKnows'
  BY <1>1, <1>2, ClientKept
<1>5. s4' \in Call!CoShape /\ s5' \in Call!ClientShape /\ s6' \in BOOLEAN
  BY <1>2, <1>3, Zenon
<1> QED
  BY <1>2, <1>4, <1>5, ClientMoves

\* Every step keeps the invariant.
LEMMA CallGoesOn ==
  ASSUME Call!CallAssumption, Call!CallIInv, Call!CallNext \/ UNCHANGED Call!callVars
  PROVE  Call!CallIInv'
<1>1. CASE Call!SplitStart \/ Call!SplitText \/ Call!SplitEnd
  BY <1>1, SplitStep
<1>2. CASE Call!BatchListen
  BY <1>2, BatchListenStep
<1>3. CASE Call!BatchWrite
  BY <1>3, BatchWriteStep
<1>4. CASE Call!BatchHook
  BY <1>4, BatchHookStep
<1>5. CASE Call!BatchRead
  BY <1>5, BatchReadStep
<1>6. CASE Call!WriteResult
  BY <1>6, WriteResultStep
<1>7. CASE Call!CloseResult
  BY <1>7, CloseResultStep
<1>8. CASE Call!ClientLeaves
  BY <1>8, ClientLeavesStep
<1>11. CASE Call!ClientGone
  BY <1>11, ClientGoneStep
<1>9. CASE Call!CallOver \/ UNCHANGED Call!callVars
  <2>1. UNCHANGED Call!callVars
    BY <1>9 DEF Call!CallOver
  <2> QED
    BY <2>1, CallIdle
<1>10. ASSUME NEW i \in Call!BatchIds,
              \/ Call!CloseOnCancel(i) \/ Call!ResponseCallbacks(i) \/ Call!ListenerCallback(i)
              \/ Call!ActivatePlugin(i) \/ Call!InvokeServerless(i) \/ Call!ScanLine(i) \/ Call!WriteChunk(i)
              \/ Call!ScanEnds(i) \/ Call!DeleteListener(i) \/ Call!SendEnd(i) \/ Call!CloseListener(i)
       PROVE  Call!CallIInv'
  <2>1. CASE Call!CloseOnCancel(i)
    BY <2>1, CloseOnCancelStep
  <2>2. CASE Call!ResponseCallbacks(i)
    BY <2>2, ResponseCallbacksStep
  <2>3. CASE Call!ListenerCallback(i)
    BY <2>3, ListenerCallbackStep
  <2>4. CASE Call!ActivatePlugin(i)
    BY <2>4, ActivatePluginStep
  <2>5. CASE Call!InvokeServerless(i)
    BY <2>5, InvokeServerlessStep
  <2>6. CASE Call!ScanLine(i)
    BY <2>6, ScanLineStep
  <2>7. CASE Call!WriteChunk(i)
    BY <2>7, WriteChunkStep
  <2>8. CASE Call!ScanEnds(i)
    BY <2>8, ScanEndsStep
  <2>9. CASE Call!DeleteListener(i)
    BY <2>9, DeleteListenerStep
  <2>10. CASE Call!SendEnd(i)
    BY <2>10, SendEndStep
  <2>11. CASE Call!CloseListener(i)
    BY <2>11, CloseListenerStep
  <2> QED
    BY <1>10, <2>1, <2>2, <2>3, <2>4, <2>5, <2>6, <2>7, <2>8, <2>9, <2>10, <2>11, Zenon
<1> QED
  BY <1>1, <1>2, <1>3, <1>4, <1>5, <1>6, <1>7, <1>8, <1>9, <1>10, <1>11, Zenon DEF Call!CallNext

\* A request begins with nothing done.
LEMMA CallStart ==
  ASSUME Call!CallAssumption, Call!CallInit
  PROVE  Call!CallIInv
<1> DEFINE e == <<>>
<1>1. /\ s3 = [batches |-> <<>>, seen |-> 0, start |-> 0, estimated |-> EmptyBytes, err |-> "none"]
      /\ s4 = [pc |-> "split", i |-> 1, merged |-> <<>>, models |-> {}]
      /\ s5 = [data |-> <<>>, st |-> "open", err |-> "no", outcome |-> "canceled", recorded |-> "no"]
      /\ s7 = 0 /\ s8 = [i \in Call!BatchIds |-> Call!NoListener]
      /\ s9 = [i \in Call!BatchIds |-> Call!NewResponse] /\ s10 = [i \in Call!BatchIds |-> Call!NoGoroutine]
      /\ s2 \in {"embedding", "tokens"}
  BY DEF Call!CallInit
<1>2. {EmptyBytes, MaxTexts, MaxLines} \subseteq Nat /\ MaxRetryTimes \in Nat /\ MaxRetryTimes > 0
  BY DEF Call!CallAssumption
<1>3. s1 \in Seq(TextBytes) /\ Len(s1) <= MaxTexts /\ Len(s1) \in Nat
  <2>1. PICK n \in 0..MaxTexts : s1 \in [1..n -> TextBytes]
    BY DEF Call!CallInit
  <2>2. n \in Nat /\ n <= MaxTexts
    BY <1>2, <2>1
  <2> QED
    BY <2>1, <2>2
<1>4. Call!CallShape
  <2>1. s3 \in Call!PlanShape
    <3>1. e \in Seq(Call!BatchShape)
      OBVIOUS
    <3>2. s3 = [batches |-> e, seen |-> 0, start |-> 0, estimated |-> EmptyBytes, err |-> "none"]
      BY <1>1
    <3> HIDE DEF e
    <3> QED
      BY <1>2, <3>1, <3>2 DEF Call!PlanShape
  <2>2. s4 \in Call!CoShape
    <3>1. e \in Seq(Nat) /\ {} \in SUBSET Models /\ "split" \in Call!CallPCs /\ 1 \in 1..MaxTexts + 1
      BY <1>2 DEF Call!CallPCs
    <3>2. s4 = [pc |-> "split", i |-> 1, merged |-> e, models |-> {}]
      BY <1>1
    <3> HIDE DEF e
    <3> QED
      BY <3>1, <3>2 DEF Call!CoShape
  <2>3. s5 \in Call!ClientShape
    <3>1. e \in Seq(Nat)
      OBVIOUS
    <3>2. s5 = [data |-> e, st |-> "open", err |-> "no", outcome |-> "canceled", recorded |-> "no"]
      BY <1>1
    <3> HIDE DEF e
    <3> QED
      BY <3>1, <3>2 DEF Call!ClientShape, Call!YesNo
  <2>4. s6 \in BOOLEAN
    BY Zenon DEF Call!CallInit
  <2>5. s8 \in [Call!BatchIds -> Call!LisShape]
    BY <1>1 DEF Call!NoListener, Call!LisShape
  <2>6. s9 \in [Call!BatchIds -> Call!RespShape]
    <3>1. e \in Seq(Call!AnswerShape)
      OBVIOUS
    <3>2. Call!NewResponse = [q |-> e, st |-> "open", err |-> "no", hook |-> "no", by |-> "none"]
      BY DEF Call!NewResponse
    <3> HIDE DEF e
    <3>3. Call!NewResponse \in Call!RespShape
      BY <3>1, <3>2 DEF Call!RespShape, Call!YesNo
    <3> QED
      BY <1>1, <3>3
  <2>7. s10 \in [Call!BatchIds -> Call!GorShape]
    <3>1. e \in Seq(Call!AnswerShape)
      OBVIOUS
    <3>2. Call!NoGoroutine = [pc |-> "none", tries |-> 0, sendEnd |-> "yes", heard |-> "no", lines |-> 0, held |-> e]
      BY DEF Call!NoGoroutine
    <3> HIDE DEF e
    <3>3. Call!NoGoroutine \in Call!GorShape
      BY <3>1, <3>2 DEF Call!GorShape, Call!YesNo, Call!GorPCs
    <3> QED
      BY <1>1, <3>3
  <2>8. s7 \in 0..MaxTexts
    BY <1>1, <1>2
  <2> QED
    BY <1>1, <1>3, <2>1, <2>2, <2>3, <2>4, <2>5, <2>6, <2>7, <2>8, Zenon DEF Call!CallShape
<1>5. Call!PlanKnows /\ Call!PlanIsOptimal
  BY <1>1, <1>3 DEF Call!PlanKnows, Call!PlanIsOptimal
<1>6. Call!CoKnows
  <2>1. Call!Cardinality({}) = 0
    BY CallFiniteSets, FS_EmptySet
  <2> QED
    BY <1>1, <1>3, <2>1 DEF Call!CoKnows
<1>7. Call!ClientKnows
  BY <1>1 DEF Call!ClientKnows
<1>8. ASSUME NEW i \in Call!BatchIds PROVE Call!BatchKnows(i)
  <2>1. Call!Fresh(i)
    BY <1>1 DEF Call!Fresh
  <2>2. /\ s9[i].q = <<>> /\ s9[i].st = "open" /\ s10[i].held = <<>> /\ s10[i].pc = "none"
        /\ s10[i].tries = 0 /\ s10[i].lines = 0
    BY <2>1 DEF Call!Fresh, Call!NewResponse, Call!NoGoroutine
  <2>3. Call!Whole(s3.batches[i], <<>>)
    BY DEF Call!Whole
  <2>4. i \in Nat /\ i >= 1 /\ s4.i = 1 /\ s4.pc = "split"
    BY <1>1, <1>2 DEF Call!BatchIds
  <2> QED
    BY <1>2, <2>1, <2>2, <2>3, <2>4 DEF Call!BatchKnows
<1> QED
  BY <1>4, <1>5, <1>6, <1>7, <1>8, Zenon DEF Call!CallIInv

\* What the invariant says of a request.
LEMMA CallGood ==
  ASSUME Call!CallAssumption, Call!CallIInv
  PROVE  Call!CallTypeOK /\ Call!PlanIsOptimal /\ Call!MergedInOrder /\ Call!ListenerSurvives
<1>1. /\ Call!CallShape /\ Call!PlanKnows /\ Call!PlanIsOptimal /\ Call!CoKnows /\ Call!ClientKnows
      /\ \A j \in Call!BatchIds : Call!BatchKnows(j)
  BY DEF Call!CallIInv
<1>2. /\ s1 \in Seq(TextBytes) /\ s2 \in {"embedding", "tokens"}
      /\ s3.err \in {"none", "too large", "mismatch"} /\ Len(s3.batches) <= Len(s1)
      /\ s4.i \in 1..MaxTexts + 1 /\ Len(s4.merged) <= Len(s1)
      /\ s5.recorded \in {"no", "success", "error", "canceled"} /\ s7 \in 0..MaxTexts
  BY <1>1 DEF Call!CallShape, Call!PlanShape, Call!CoShape, Call!ClientShape, Call!PlanKnows, Call!CoKnows
<1>3. s6 \in BOOLEAN
  BY <1>1, Zenon DEF Call!CallShape
<1>4. ASSUME NEW i \in Call!BatchIds
      PROVE  /\ s8[i].st \in {"none", "open", "closing", "closed"}
             /\ s9[i].st \in {"open", "closing", "closed"}
             /\ s10[i].tries < MaxRetryTimes /\ s10[i].lines <= MaxLines
             /\ s10[i].pc \in {"activate", "invoke", "scan", "chunk"} /\ s9[i].st = "open" => s7 = i
  <2>1. s8[i] \in Call!LisShape /\ s9[i] \in Call!RespShape
    BY <1>1, ShapeParts
  <2>2. s8[i].st \in {"none", "open", "closing", "closed"} /\ s9[i].st \in {"open", "closing", "closed"}
    BY <2>1 DEF Call!LisShape, Call!RespShape
  <2> QED
    BY <2>2, BatchBegun
<1>5. Call!CallTypeOK
  BY <1>2, <1>3, <1>4, Zenon DEF Call!CallTypeOK
<1>6. Call!MergedInOrder
  <2>1. Call!Upto_(Len(s1)) = [k \in 1..Len(s1) |-> k]
    BY DEF Call!Upto_
  <2>2. Len(Call!Upto_(Len(s1))) = Len(s1)
    <3>1. Len(s1) \in Nat /\ 0 \in Nat
      BY <1>1, CallFields
    <3> QED
      BY <3>1, UptoNext
  <2>3. s2 = "embedding" => Call!Cardinality(s4.models) <= 1
    BY <1>1 DEF Call!CoKnows
  <2>4. /\ s5.data \in {<<>>, Call!Upto_(Len(s1))}
        /\ s5.recorded = "success" => s5.err = "left" \/ s5.data = Call!Upto_(Len(s1))
        /\ s5.recorded = "error" => s5.err # "no"
    BY <1>1 DEF Call!ClientKnows
  <2> HIDE DEF Call!Upto_
  <2> QED
    BY <2>1, <2>2, <2>3, <2>4 DEF Call!MergedInOrder
<1>7. Call!ListenerSurvives
  <2>1. ASSUME s4.pc = "write" PROVE s7 = s4.i
    <3>1. s4.i \in Call!BatchIds
      BY <1>1, <2>1, BatchUnderWay
    <3> QED
      BY <2>1, <3>1, BatchBegun
  <2> QED
    BY <1>4, <2>1 DEF Call!ListenerSurvives, Call!At_
<1> QED
  BY <1>1, <1>5, <1>6, <1>7

\* For any number of texts of any size, and any limit and number of tries: batches cover
\* the texts in order, fit the limit and are as few as possible, and there are none exactly
\* when some text does not fit; the caller reads the results of all texts in order or an
\* error; and the late close of one batch does not take the listener of the next
\* (model_serverless_batch.go, serverless_runtime/io.go).
THEOREM CallIsAnswered ==
  RuntimesSpec => [](unit = "call" => /\ Call!CallTypeOK /\ Call!PlanIsOptimal
                                      /\ Call!MergedInOrder /\ Call!ListenerSurvives)
<1> DEFINE Inv == unit = "call" => Call!CallIInv
           Good == unit = "call" => /\ Call!CallTypeOK /\ Call!PlanIsOptimal
                                    /\ Call!MergedInOrder /\ Call!ListenerSurvives
<1>1. RuntimesInit => Inv
  BY CallStart, RuntimesAssumption DEF RuntimesInit
<1>2. Inv /\ [RuntimesNext]_runtimesVars => Inv'
  <2> SUFFICES ASSUME Inv, [RuntimesNext]_runtimesVars, unit' = "call" PROVE Call!CallIInv'
    OBVIOUS
  <2>1. unit = "call" /\ Call!CallIInv
    BY DEF RuntimesNext, runtimesVars
  <2>2. Call!CallNext \/ UNCHANGED Call!callVars
    BY <2>1 DEF RuntimesNext, runtimesVars, unitVars, Call!callVars
  <2> QED
    BY <2>1, <2>2, CallGoesOn, RuntimesAssumption
<1>3. Inv => Good
  BY CallGood, RuntimesAssumption
<1> QED
  BY <1>1, <1>2, <1>3, PTL DEF RuntimesSpec

\* The serverless runtime as a whole: what a request and what the installation of its
\* function promise (model_serverless_batch.go, serverless_runtime/io.go, installer.go,
\* installer_serverless.go, launch.go).
THEOREM ServerlessStaysServed == RuntimesSpec => []ServerlessIsServed
<1>1. /\ unit = "call" => /\ Call!CallTypeOK /\ Call!PlanIsOptimal
                          /\ Call!MergedInOrder /\ Call!ListenerSurvives
      /\ unit = "build" => /\ Inst!InstTypeOK /\ Inst!FollowersServed /\ Inst!BuiltOnce
                           /\ Inst!LockIsOfALaunch
                           /\ Inst!DoneIsPersisted /\ Inst!RowCacheFresh
      => ServerlessIsServed
  BY DEF ServerlessIsServed
<1> QED
  BY <1>1, CallIsAnswered, FunctionIsBuiltOnce, PTL
===============================================================================
