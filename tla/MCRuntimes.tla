------------------------------ MODULE MCRuntimes ------------------------------
(* LocalRuntime, the environments local plugins run in, and the serverless         *)
(* runtime, checked for safety, each module on a small instance.  They share no    *)
(* state, so a behaviour is one of one unit.  LocalRuntime has its own variables;  *)
(* s1, s2, ... are the variables of whichever other unit it is.                    *)
EXTENDS LocalRuntime, TLC

CONSTANTS x1, x2, x3, v1, c1, d1, d2

CONSTANTS
  Daemons, MaxCrashes, MaxInits,
  MaxTexts, TextBytes, EmptyBytes, MaxRequestBytes, MaxRetryTimes, MaxLines, Models,
  InstCallers, InstDaemons, DaemonOf, MaxBuilds

VARIABLES unit, s1, s2, s3, s4, s5, s6, s7, s8, s9, s10, s11, s12, s13

Env == INSTANCE Environment WITH
  at <- s1, held <- s2, renewing <- s3, owner <- s4, files <- s5, venv <- s6,
  flag <- s7, patched <- s8, inits <- s9, crashes <- s10, lost <- s11,
  overlap <- s12, torn <- s13
Call == INSTANCE ServerlessCall WITH
  texts <- s1, kind <- s2, plan <- s3, co <- s4, client <- s5, canceled <- s6,
  listeners <- s7, lis <- s8, resp <- s9, gor <- s10
Inst == INSTANCE ServerlessInstall WITH
  built <- s1, row <- s2, rowCache <- s3, flight <- s4, launchLock <- s5,
  calls <- s6, builtFor <- s7, orphans <- s8, suspectRow <- s9, excused <- s10

unitVars == <<s1, s2, s3, s4, s5, s6, s7, s8, s9, s10, s11, s12, s13>>
runtimesVars == <<unit, vars, unitVars>>

\* The assumptions of the instances on their constants.
ASSUME RuntimesAssumption ==
  /\ Env!EnvironmentAssumption
  /\ Call!CallAssumption
  /\ Inst!InstAssumption

RuntimesInit ==
  /\ Init
  /\ \/ unit = "local"
        /\ s1 = 0 /\ s2 = 0 /\ s3 = 0 /\ s4 = 0 /\ s5 = 0 /\ s6 = 0 /\ s7 = 0 /\ s8 = 0
        /\ s9 = 0 /\ s10 = 0 /\ s11 = 0 /\ s12 = 0 /\ s13 = 0
     \/ unit = "environment" /\ Env!EnvInit
     \/ unit = "call" /\ Call!CallInit
        /\ s11 = 0 /\ s12 = 0 /\ s13 = 0
     \/ unit = "build" /\ Inst!InstInit
        /\ s11 = 0 /\ s12 = 0 /\ s13 = 0

RuntimesNext ==
  \/ unit = "local" /\ Next /\ UNCHANGED <<unit, unitVars>>
  \/ unit = "environment" /\ Env!EnvNext /\ UNCHANGED <<unit, vars>>
  \/ unit = "call" /\ Call!CallNext /\ UNCHANGED <<unit, vars, s11, s12, s13>>
  \/ unit = "build" /\ Inst!InstNext /\ UNCHANGED <<unit, vars, s11, s12, s13>>

RuntimesSpec == RuntimesInit /\ [][RuntimesNext]_runtimesVars

------------------------------------------------------------------------------
\* Callers x1 and x2 are served by one daemon, x3 by the other.
MCDaemonOf == [c \in InstCallers |-> IF c = x3 THEN d2 ELSE d1]

\* x1 and x2 stand for instances, daemons or callers of one daemon, which are
\* interchangeable.
Symmetry == Permutations({x1, x2})

------------------------------------------------------------------------------
(* The properties of each unit, stated one by one and explained in its module. *)

\* Environment: the owned lock stays with its holder until it is released or
\* expires, so initializations overlap only after it was given up or lost; without
\* an overlap what is marked valid has its dependencies, and an initialization that
\* succeeds leaves an environment that can run the plugin, whatever crashed before.
EnvironmentIsUsable ==
  unit = "environment" =>
       /\ Env!EnvTypeOK
       /\ Env!HolderOwnsLock
       /\ Env!MarkedIsInstalled
       /\ Env!ReadyIsUsable
       /\ Env!LockExcludes

\* ServerlessCall: batches cover the texts in order, fit the limit and are as few as
\* possible; the caller reads the results of all texts in order or an error; and the
\* late close of one batch does not take the listener of the next.
\* ServerlessInstall: a caller that leaves does not cancel what others wait for; no two
\* functions are built by launches that kept the lock, and every launch gives it back; a
\* reported success is stored and the cached row is the stored one, the races named
\* there apart.
ServerlessIsServed ==
  /\ unit = "call" =>
       /\ Call!CallTypeOK
       /\ Call!PlanIsOptimal
       /\ Call!MergedInOrder
       /\ Call!ListenerSurvives
  /\ unit = "build" =>
       /\ Inst!InstTypeOK
       /\ Inst!FollowersServed
       /\ Inst!BuiltOnce
       /\ Inst!LockIsOfALaunch
       /\ Inst!DoneIsPersisted
       /\ Inst!RowCacheFresh
===============================================================================
