------------------------------ MODULE MCProgress ------------------------------
(* The liveness of LocalRuntime, Backwards and Stream on small instances, in one  *)
(* run.  They share no state: unit says which of them a behaviour is about, and   *)
(* the others rest in one of their initial states.                                *)
EXTENDS LocalRuntime

CONSTANTS i1, v1, c1

CONSTANTS Producers, Consumers, Closers, Hooks, Capacity, MaxWrites, MaxErrors  \* of Stream

CONSTANTS BwdReqs, BwdTypes, Grants, MaxChunks   \* of Backwards

VARIABLES unit, bwdSession, req

VARIABLES q, state, err, sig, done, waiting, filtered, hook, closer, stage, closeErr,
          overtaken, streamPc, accepted, delivered, errors

Bwd == INSTANCE Backwards WITH session <- bwdSession
Str == INSTANCE Stream WITH pc <- streamPc

backVars == <<bwdSession, req>>
streamVars == <<q, state, err, sig, done, waiting, filtered, hook, closer, stage, closeErr,
                overtaken, streamPc, accepted, delivered, errors>>
progressVars == <<unit, vars, backVars, streamVars>>

ProgressInit ==
  /\ unit \in {"local", "backwards", "stream"}
  /\ Init
  /\ Bwd!BwdInit
  /\ Str!Init
  /\ unit # "backwards" => ~bwdSession.fromModel /\ \A r \in BwdReqs : Bwd!Serverless(r)

ProgressNext ==
  \/ unit = "local" /\ Next /\ UNCHANGED <<unit, backVars, streamVars>>
  \/ unit = "backwards" /\ Bwd!BwdNext /\ UNCHANGED <<unit, vars, streamVars>>
  \/ unit = "stream" /\ Str!Next /\ UNCHANGED <<unit, vars, backVars>>

\* The fairness of each module, of its own unit.
ProgressFairness ==
  /\ WF_vars(unit = "local" /\ LoopStep)
  /\ \A i \in Instances :
       /\ WF_vars(unit = "local" /\ ReaderStep(i))
       /\ WF_vars(unit = "local" /\ MonitorStops(i))
  /\ \A c \in Calls : WF_vars(unit = "local" /\ CallStep(c))
  /\ \A s \in Sessions :
       /\ WF_vars(unit = "local" /\ SessionStep(s))
       /\ WF_vars(unit = "local" /\ DoneFires(s))
  /\ \A r \in BwdReqs :
       /\ SF_backVars(unit = "backwards" /\ Bwd!InvocationStep(r))
       /\ WF_backVars(unit = "backwards" /\ Bwd!BeatWrites(r))
       /\ WF_backVars(unit = "backwards" /\ (Bwd!HandlerReturns(r) \/ Bwd!HandlerTimesOut(r)))
  /\ \A p \in Producers : WF_streamVars(unit = "stream" /\ Str!ProducerStep(p))
  /\ \A c \in Consumers : WF_streamVars(unit = "stream" /\ Str!ConsumerStep(c))
  /\ WF_streamVars(unit = "stream" /\ Str!CloseStep)

ProgressSpec == ProgressInit /\ [][ProgressNext]_progressVars /\ ProgressFairness

------------------------------------------------------------------------------
\* After close every blocked producer of a stream returns, and every consumer is told
\* the end or has stopped by itself (Stream).
StreamIsReleased == Str!CloseReleasesAll

\* LaunchLocalPlugin gets its answer unless the runtime is scaled to zero again and
\* again (LocalRuntime).
LaunchIsReported == unit = "local" => LaunchReports

\* A request of a plugin comes to an end, reaches Dify only with a permission of the
\* declaration, and is answered in a well-formed stream.  Nothing is written after the
\* handler has returned but one heartbeat, unless the handler gave up waiting
\* (Backwards).
RequestsAnswered ==
  /\ [](Bwd!BwdTypeOK /\ Bwd!AnswerWellFormed /\ Bwd!OnlyPermittedCalls /\ Bwd!NoStrayWrite)
  /\ Bwd!RequestsEnd
==============================================================================
