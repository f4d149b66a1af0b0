----------------------------- MODULE LocalRuntime -----------------------------
(***************************************************************************)
(* A plugin run as local subprocesses: internal/core/local_runtime, with   *)
(* the callers that invoke it, invokePluginOnce in io_tunnel/generic.go.   *)
(*                                                                         *)
(* scheduleLoop keeps the number of instances at instanceNums.  Each       *)
(* instance is a subprocess with a goroutine that reads its stdout, first  *)
(* of all the heartbeat that makes it ready.  A session picks an instance, *)
(* listens on it and writes its request into it, and tries again with      *)
(* another one when that instance is dead.  Stop and GracefulStop may be   *)
(* called at any time after the launch has been reported.                  *)
(*                                                                         *)
(* A member of Instances stands for an instance object; when nothing       *)
(* refers to it any more it is used again for a new one.                   *)
(***************************************************************************)
EXTENDS Integers, FiniteSets

CONSTANTS
  Instances,    \* bound: instance objects that exist at a time
  Sessions,     \* invocations of the plugin
  Calls,        \* calls of Stop and GracefulStop
  MaxReplicas,  \* bound on instanceNums
  TimeoutMayFire, \* GracefulStop may run into maxWaitTime
  None

ASSUME LocalRuntimeAssumption ==
  /\ None \notin Instances
  /\ IsFiniteSet(Instances)
  /\ MaxReplicas \in Nat \ {0}
  /\ TimeoutMayFire \in BOOLEAN

VARIABLES
  replicas,   \* instanceNums
  running,    \* scheduleStatus
  loop, cur,  \* scheduleLoop: where it is, and the instance it works on
  instances,  \* r.instances, the instances that have become ready
  proc,       \* the subprocess of an instance
  reader,     \* its StartStdout goroutine
  stopped,    \* instances whose Stop has run: done is closed, and the pipes
  started,    \* instances whose first heartbeat has been handled
  monitored,  \* instances whose Monitor runs
  reported,   \* LaunchLocalPlugin has its answer, the once of its notifier
  call, held, \* a Stop or GracefulStop call, and the instance it works on
  session,    \* where invokePluginOnce of a session is
  at,         \* sessionToInstanceMap: the instance it has picked
  listening,  \* sessions in the listener map of an instance
  hooked,     \* sessions whose onChunk is registered with the listener
  armed,      \* sessions whose goroutine still waits for Done
  closed      \* sessions whose response stream is closed

instanceVars == <<proc, reader, stopped, started, monitored>>
sessionVars  == <<session, at, listening, hooked, armed, closed>>
loopVars     == <<replicas, running, loop, cur, reported>>
vars == <<loopVars, instances, instanceVars, call, held, sessionVars>>

LoopPCs    == {"check", "launch", "shrink", "shrunk", "wait", "halt", "drain", "closed"}
Procs      == {"none", "up", "silent", "exited", "reaped"}
ReaderPCs  == {"none", "scan", "ready", "kill", "shutdown", "done"}
CallPCs    == {"idle", "force", "force_index", "graceful", "graceful_index",
               "grace", "kill", "wait", "done", "panic"}
SessionPCs == {"idle", "listen", "setup", "hook", "write", "accepted", "retry", "done", "failed"}

------------------------------------------------------------------------------
\* LaunchLocalPlugin has made the runtime, called ScaleUp and Schedule.
Init ==
  /\ replicas = 1 /\ running = TRUE
  /\ loop = "check" /\ cur = None /\ reported = FALSE
  /\ instances = {}
  /\ proc = [i \in Instances |-> "none"]
  /\ reader = [i \in Instances |-> "none"]
  /\ stopped = {} /\ started = {} /\ monitored = {}
  /\ call = [c \in Calls |-> "idle"]
  /\ held = [c \in Calls |-> None]
  /\ session = [s \in Sessions |-> "idle"]
  /\ at = [s \in Sessions |-> None]
  /\ listening = [i \in Instances |-> {}]
  /\ hooked = {} /\ armed = {} /\ closed = {}

\* pruneStoppedInstancesLocked
Pruned == instances \ stopped

\* An instance object nothing refers to: it stands for the next new one.
Fresh(i) ==
  /\ reader[i] \in {"none", "done"}
  /\ i \notin instances /\ i # cur
  /\ \A c \in Calls : held[c] # i
  /\ \A s \in Sessions : at[s] # i

------------------------------------------------------------------------------
(* The schedule loop.                                                      *)

\* Fewer instances than wanted: startNewInstance starts the subprocess and the
\* goroutine of its stdout, and waits.
StartNewInstance ==
  /\ loop = "check"
  /\ Cardinality(Pruned) < replicas
  /\ instances' = Pruned
  /\ \E i \in Instances :
       /\ Fresh(i)
       /\ cur' = i
       /\ proc' = [proc EXCEPT ![i] = "up"]
       /\ reader' = [reader EXCEPT ![i] = "scan"]
       /\ stopped' = stopped \ {i}
       /\ started' = started \ {i}
       /\ monitored' = monitored \ {i}
  /\ loop' = "launch"
  /\ UNCHANGED <<replicas, running, reported, call, held, sessionVars>>

\* The command, the pipes or the start of the process fail.
StartFails ==
  /\ loop = "check"
  /\ Cardinality(Pruned) < replicas
  /\ instances' = Pruned
  /\ loop' = "wait" /\ reported' = TRUE
  /\ UNCHANGED <<replicas, running, cur, instanceVars, call, held, sessionVars>>

\* The number is right, or it is too high and one instance is picked to go.  (When all of
\* them have gone before one is picked, ErrNoProperInstance, the loop waits for its next
\* round, as it does when they go first.)
Compare ==
  /\ loop = "check"
  /\ Cardinality(Pruned) >= replicas
  /\ instances' = Pruned
  /\ \/ /\ Cardinality(Pruned) > replicas
        /\ \E i \in Pruned : cur' = i
        /\ loop' = "shrink"
     \/ /\ Cardinality(Pruned) = replicas
        /\ loop' = "wait" /\ UNCHANGED cur
  /\ UNCHANGED <<replicas, running, reported, instanceVars, call, held, sessionVars>>

\* launchChannel is closed: the instance is monitored from now on.
LaunchDone ==
  /\ loop = "launch" /\ cur \in started
  /\ monitored' = monitored \cup {cur}
  /\ loop' = "wait" /\ cur' = None
  /\ UNCHANGED <<replicas, running, reported, instances, proc, reader, stopped,
                 started, call, held, sessionVars>>

\* Mutants: the instance is not stopped; there is no timeout.
LaunchTimeout_NoStop ==
  /\ loop = "launch"
  /\ loop' = "wait" /\ cur' = None
  /\ reported' = TRUE
  /\ UNCHANGED <<replicas, running, instances, instanceVars, call, held, sessionVars>>

LaunchTimeout_Never == FALSE /\ UNCHANGED vars

\* No heartbeat in MAX_HEARTBEAT_INTERVAL; the select may also take this case
\* when the channel is closed as well.
LaunchTimeout ==
  /\ loop = "launch"
  /\ stopped' = stopped \cup {cur}
  /\ loop' = "wait" /\ cur' = None
  /\ reported' = TRUE
  /\ UNCHANGED <<replicas, running, instances, proc, reader, started, monitored,
                 call, held, sessionVars>>

\* GracefulStop of the instance that scaling down has picked: first the listener
\* map is found empty, then the instance is stopped.
ShrinkCheck ==
  /\ loop = "shrink" /\ listening[cur] = {}
  /\ loop' = "shrunk"
  /\ UNCHANGED <<replicas, running, cur, reported, instances, instanceVars,
                 call, held, sessionVars>>

ShrinkStop ==
  /\ loop = "shrunk" \/ (loop = "shrink" /\ TimeoutMayFire)
  /\ stopped' = stopped \cup {cur}
  /\ loop' = "wait" /\ cur' = None
  /\ UNCHANGED <<replicas, running, reported, instances, proc, reader, started,
                 monitored, call, held, sessionVars>>

\* The ticker, or scheduleKick, which only makes it come earlier; then the status
\* is looked at again.
Wake ==
  /\ loop = "wait"
  /\ loop' = IF running THEN "check" ELSE "halt"
  /\ UNCHANGED <<replicas, running, cur, reported, instances, instanceVars, call, held,
                 sessionVars>>

\* OnRuntimeStopSchedule, then waitForAllInstancesToBeShutdown and OnRuntimeClose.
Halt ==
  /\ loop = "halt"
  /\ loop' = "drain"
  /\ UNCHANGED <<replicas, running, cur, reported, instances, instanceVars, call,
                 held, sessionVars>>

\* Mutant: OnRuntimeClose without the wait.
Close_NoWait ==
  /\ loop = "drain"
  /\ instances' = Pruned
  /\ loop' = "closed"
  /\ UNCHANGED <<replicas, running, cur, reported, instanceVars, call, held, sessionVars>>

Close ==
  /\ loop = "drain"
  /\ instances' = Pruned
  /\ loop' = IF Pruned = {} THEN "closed" ELSE "drain"
  /\ UNCHANGED <<replicas, running, cur, reported, instanceVars, call, held, sessionVars>>

\* The code has no bound on either side: 0 and MaxReplicas are the model's.
ScaleUp ==
  /\ replicas < MaxReplicas
  /\ replicas' = replicas + 1
  /\ UNCHANGED <<running, loop, cur, reported, instances, instanceVars, call, held,
                 sessionVars>>

ScaleDown ==
  /\ replicas > 0
  /\ replicas' = replicas - 1
  /\ UNCHANGED <<running, loop, cur, reported, instances, instanceVars, call, held,
                 sessionVars>>

------------------------------------------------------------------------------
(* An instance: its subprocess, StartStdout and Monitor.                   *)

\* The subprocess ends, or goes on without a sign of life.
Exit(i) ==
  /\ proc[i] \in {"up", "silent"}
  /\ proc' = [proc EXCEPT ![i] = "exited"]
  /\ UNCHANGED <<loopVars, instances, reader, stopped, started, monitored, call, held, sessionVars>>

Hang(i) ==
  /\ proc[i] = "up"
  /\ proc' = [proc EXCEPT ![i] = "silent"]
  /\ UNCHANGED <<loopVars, instances, reader, stopped, started, monitored, call, held, sessionVars>>

\* scanner.Scan returns the first heartbeat.
Heartbeat(i) ==
  /\ reader[i] = "scan" /\ proc[i] \in {"up", "exited"}
  /\ i \notin started /\ i \notin stopped
  /\ reader' = [reader EXCEPT ![i] = "ready"]
  /\ UNCHANGED <<loopVars, instances, proc, stopped, started, monitored, call, held, sessionVars>>

\* OnInstanceReady, the first time: the instance is listed, stopped or not, and
\* LaunchLocalPlugin is told.
Ready(i) ==
  /\ reader[i] = "ready"
  /\ started' = started \cup {i}
  /\ instances' = instances \cup {i}
  /\ reported' = TRUE
  /\ reader' = [reader EXCEPT ![i] = "scan"]
  /\ UNCHANGED <<replicas, running, loop, cur, proc, stopped, monitored, call, held,
                 sessionVars>>

\* Mutant: Stop leaves the stdout pipe open.
ScanEnds_OnExit(i) ==
  /\ reader[i] = "scan" /\ proc[i] = "exited"
  /\ reader' = [reader EXCEPT ![i] = "kill"]
  /\ UNCHANGED <<loopVars, instances, proc, stopped, started, monitored, call, held, sessionVars>>

\* Scan ends: the pipe is closed, or the subprocess has gone.
ScanEnds(i) ==
  /\ reader[i] = "scan"
  /\ i \in stopped \/ proc[i] = "exited"
  /\ reader' = [reader EXCEPT ![i] = "kill"]
  /\ UNCHANGED <<loopVars, instances, proc, stopped, started, monitored, call, held, sessionVars>>

\* Process.Kill and Process.Wait.
KillAndReap(i) ==
  /\ reader[i] = "kill"
  /\ proc' = [proc EXCEPT ![i] = "reaped"]
  /\ reader' = [reader EXCEPT ![i] = "shutdown"]
  /\ UNCHANGED <<loopVars, instances, stopped, started, monitored, call, held, sessionVars>>

\* The deferred function: Stop, then OnInstanceShutdown takes it off the list
\* and reports a launch that has not come to a heartbeat.
InstanceShutdown(i) ==
  /\ reader[i] = "shutdown"
  /\ stopped' = stopped \cup {i}
  /\ instances' = instances \ {i}
  /\ monitored' = monitored \ {i}
  /\ reported' = (reported \/ i \notin started)
  /\ reader' = [reader EXCEPT ![i] = "done"]
  /\ UNCHANGED <<replicas, running, loop, cur, proc, started, call, held, sessionVars>>

\* Monitor finds lastActiveAt too old.
MonitorStops(i) ==
  /\ i \in monitored /\ proc[i] # "up"
  /\ stopped' = stopped \cup {i}
  /\ monitored' = monitored \ {i}
  /\ UNCHANGED <<loopVars, instances, proc, reader, started, call, held, sessionVars>>

------------------------------------------------------------------------------
(* Stop and GracefulStop.                                                  *)

BeginStop(c) ==
  /\ call[c] = "idle" /\ reported
  /\ running' = FALSE
  /\ \E l \in {"force", "graceful"} : call' = [call EXCEPT ![c] = l]
  /\ UNCHANGED <<replicas, loop, cur, reported, instances, instanceVars, held, sessionVars>>

\* The top of both loops: prune, take the slice, unlock.
TakeSlice(c) ==
  /\ call[c] \in {"force", "graceful"}
  /\ instances' = Pruned
  /\ call' = [call EXCEPT ![c] =
                CASE Pruned # {} /\ @ = "force"    -> "force_index"
                  [] Pruned # {} /\ @ = "graceful" -> "graceful_index"
                  [] Pruned = {} /\ @ = "force"    -> "wait"
                  [] Pruned = {} /\ @ = "graceful" -> "done"]
  /\ UNCHANGED <<loopVars, instanceVars, held, sessionVars>>

\* instances[0], without the lock.  The slice shares its array with r.instances:
\* slices.DeleteFunc has moved other elements down in it, or cleared it to nil
\* when none is left.  When append has moved the list to another array since, the
\* element may be one that is stopped and gone, and stopping it does nothing.
Index(c) ==
  /\ call[c] \in {"force_index", "graceful_index"}
  /\ LET graceful == call[c] = "graceful_index" IN
     \/ \E i \in instances :
          /\ held' = [held EXCEPT ![c] = IF graceful THEN i ELSE None]
          /\ stopped' = IF graceful THEN stopped ELSE stopped \cup {i}
          /\ call' = [call EXCEPT ![c] = IF graceful THEN "grace" ELSE "force"]
     \/ /\ \E l \in {IF graceful THEN "graceful" ELSE "force"}
                    \cup {x \in {"panic"} : instances = {}} :
             call' = [call EXCEPT ![c] = l]
        /\ UNCHANGED <<held, stopped>>
  /\ UNCHANGED <<loopVars, instances, proc, reader, started, monitored, sessionVars>>

\* GracefulStop of the instance: no listener is left.
GraceCheck(c) ==
  /\ call[c] = "grace" /\ listening[held[c]] = {}
  /\ call' = [call EXCEPT ![c] = "kill"]
  /\ UNCHANGED <<loopVars, instances, instanceVars, held, sessionVars>>

GraceStop(c) ==
  /\ call[c] = "kill" \/ (call[c] = "grace" /\ TimeoutMayFire)
  /\ stopped' = stopped \cup {held[c]}
  /\ call' = [call EXCEPT ![c] = "graceful"]
  /\ held' = [held EXCEPT ![c] = None]
  /\ UNCHANGED <<loopVars, instances, proc, reader, started, monitored, sessionVars>>

\* waitForAllInstancesToBeShutdown at the end of Stop.
WaitForAll(c) ==
  /\ call[c] = "wait"
  /\ instances' = Pruned
  /\ call' = [call EXCEPT ![c] = IF Pruned = {} THEN "done" ELSE "wait"]
  /\ UNCHANGED <<loopVars, instanceVars, held, sessionVars>>

------------------------------------------------------------------------------
(* invokePluginOnce, Listen and Write.                                     *)

\* The listener of the attempt is closed: listenerDone, the listener map of the
\* instance, the route.
CloseListener(s) ==
  /\ listening' = [i \in Instances |-> listening[i] \ {s}]
  /\ at' = [at EXCEPT ![s] = None]
  /\ hooked' = hooked \ {s} /\ armed' = armed \ {s}

Invoke(s) ==
  /\ session[s] = "idle"
  /\ session' = [session EXCEPT ![s] = "listen"]
  /\ UNCHANGED <<loopVars, instances, instanceVars, call, held, at, listening,
                 hooked, armed, closed>>

\* Mutant: no goroutine waits for Done.
Listen_Alone(s) ==
  /\ session[s] = "listen"
  /\ \E i \in Pruned : at' = [at EXCEPT ![s] = i]
  /\ session' = [session EXCEPT ![s] = "setup"]
  /\ UNCHANGED <<loopVars, instances, instanceVars, call, held, listening, hooked, armed, closed>>

\* Listen: pickLowestLoadInstance finds an instance that is not stopped; the
\* session is routed to it and a goroutine waits for its Done.
Listen(s) ==
  /\ session[s] = "listen"
  /\ \E i \in Pruned : at' = [at EXCEPT ![s] = i]
  /\ armed' = armed \cup {s}
  /\ session' = [session EXCEPT ![s] = "setup"]
  /\ UNCHANGED <<loopVars, instances, instanceVars, call, held, listening, hooked, closed>>

\* ErrNoProperInstance.  Other callers advance the shared roundRobinIndex at the
\* same time, so one stopped instance in the list is enough for it.
ListenFails(s) ==
  /\ session[s] = "listen"
  /\ instances = {} \/ instances \cap stopped # {}
  /\ session' = [session EXCEPT ![s] = "retry"]
  /\ UNCHANGED <<loopVars, instances, instanceVars, call, held, at, listening,
                 hooked, armed, closed>>

\* Mutant: the request is written before onChunk is registered.
SetupListener_Write(s) ==
  /\ session[s] = "setup"
  /\ listening' = [listening EXCEPT ![at[s]] = @ \cup {s}]
  /\ session' = [session EXCEPT ![s] = "write"]
  /\ UNCHANGED <<loopVars, instances, instanceVars, call, held, at, hooked, armed, closed>>

\* setupStdioEventListener
SetupListener(s) ==
  /\ session[s] = "setup"
  /\ listening' = [listening EXCEPT ![at[s]] = @ \cup {s}]
  /\ session' = [session EXCEPT ![s] = "hook"]
  /\ UNCHANGED <<loopVars, instances, instanceVars, call, held, at, hooked, armed, closed>>

\* listener.Listen(onChunk)
Hook(s) ==
  /\ session[s] = "hook"
  /\ hooked' = hooked \cup {s}
  /\ session' = [session EXCEPT ![s] = "write"]
  /\ UNCHANGED <<loopVars, instances, instanceVars, call, held, at, listening, armed, closed>>

\* The goroutine of Listen sends the error message.  Without onChunk nobody gets
\* it; with it, the response is closed with the error, and after the request has
\* been accepted that closes the listener too.
DoneFires(s) ==
  /\ s \in armed /\ at[s] \in stopped
  /\ IF s \notin hooked
       THEN armed' = armed \ {s} /\ UNCHANGED <<session, at, listening, hooked, closed>>
       ELSE /\ closed' = closed \cup {s}
            /\ IF session[s] = "accepted"
                 THEN session' = [session EXCEPT ![s] = "done"] /\ CloseListener(s)
                 ELSE armed' = armed \ {s} /\ UNCHANGED <<session, at, listening, hooked>>
  /\ UNCHANGED <<loopVars, instances, instanceVars, call, held>>

\* The pipe takes the request.  The response may be closed by now: then the
\* OnClose functions run at once.
WriteAccepted(s) ==
  /\ session[s] = "write"
  /\ at[s] \notin stopped /\ proc[at[s]] \in {"up", "silent"}
  /\ IF s \in closed
       THEN session' = [session EXCEPT ![s] = "done"] /\ CloseListener(s)
       ELSE session' = [session EXCEPT ![s] = "accepted"]
            /\ UNCHANGED <<at, listening, hooked, armed>>
  /\ UNCHANGED <<loopVars, instances, instanceVars, call, held, closed>>

\* Mutant: an instance that does not answer is evicted but not stopped.
WriteFails_NoStop(s) ==
  /\ session[s] = "write"
  /\ at[s] \in stopped \/ proc[at[s]] \in {"silent", "exited", "reaped"}
  /\ instances' = instances \ {at[s]}
  /\ session' = [session EXCEPT ![s] = "retry"]
  /\ CloseListener(s)
  /\ closed' = closed \ {s}
  /\ UNCHANGED <<loopVars, instanceVars, call, held>>

\* IsInstanceDeadErr: the instance is stopped and taken off the list, and the
\* loop is nudged; this attempt is discarded.
WriteFails(s) ==
  /\ session[s] = "write"
  /\ at[s] \in stopped \/ proc[at[s]] \in {"exited", "reaped"}
  /\ stopped' = stopped \cup {at[s]}
  /\ instances' = instances \ {at[s]}
  /\ session' = [session EXCEPT ![s] = "retry"]
  /\ CloseListener(s)
  /\ closed' = closed \ {s}
  /\ UNCHANGED <<replicas, running, loop, cur, reported, proc, reader, started, monitored,
                 call, held>>

\* After writeRetryInterval with a new response stream, or no more in time.
Retry(s) ==
  /\ session[s] = "retry"
  /\ \E l \in {"listen", "failed"} : session' = [session EXCEPT ![s] = l]
  /\ UNCHANGED <<loopVars, instances, instanceVars, call, held, at, listening,
                 hooked, armed, closed>>

\* The end message of the plugin reaches the listener.
End(s) ==
  /\ session[s] = "accepted"
  /\ reader[at[s]] = "scan" /\ s \in listening[at[s]]
  /\ closed' = closed \cup {s}
  /\ session' = [session EXCEPT ![s] = "done"]
  /\ CloseListener(s)
  /\ UNCHANGED <<loopVars, instances, instanceVars, call, held>>

\* The context of the request is cancelled: before the write the attempt is
\* given up, later context.AfterFunc closes the response.
Cancel(s) ==
  /\ session[s] \in {"write", "accepted"}
  /\ closed' = closed \cup {s}
  /\ session' = [session EXCEPT ![s] = IF @ = "write" THEN "failed" ELSE "done"]
  /\ CloseListener(s)
  /\ UNCHANGED <<loopVars, instances, instanceVars, call, held>>

------------------------------------------------------------------------------
LoopStep ==
  \/ StartNewInstance \/ StartFails \/ Compare \/ LaunchDone \/ LaunchTimeout
  \/ ShrinkCheck \/ ShrinkStop \/ Wake \/ Halt \/ Close

ReaderStep(i) == Ready(i) \/ ScanEnds(i) \/ KillAndReap(i) \/ InstanceShutdown(i)

CallStep(c) == TakeSlice(c) \/ Index(c) \/ GraceCheck(c) \/ GraceStop(c) \/ WaitForAll(c)

SessionStep(s) ==
  \/ Listen(s) \/ ListenFails(s) \/ SetupListener(s) \/ Hook(s)
  \/ WriteAccepted(s) \/ WriteFails(s) \/ Retry(s)

Next ==
  \/ LoopStep \/ ScaleUp \/ ScaleDown
  \/ \E i \in Instances :
       ReaderStep(i) \/ Exit(i) \/ Hang(i) \/ Heartbeat(i) \/ MonitorStops(i)
  \/ \E c \in Calls : BeginStop(c) \/ CallStep(c)
  \/ \E s \in Sessions : SessionStep(s) \/ Invoke(s) \/ DoneFires(s) \/ End(s) \/ Cancel(s)

\* Goroutines go on; timers fire; nothing is asked of plugins and clients.
Fairness ==
  /\ WF_vars(LoopStep)
  /\ \A i \in Instances : WF_vars(ReaderStep(i)) /\ WF_vars(MonitorStops(i))
  /\ \A c \in Calls : WF_vars(CallStep(c))
  /\ \A s \in Sessions : WF_vars(SessionStep(s)) /\ WF_vars(DoneFires(s))

Spec == Init /\ [][Next]_vars /\ Fairness

------------------------------------------------------------------------------
TypeOK ==
  /\ replicas \in 0..MaxReplicas /\ running \in BOOLEAN
  /\ loop \in LoopPCs /\ cur \in Instances \cup {None} /\ reported \in BOOLEAN
  /\ instances \in SUBSET Instances
  /\ proc \in [Instances -> Procs] /\ reader \in [Instances -> ReaderPCs]
  /\ stopped \in SUBSET Instances /\ started \in SUBSET Instances
  /\ monitored \in SUBSET Instances
  /\ call \in [Calls -> CallPCs] /\ held \in [Calls -> Instances \cup {None}]
  /\ session \in [Sessions -> SessionPCs]
  /\ at \in [Sessions -> Instances \cup {None}]
  /\ listening \in [Instances -> SUBSET Sessions]
  /\ hooked \in SUBSET Sessions /\ armed \in SUBSET Sessions /\ closed \in SUBSET Sessions

\* The instances nobody has stopped: their subprocesses run on, or have ended and
\* are about to be noticed.
Live == {i \in Instances : reader[i] \notin {"none", "done"} /\ i \notin stopped}

\* No instance gets out of sight: as long as it is not stopped it is on the list,
\* or the loop is waiting for its first heartbeat.
NoneForgotten ==
  \A i \in Live : i \in instances \/ (loop = "launch" /\ cur = i)

\* OnRuntimeClose tells the truth: no instance of the runtime goes on.
ClosedIsQuiet == loop = "closed" => Live = {}

\* A subprocess is started only when fewer than instanceNums instances go on,
\* whatever evictions, shutdowns and timeouts have done to the list meanwhile.
LaunchOnlyWhenShort ==
  [][loop = "check" /\ loop' = "launch" => Cardinality(Live) < replicas]_vars

\* The notice of a stopped instance is not lost: an invocation that has been
\* accepted still has somebody waiting for Done and a callback that hears it.
NoticeNotLost ==
  \A s \in Sessions : session[s] = "accepted" => s \in armed /\ s \in hooked

\* And so the caller of an instance that dies gets an end of its response.
StoppedIsTold ==
  \A s \in Sessions :
    session[s] = "accepted" /\ at[s] \in stopped ~> session[s] = "done"

\* LaunchLocalPlugin gets its answer, and its semaphore is released, unless the
\* runtime is scaled to zero again and again.
LaunchReports == <>[](replicas > 0) => <>reported

\* What is stopped is killed and reaped.
StoppedIsReaped ==
  \A i \in Instances : i \in stopped ~> (reader[i] = "done" \/ i \notin stopped)

\* Stop and GracefulStop return when all instances have been shut down, and the
\* list stays empty then.
StopLeavesNone == (\E c \in Calls : call[c] = "done") => Live \cap instances = {}
==============================================================================
