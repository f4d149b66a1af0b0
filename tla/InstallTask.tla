----------------------------- MODULE InstallTask -----------------------------
(***************************************************************************)
(* Install and upgrade tasks: the record a tenant polls while the jobs of  *)
(* a request run, and everybody who writes it.  internal/tasks,            *)
(* service/install_plugin.go, install_plugin_utils.go and                  *)
(* install_task_service.go.                                                *)
(*                                                                         *)
(* A task has one job per plugin.  Besides the jobs, which update the      *)
(* record under a row lock, it is rewritten from an unlocked copy by the   *)
(* timeout monitor and by the recycler of a daemon that shuts down, and    *)
(* deleted by timers and by the tenant.  db.Update is gorm's Save, which   *)
(* inserts a row that is gone.  Progress messages change no status and are *)
(* left out; runtimes and transactions are in Launcher and Installations.  *)
(***************************************************************************)
EXTENDS Integers, FiniteSets

CONSTANTS
  TaskIds,    \* ids of tasks; each is used once
  Plugins

\* What is assumed of the constants: a request names finitely many plugins.
TaskAssumption == IsFiniteSet(Plugins)

VARIABLES
  rows,        \* table install_tasks
  jobs,        \* jobs[t][p]: where the job of a plugin is
  light,       \* <<t, p>>: jobs with NeedsRuntimeInstall false
  upgrades,    \* tasks of UpgradePlugin
  installed,   \* plugins that have an installation of the tenant
  installing,  \* installingTasks
  timers,      \* tasks a timer of this process will delete
  aged,        \* tasks older than the timeout of the monitor
  copies,      \* records the monitor has read and not yet written back
  daemon,      \* "up", "stopping" (finalizers run), "exited" or "crashed"
  recycle,     \* RecycleTasks: ids still to visit, the record in hand, and (history)
               \* the jobs that ran when the signal came
  unwritten    \* history: tasks for which a status could not be written

taskVars == <<rows, jobs, light, upgrades, installed, installing, timers, aged,
              copies, daemon, recycle, unwritten>>

Statuses == {"pending", "running", "success", "failed"}
NoRow == [status |-> "none", total |-> 0, completed |-> 0, plugins |-> [p \in {} |-> ""]]
NoCopy == [id |-> "none", row |-> NoRow]
JobPCs == {"none", "submitted", "mark", "stream", "save", "installed", "refused",
           "end", "over", "killed"}
InProgress == {"mark", "stream", "save", "installed", "refused"}

TaskInit ==
  /\ rows = [t \in TaskIds |-> NoRow]
  /\ jobs = [t \in TaskIds |-> [p \in Plugins |-> "none"]]
  /\ light = {} /\ upgrades = {}
  /\ installed \in SUBSET Plugins
  /\ installing = {} /\ timers = {} /\ aged = {} /\ copies = {}
  /\ daemon = "up" /\ recycle = [todo |-> {}, copy |-> NoCopy]
  /\ unwritten = {}

Goto(t, p, l) == jobs' = [jobs EXCEPT ![t][p] = l]
Running(r) == r.status \in {"running", "pending"}
Request == <<light, upgrades>>
Others == <<aged, copies, daemon, recycle>>

------------------------------------------------------------------------------
(* The requests *)

\* createInstallTasks with buildTaskStatuses: one row, all plugins pending.
NewRow(ps) ==
  [status |-> "running", total |-> Cardinality(ps), completed |-> 0,
   plugins |-> [p \in ps |-> "pending"]]

\* InstallMultiplePluginsToTenant: unless all are installed a task is created, with
\* a job for each plugin; one that was found installed needs no runtime.
InstallMultiple(t, ps) ==
  /\ daemon = "up" /\ \A p \in Plugins : jobs[t][p] = "none"
  /\ ps # {} /\ ~(ps \subseteq installed)
  /\ rows' = [rows EXCEPT ![t] = NewRow(ps)]
  /\ jobs' = [jobs EXCEPT ![t] = [p \in Plugins |-> IF p \in ps THEN "submitted" ELSE "none"]]
  /\ light' = light \cup {<<t, p>> : p \in ps \cap installed}
  /\ UNCHANGED <<upgrades, installed, installing, timers, unwritten, Others>>

\* UpgradePlugin of an installed plugin: a task with one job, whose runtime is
\* always ensured.
UpgradeTask(t, p) ==
  /\ daemon = "up" /\ \A q \in Plugins : jobs[t][q] = "none"
  /\ p \in installed
  /\ rows' = [rows EXCEPT ![t] = NewRow({p})]
  /\ Goto(t, p, "submitted")
  /\ upgrades' = upgrades \cup {t}
  /\ UNCHANGED <<light, installed, installing, timers, unwritten, Others>>

------------------------------------------------------------------------------
(* Writing a status *)

AllSucceed(ps) == \A p \in DOMAIN ps : ps[p] = "success"

\* The modifier of SetTaskStatusForOnePlugin and the recount of UpdateTaskStatus.
Updated(r, p, s) ==
  LET before == r.plugins[p]
      ps == [r.plugins EXCEPT ![p] = s]
      n == CASE s = "success" /\ before # "success" -> r.completed + 1
             [] s = "failed" /\ before = "success" /\ r.completed > 0 -> r.completed - 1
             [] OTHER -> r.completed
  IN [r EXCEPT !.plugins = ps, !.completed = n,
               !.status = IF AllSucceed(ps) THEN "success" ELSE IF s = "failed" THEN s ELSE @]

\* UpdateTaskStatus under the row lock.  Without the task or the plugin nothing is
\* done; when all have succeeded a timer is set to delete the task, before the row is
\* written.  The transaction may fail, at the read or at the write, which is only
\* logged.  more: the caller sets a timer itself.
UpdateTaskStatus(t, p, s, more) ==
  \/ /\ p \in DOMAIN rows[t].plugins
     /\ rows' = [rows EXCEPT ![t] = Updated(@, p, s)]
     /\ timers' = timers \cup (IF more \/ AllSucceed(rows'[t].plugins) THEN {t} ELSE {})
     /\ UNCHANGED unwritten
  \/ /\ p \notin DOMAIN rows[t].plugins
     /\ timers' = timers \cup (IF more THEN {t} ELSE {})
     /\ UNCHANGED <<rows, unwritten>>
  \/ /\ unwritten' = unwritten \cup {t}
     /\ \/ timers' = timers \cup (IF more THEN {t} ELSE {})
        \/ /\ p \in DOMAIN rows[t].plugins /\ AllSucceed(Updated(rows[t], p, s).plugins)
           /\ timers' = timers \cup {t}
     /\ UNCHANGED rows

------------------------------------------------------------------------------
(* ProcessInstallJob and ProcessUpgradeJob *)

\* startTasks.
StartJob(t, p) ==
  /\ jobs[t][p] = "submitted"
  /\ installing' = installing \cup {t}
  /\ Goto(t, p, IF <<t, p>> \in light THEN "save" ELSE "mark")
  /\ UNCHANGED <<rows, installed, timers, unwritten, Request, Others>>

\* The status is set to running, and EnsureRuntime called.
MarkRunning(t, p) ==
  /\ jobs[t][p] = "mark"
  /\ UpdateTaskStatus(t, p, "running", FALSE)
  /\ Goto(t, p, "stream")
  /\ UNCHANGED <<installed, installing, Request, Others>>

\* EnsureRuntime fails, or its stream ends with the event Error.
StreamError(t, p) ==
  /\ jobs[t][p] = "stream"
  /\ UpdateTaskStatus(t, p, "failed", FALSE)
  /\ Goto(t, p, "end")
  /\ UNCHANGED <<installed, installing, Request, Others>>

\* Event Done.
StreamDone(t, p) ==
  /\ jobs[t][p] = "stream"
  /\ Goto(t, p, "save")
  /\ UNCHANGED <<rows, installed, installing, timers, unwritten, Request, Others>>

\* Mutant: success is reported before the installation is saved.
SaveInstallation_Skipped(t, p) ==
  /\ jobs[t][p] = "save"
  /\ Goto(t, p, "installed")
  /\ UNCHANGED <<rows, installed, installing, timers, unwritten, Request, Others>>

\* SaveInstallationForTenantsToDB or the loop over UpgradePlugin: the installation
\* exists afterwards, also when it did before, or the transaction fails.
SaveInstallation(t, p) ==
  /\ jobs[t][p] = "save"
  /\ \/ installed' = installed \cup {p} /\ Goto(t, p, "installed")
     \/ UNCHANGED installed /\ Goto(t, p, "refused")
  /\ UNCHANGED <<rows, installing, timers, unwritten, Request, Others>>

\* The outcome is written.  A job that has installed a runtime also sets a timer that
\* deletes the task, whatever its other plugins do.
Report(t, p) ==
  /\ \/ /\ jobs[t][p] = "installed"
        /\ UpdateTaskStatus(t, p, "success", t \notin upgrades /\ <<t, p>> \notin light)
     \/ /\ jobs[t][p] = "refused"
        /\ UpdateTaskStatus(t, p, "failed", FALSE)
  /\ Goto(t, p, "end")
  /\ UNCHANGED <<installed, installing, Request, Others>>

\* endTasks, deferred: it takes away the entry of the whole task.
EndJob(t, p) ==
  /\ jobs[t][p] = "end"
  /\ installing' = installing \ {t}
  /\ Goto(t, p, "over")
  /\ light' = light \ {<<t, p>>} /\ upgrades' = upgrades \ {t}
  /\ UNCHANGED <<rows, installed, timers, unwritten, Others>>

------------------------------------------------------------------------------
(* Deletions *)

\* A timer fires: db.Delete or DeleteTask.
TimerFires(t) ==
  /\ t \in timers
  /\ rows' = [rows EXCEPT ![t] = NoRow]
  /\ timers' = timers \ {t}
  /\ UNCHANGED <<jobs, installed, installing, unwritten, Request, Others>>

\* DeletePluginInstallationTask; DeleteAllPluginInstallationTasks does it to all.
DeleteTask(t) ==
  /\ rows[t] # NoRow
  /\ rows' = [rows EXCEPT ![t] = NoRow]
  /\ UNCHANGED <<jobs, installed, installing, timers, unwritten, Request, Others>>

\* DeletePluginInstallationItemFromTask, under the row lock: the task goes with its
\* last plugin that has not succeeded.
DeleteItem(t, p) ==
  LET ps == [q \in DOMAIN rows[t].plugins \ {p} |-> rows[t].plugins[q]] IN
  /\ p \in DOMAIN rows[t].plugins
  /\ rows' = [rows EXCEPT ![t] = IF AllSucceed(ps) THEN NoRow ELSE [@ EXCEPT !.plugins = ps]]
  /\ UNCHANGED <<jobs, installed, installing, timers, unwritten, Request, Others>>

------------------------------------------------------------------------------
(* The monitor of the master and the recycler of this daemon *)

\* Mutant: the plugins are marked, the task is not.
Failed_PluginsOnly(r) == [r EXCEPT !.plugins = [p \in DOMAIN @ |-> "failed"]]

\* The task and all its plugins failed, the rest as in the copy.
Failed(r) == [r EXCEPT !.status = "failed", !.plugins = [p \in DOMAIN @ |-> "failed"]]

\* Time passes for a task.
Age(t) ==
  /\ rows[t] # NoRow /\ t \notin aged
  /\ aged' = aged \cup {t}
  /\ UNCHANGED <<rows, jobs, installed, installing, timers, copies, daemon, recycle,
                 unwritten, Request>>

\* A tick of MonitorTimeoutTasks on the master: it reads the tasks that have timed
\* out, without a lock ...
MonitorReads ==
  LET found == {t \in aged : Running(rows[t])} IN
  /\ copies = {} /\ found # {}
  /\ copies' = {[id |-> t, row |-> rows[t]] : t \in found}
  /\ UNCHANGED <<rows, jobs, installed, installing, timers, aged, daemon, recycle,
                 unwritten, Request>>

\* ... and markTasksAsTimeout saves them: a row that is gone is inserted again.
MonitorWrites ==
  /\ copies # {}
  /\ rows' = [t \in TaskIds |->
                IF \E c \in copies : c.id = t
                  THEN Failed((CHOOSE c \in copies : c.id = t).row) ELSE rows[t]]
  /\ copies' = {}
  /\ UNCHANGED <<jobs, installed, installing, timers, aged, daemon, recycle, unwritten,
                 Request>>

\* The statement fails, which is logged; the next tick tries again.
MonitorFails ==
  /\ copies # {} /\ copies' = {}
  /\ UNCHANGED <<rows, jobs, installed, installing, timers, aged, daemon, recycle,
                 unwritten, Request>>

\* A signal arrives; the finalizers run beside the jobs.
Signal ==
  /\ daemon = "up"
  /\ daemon' = "stopping"
  /\ recycle' = [recycle EXCEPT !.todo = installing]
  /\ UNCHANGED <<rows, jobs, installed, installing, timers, aged, copies, unwritten, Request>>

\* RecycleTasks reads one of the tasks it finds in the map, if it is running ...
RecycleReads(t) ==
  /\ daemon = "stopping" /\ t \in recycle.todo /\ recycle.copy = NoCopy
  /\ recycle' = [recycle EXCEPT !.todo = @ \ {t}, !.copy =
                IF Running(rows[t]) THEN [id |-> t, row |-> rows[t]] ELSE NoCopy]
  /\ UNCHANGED <<rows, jobs, installed, installing, timers, aged, copies, daemon, unwritten,
                 Request>>

\* ... and saves it; the update may fail.
RecycleWrites ==
  LET c == recycle.copy IN
  /\ daemon = "stopping" /\ c # NoCopy
  /\ \/ rows' = [rows EXCEPT ![c.id] = Failed(c.row)] /\ UNCHANGED unwritten
     \/ UNCHANGED rows /\ unwritten' = unwritten \cup {c.id}
  /\ recycle' = [recycle EXCEPT !.copy = NoCopy]
  /\ UNCHANGED <<jobs, installed, installing, timers, aged, copies, daemon, Request>>

\* The process is gone, with its jobs and timers: os.ExitDaemon after the finalizers, or a
\* crash at any time.  The monitor runs on the master, which is another node then.
ExitDaemon ==
  /\ \/ /\ daemon = "stopping" /\ recycle.todo = {} /\ recycle.copy = NoCopy
        /\ daemon' = "exited" /\ UNCHANGED recycle
     \/ /\ daemon \in {"up", "stopping"} /\ daemon' = "crashed"
        /\ recycle' = [todo |-> {}, copy |-> NoCopy]
  /\ jobs' = [t \in TaskIds |-> [p \in Plugins |->
       IF jobs[t][p] \in InProgress THEN "killed"
       ELSE IF jobs[t][p] = "none" THEN "none" ELSE "over"]]
  /\ timers' = {} /\ installing' = {} /\ light' = {} /\ upgrades' = {}
  /\ UNCHANGED <<rows, installed, aged, copies, unwritten>>

------------------------------------------------------------------------------
JobStep(t, p) ==
  \/ StartJob(t, p) \/ MarkRunning(t, p) \/ StreamError(t, p) \/ StreamDone(t, p)
  \/ SaveInstallation(t, p) \/ Report(t, p) \/ EndJob(t, p)

TaskNext ==
  \/ \E t \in TaskIds :
       \/ \E ps \in SUBSET Plugins : InstallMultiple(t, ps)
       \/ \E p \in Plugins : UpgradeTask(t, p) \/ JobStep(t, p) \/ DeleteItem(t, p)
       \/ TimerFires(t) \/ DeleteTask(t) \/ Age(t) \/ RecycleReads(t)
  \/ MonitorReads \/ MonitorWrites \/ MonitorFails \/ Signal \/ RecycleWrites \/ ExitDaemon

\* Time passes, and the tick of the monitor comes every minute on whichever node is
\* the master.  The database does not fail for ever.  Nothing is assumed of the jobs,
\* which may hang or be killed.
TaskFairness ==
  /\ \A t \in TaskIds : WF_taskVars(Age(t))
  /\ WF_taskVars(MonitorReads) /\ SF_taskVars(MonitorWrites)

------------------------------------------------------------------------------
(* Properties *)

IsRow(r) ==
  /\ r.status \in Statuses \cup {"none"} /\ r.total \in 0..Cardinality(Plugins)
  /\ r.completed \in 0..Cardinality(Plugins)
  /\ DOMAIN r.plugins \subseteq Plugins /\ \A p \in DOMAIN r.plugins : r.plugins[p] \in Statuses

\* The type of the state.
TaskTypeOK ==
  /\ \A t \in TaskIds : IsRow(rows[t])
  /\ jobs \in [TaskIds -> [Plugins -> JobPCs]]
  /\ light \subseteq TaskIds \X Plugins /\ upgrades \subseteq TaskIds
  /\ installed \subseteq Plugins /\ installing \subseteq TaskIds /\ timers \subseteq TaskIds
  /\ aged \subseteq TaskIds /\ \A c \in copies : c.id \in TaskIds /\ IsRow(c.row)
  /\ daemon \in {"up", "stopping", "exited", "crashed"} /\ unwritten \subseteq TaskIds
  /\ recycle.todo \subseteq TaskIds

\* The count a tenant polls (CompletedPlugins of TotalPlugins) covers the plugins shown
\* as installed and never exceeds the total, although the monitor and the recycler
\* write whole records back from copies that are out of date.
CompletedBounds ==
  \A t \in TaskIds : rows[t] # NoRow =>
    /\ Cardinality({p \in DOMAIN rows[t].plugins : rows[t].plugins[p] = "success"})
         <= rows[t].completed
    /\ rows[t].completed <= rows[t].total

\* What the record says has succeeded is installed, plugin by plugin and for the task.
SuccessIsInstalled ==
  \A t \in TaskIds : rows[t] # NoRow => \A p \in DOMAIN rows[t].plugins :
    (rows[t].plugins[p] = "success" \/ rows[t].status = "success") => p \in installed

\* When all jobs of a task have returned and every status could be written, the record
\* does not show a running task, also after items were deleted from it meanwhile.
ReturnedIsClosed ==
  \A t \in TaskIds :
    (/\ daemon = "up" /\ t \notin unwritten
     /\ \A p \in Plugins : jobs[t][p] \in {"none", "over"}) => ~Running(rows[t])

\* A task does not stay running for ever, whatever becomes of its jobs and of the
\* daemon that ran them.
TaskCloses == \A t \in TaskIds : Running(rows[t]) ~> ~Running(rows[t])

------------------------------------------------------------------------------
(* The inductive invariant of the record: what is true of a row is true of every   *)
(* copy that the monitor or the recycler holds, however old, because it is stated  *)
(* by what the jobs, which only go forward, have done.                             *)

RowShape ==
  [status : Statuses \cup {"none"}, total : Nat, completed : Nat,
   plugins : UNION {[ps -> Statuses] : ps \in SUBSET Plugins}]

CopyShape == [id : TaskIds, row : RowShape]

\* By the jobs js of its task: those that exist and those that have reported.
JobsOf(js) == {p \in Plugins : js[p] # "none"}
Reported(js) == {p \in Plugins : js[p] \in {"end", "over"}}
Succeeded(r) == {p \in DOMAIN r.plugins : r.plugins[p] = "success"}

\* A record of a task whose jobs are at js, while ins is installed.
GoodRow(r, js, ins) ==
  r # NoRow =>
    /\ r.status # "none" /\ JobsOf(js) # {} /\ r.total = Cardinality(JobsOf(js))
    /\ Cardinality(Succeeded(r)) <= r.completed
    /\ r.completed <= Cardinality(Reported(js))
    /\ Succeeded(r) \subseteq ins \cap Reported(js)
    /\ r.status = "success" => AllSucceed(r.plugins)

\* A running task still has a job to report, unless a status could not be written.
OpenHasWork(t) ==
  (daemon = "up" /\ t \notin unwritten /\ Running(rows[t])) =>
    /\ ~AllSucceed(rows[t].plugins)
    /\ \A p \in DOMAIN rows[t].plugins \ Succeeded(rows[t]) :
         jobs[t][p] \notin {"none", "end", "over", "killed"}

TaskShape ==
  /\ rows \in [TaskIds -> RowShape] /\ jobs \in [TaskIds -> [Plugins -> JobPCs]]
  /\ light \subseteq TaskIds \X Plugins /\ upgrades \subseteq TaskIds
  /\ installed \subseteq Plugins /\ installing \subseteq TaskIds /\ timers \subseteq TaskIds
  /\ aged \subseteq TaskIds /\ copies \subseteq CopyShape
  /\ daemon \in {"up", "stopping", "exited", "crashed"} /\ unwritten \subseteq TaskIds
  /\ recycle \in [todo : SUBSET TaskIds, copy : CopyShape \cup {NoCopy}]

TaskRows == \A t \in TaskIds : GoodRow(rows[t], jobs[t], installed)

TaskCopies ==
  \A c \in copies \cup ({recycle.copy} \ {NoCopy}) :
    c.row # NoRow /\ GoodRow(c.row, jobs[c.id], installed)

SavedIsInstalled ==
  \A t \in TaskIds, p \in Plugins : jobs[t][p] = "installed" => p \in installed

TaskIInv ==
  /\ TaskShape /\ TaskRows /\ TaskCopies /\ SavedIsInstalled
  /\ \A t \in TaskIds : OpenHasWork(t)
==============================================================================
