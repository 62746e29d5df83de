----------------------------- MODULE RunPipeline -----------------------------
(***************************************************************************)
(* The orchestrator: seven pollers that move job runs, task runs and       *)
(* attempts through the tables of the database, the frontends that submit, *)
(* stop and delete runs from other processes, the commands the attempts    *)
(* spawn, and the crash, shutdown and restart of the server.               *)
(*                                                                         *)
(* Each statement autocommits, so a handler that writes twice is two       *)
(* actions, and the server may crash, or the second write fail, between    *)
(* them.  Handlers that write once are one action: no other actor changes  *)
(* what they read before they write it, with the exceptions the README     *)
(* lists.  The rows a pass selected matter only to the releaser, whose     *)
(* rows a frontend may delete before they are handled.                     *)
(***************************************************************************)
EXTENDS Naturals, FiniteSets, FlowliteStatus

CONSTANTS
  Jobs,                \* job definitions
  Limits,              \* names in [concurrency_limits]
  JobRuns,             \* job_run ids
  TaskRuns,            \* task_run ids
  JobOf,               \* job_run.job_id
  JobRunOf,            \* task_run.job_run_id
  DependsOn,           \* task_run.depends_on, as task runs of the same job run
  MaxRetries,          \* task_run.max_retries
  Claims,              \* task_run.limits
  MaxParallelRuns,     \* job.max_parallel_runs, 0 for no limit
  ConcurrencyLimits,   \* [concurrency_limits], 0 for no limit
  MaxRunningAttempts,  \* [orchestrator] max_running_attempts, 0 for no cap
  KillGrace,           \* whether [orchestrator] kill_grace_seconds > 0
  BootTimeKnown,       \* whether system_boot_time() can be read
  Unspawnable,         \* task runs whose command cannot be spawned
  Deletable,           \* job runs a user may ask to delete
  Piecemeal,           \* job runs whose submission the services may overtake
  MaxRestarts,         \* bound: crashes and shutdowns of the server
  MaxErrors,           \* bound: handlers that fail between two of their writes
  AttemptBound         \* bound: attempt numbers, past what any task run may use

AttemptNumbers == 1..AttemptBound
AttemptIds     == TaskRuns \X AttemptNumbers
TasksOf(r)     == {tr \in TaskRuns : JobRunOf[tr] = r}   \* by its definition

ASSUME FiniteAssumption == IsFiniteSet(JobRuns) /\ IsFiniteSet(TaskRuns)
ASSUME RowAssumption ==
  /\ JobOf \in [JobRuns -> Jobs]
  /\ JobRunOf \in [TaskRuns -> JobRuns]
  /\ DependsOn \in [TaskRuns -> SUBSET TaskRuns]
  /\ \A tr \in TaskRuns : \A d \in DependsOn[tr] : JobRunOf[d] = JobRunOf[tr]
  /\ MaxRetries \in [TaskRuns -> Nat]
  /\ Claims \in [TaskRuns -> SUBSET Limits]
ASSUME ConfigAssumption ==
  /\ MaxParallelRuns \in [Jobs -> Nat]
  /\ ConcurrencyLimits \in [Limits -> Nat]
  /\ MaxRunningAttempts \in Nat
  /\ KillGrace \in BOOLEAN
  /\ BootTimeKnown \in BOOLEAN
  /\ Unspawnable \subseteq TaskRuns
  /\ Deletable \subseteq JobRuns
  /\ Piecemeal \subseteq JobRuns
ASSUME BoundAssumption ==
  /\ MaxRestarts \in Nat
  /\ MaxErrors \in Nat
  /\ AttemptBound \in Nat
  /\ \A tr \in TaskRuns : MaxRetries[tr] + 1 < AttemptBound

VARIABLES
  jobRun,     \* job_run.status
  taskRun,    \* task_run.status
  attempt,    \* task_run_attempt.status, by task run and attempt number
  started,    \* attempts with started_at set
  group,      \* attempts with process_group_id set
  stopRow,    \* job runs with a job_run_stop row
  due,        \* job runs whose scheduled_at has passed
  releasing,  \* rows JobRunReleaser selected and has yet to handle
  cancelling, \* the run JobRunReleaser skips, its own row still to be written
  starting,   \* the run JobRunDispatcher starts, its own row still to be written
  skipping,   \* the run JobRunDispatcher skips, its own row still to be written
  spawning,   \* the attempt TaskRunAttemptDispatcher is about to spawn
  launched,   \* the attempt it has spawned and not yet recorded as Running
  children,   \* TaskRunAttemptChildren: absent, held, or the status a
              \* terminating child will settle as
  process,    \* the command of an attempt: none, running, or how it ended
  spawns,     \* history: how often the command of an attempt was spawned
  server,     \* down, recovering or up
  restarts,   \* crashes and shutdowns so far, up to MaxRestarts
  errors      \* failed writes so far, up to MaxErrors

rows     == <<jobRun, taskRun, attempt, started, group, stopRow>>
jobPolls == <<releasing, cancelling, starting, skipping>>
attPolls == <<spawning, launched, children>>
commands == <<process, spawns>>
world    == <<due, server, restarts, errors>>
vars     == <<rows, jobPolls, attPolls, commands, world>>

TypeOK ==
  /\ jobRun \in [JobRuns -> JobRunStatus \cup {"None"}]
  /\ taskRun \in [TaskRuns -> TaskRunStatus \cup {"None"}]
  /\ attempt \in [AttemptIds -> AttemptStatus \cup {"None"}]
  /\ started \subseteq AttemptIds
  /\ group \subseteq AttemptIds
  /\ stopRow \subseteq JobRuns
  /\ due \subseteq JobRuns
  /\ releasing \subseteq JobRuns
  /\ cancelling \subseteq JobRuns
  /\ starting \subseteq JobRuns
  /\ skipping \subseteq JobRuns
  /\ spawning \subseteq AttemptIds
  /\ launched \subseteq AttemptIds
  /\ children \in [AttemptIds -> {"absent", "held", "TimedOut", "Aborted"}]
  /\ process \in [AttemptIds -> {"none", "running", "zero", "nonzero"}]
  /\ spawns \in [AttemptIds -> Nat]
  /\ server \in {"down", "recovering", "up"}
  /\ restarts \in 0..MaxRestarts
  /\ errors \in 0..MaxErrors

Init ==
  /\ jobRun = [r \in JobRuns |-> "None"]
  /\ taskRun = [tr \in TaskRuns |-> "None"]
  /\ attempt = [a \in AttemptIds |-> "None"]
  /\ started = {} /\ group = {} /\ stopRow = {} /\ due = {}
  /\ releasing = {} /\ cancelling = {} /\ starting = {} /\ skipping = {}
  /\ spawning = {} /\ launched = {}
  /\ children = [a \in AttemptIds |-> "absent"]
  /\ process = [a \in AttemptIds |-> "none"]
  /\ spawns = [a \in AttemptIds |-> 0]
  /\ server = "up" /\ restarts = 0 /\ errors = 0

-----------------------------------------------------------------------------
(* What the handlers ask.                                                  *)

\* Mutation: a stop is honoured only before the run starts.
IsStoppedBeforeStart(r) == r \in stopRow /\ jobRun[r] # "Running"
IsStopped(r) == r \in stopRow

\* Attempt n is the last row of the task run.
IsLastAttempt(tr, n) ==
  /\ attempt[<<tr, n>>] # "None"
  /\ \A m \in AttemptNumbers : m > n => attempt[<<tr, m>>] = "None"

RunningJobRuns(j) == {r \in JobRuns : JobOf[r] = j /\ jobRun[r] = "Running"}
RunningAttempts   == {a \in AttemptIds : attempt[a] = "Running"}

\* Mutation: off by one.
IsJobOverMaxParallelRuns(j) ==
  MaxParallelRuns[j] # 0 /\ Cardinality(RunningJobRuns(j)) > MaxParallelRuns[j]
IsJobAtMaxParallelRuns(j) ==
  /\ MaxParallelRuns[j] # 0
  /\ Cardinality(RunningJobRuns(j)) >= MaxParallelRuns[j]

ClaimedSlots(l) == {a \in RunningAttempts : l \in Claims[a[1]]}

\* Mutation: every claimed limit must be full, rather than one.
AllClaimedLimitsAreFull(tr) ==
  \A l \in Claims[tr] :
    ConcurrencyLimits[l] # 0 /\ Cardinality(ClaimedSlots(l)) >= ConcurrencyLimits[l]
AClaimedLimitIsFull(tr) ==
  \E l \in Claims[tr] :
    /\ ConcurrencyLimits[l] # 0
    /\ Cardinality(ClaimedSlots(l)) >= ConcurrencyLimits[l]

\* The retry delay is left to the interleaving: a row may always wait.
ShouldStayQueued(tr) ==
  \/ /\ MaxRunningAttempts # 0
     /\ Cardinality(RunningAttempts) >= MaxRunningAttempts
  \/ AClaimedLimitIsFull(tr)

ShouldSkip(tr) ==
  \/ IsStopped(JobRunOf[tr])
  \/ \E d \in DependsOn[tr] : taskRun[d] \in FinishedTaskRun \ {"Succeeded"}

\* Mutation: a dependency that has not failed counts as done.
NoDependencyFailed(tr) ==
  \A d \in DependsOn[tr] : taskRun[d] \notin FinishedTaskRun \ {"Succeeded"}
AllDependenciesSucceeded(tr) ==
  \A d \in DependsOn[tr] : taskRun[d] = "Succeeded"

\* The task run rows of a job run.
TaskRunRows(r) == {tr \in TasksOf(r) : taskRun[tr] # "None"}

\* Mutation: task runs that have left Planned are passed over.
SkipPlannedTaskRunsOf(r) ==
  taskRun' = [tr \in TaskRuns |->
                IF tr \in TasksOf(r) /\ taskRun[tr] = "Planned" THEN "Skipped" ELSE taskRun[tr]]
\* First write of skip_job_run, and of a delete: every task run of the run,
\* whatever its status.
SkipTaskRunsOf(r) ==
  taskRun' = [tr \in TaskRuns |-> IF tr \in TaskRunRows(r) THEN "Skipped" ELSE taskRun[tr]]

-----------------------------------------------------------------------------
(* The frontends: other processes that write rows, the server up or not.   *)

\* submit_job and rerun_job end here: the insert of a job run, Scheduled at once,
\* and of its task runs.  They are separate writes, seen as one where no service
\* comes between them.
Submit(r) ==
  /\ jobRun[r] = "None"
  /\ jobRun' = [jobRun EXCEPT ![r] = "Scheduled"]
  /\ taskRun' = [tr \in TaskRuns |->
                   IF JobRunOf[tr] = r /\ r \notin Piecemeal THEN "Planned" ELSE taskRun[tr]]
  /\ UNCHANGED <<attempt, started, group, stopRow, jobPolls, attPolls, commands, world>>

\* One of the other inserts, whatever the run is by then; a frontend that dies
\* owes the rest.
InsertTaskRun(tr) ==
  /\ JobRunOf[tr] \in Piecemeal
  /\ jobRun[JobRunOf[tr]] # "None" /\ taskRun[tr] = "None"
  /\ taskRun' = [taskRun EXCEPT ![tr] = "Planned"]
  /\ UNCHANGED <<jobRun, attempt, started, group, stopRow, jobPolls, attPolls, commands, world>>

\* The status check precedes the insert on a plain connection, so the row may
\* land on a run that has settled since: the only guard left is that it exists.
StopJobRun(r) ==
  /\ jobRun[r] # "None"
  /\ stopRow' = stopRow \cup {r}
  /\ UNCHANGED <<jobRun, taskRun, attempt, started, group, jobPolls, attPolls, commands, world>>

\* One transaction, which checks the status again.
DeleteJobRun(r) ==
  /\ r \in Deletable
  /\ jobRun[r] = "Scheduled"
  /\ jobRun' = [jobRun EXCEPT ![r] = "Deleted"]
  /\ SkipTaskRunsOf(r)
  /\ UNCHANGED <<attempt, started, group, stopRow, jobPolls, attPolls, commands, world>>

\* The clock reaches the run's scheduled_at.
FallDue(r) ==
  /\ jobRun[r] # "None" /\ r \notin due
  /\ due' = due \cup {r}
  /\ UNCHANGED <<rows, jobPolls, attPolls, commands, server, restarts, errors>>

-----------------------------------------------------------------------------
(* JobRunReleaser: Scheduled to Queued or Skipped.  It acts on the rows its *)
(* pass selected, whatever they have become since.                         *)

\* Mutation: the pass selects every run that has not started.
UnstartedJobRuns == {r \in JobRuns : jobRun[r] \in {"Scheduled", "Queued"}}
ScheduledJobRuns == {r \in JobRuns : jobRun[r] = "Scheduled"}

SelectScheduled ==
  /\ server = "up" /\ releasing = {} /\ cancelling = {}
  /\ ScheduledJobRuns # {}
  /\ releasing' = ScheduledJobRuns
  /\ UNCHANGED <<rows, cancelling, starting, skipping, attPolls, commands, world>>

ReleaseJobRun(r) ==
  /\ server = "up" /\ r \in releasing /\ cancelling = {}
  /\ ~IsStopped(r) /\ r \in due
  /\ jobRun' = [jobRun EXCEPT ![r] = "Queued"]
  /\ releasing' = releasing \ {r}
  /\ UNCHANGED <<taskRun, attempt, started, group, stopRow, cancelling, starting, skipping,
                 attPolls, commands, world>>

LeaveScheduled(r) ==
  /\ server = "up" /\ r \in releasing /\ cancelling = {}
  /\ ~IsStopped(r) /\ r \notin due
  /\ releasing' = releasing \ {r}
  /\ UNCHANGED <<rows, cancelling, starting, skipping, attPolls, commands, world>>

CancelJobRun(r) ==
  /\ server = "up" /\ r \in releasing /\ cancelling = {}
  /\ IsStopped(r)
  /\ SkipTaskRunsOf(r)
  /\ releasing' = releasing \ {r}
  /\ cancelling' = {r}
  /\ UNCHANGED <<jobRun, attempt, started, group, stopRow, starting, skipping,
                 attPolls, commands, world>>

\* skip_job_run, second write.
FinishCancel(r) ==
  /\ server = "up" /\ r \in cancelling
  /\ jobRun' = [jobRun EXCEPT ![r] = "Skipped"]
  /\ cancelling' = {}
  /\ UNCHANGED <<taskRun, attempt, started, group, stopRow, releasing, starting, skipping,
                 attPolls, commands, world>>

-----------------------------------------------------------------------------
(* JobRunDispatcher: Queued to Skipped or Running.                         *)

JobRunDispatcherIdle == server = "up" /\ starting = {} /\ skipping = {}

\* Mutation: a stopped run is skipped even once it runs.
IsQueuedOrRunning(r) == jobRun[r] \in {"Queued", "Running"}
IsQueued(r) == jobRun[r] = "Queued"

SkipQueued(r) ==
  /\ JobRunDispatcherIdle
  /\ IsQueued(r) /\ IsStopped(r)
  /\ SkipTaskRunsOf(r)
  /\ skipping' = {r}
  /\ UNCHANGED <<jobRun, attempt, started, group, stopRow, releasing, cancelling, starting,
                 attPolls, commands, world>>

FinishSkip(r) ==
  /\ server = "up" /\ r \in skipping
  /\ jobRun' = [jobRun EXCEPT ![r] = "Skipped"]
  /\ skipping' = {}
  /\ UNCHANGED <<taskRun, attempt, started, group, stopRow, releasing, cancelling, starting,
                 attPolls, commands, world>>

\* set_to_running, first write: the planned task runs are released to
\* TaskRunDispatcher while the run itself still reads Queued.
ReleaseTaskRuns(r) ==
  /\ JobRunDispatcherIdle
  /\ IsQueued(r) /\ ~IsStopped(r) /\ ~IsJobAtMaxParallelRuns(JobOf[r])
  /\ taskRun' = [tr \in TaskRuns |->
                   IF JobRunOf[tr] = r /\ taskRun[tr] = "Planned" THEN "Waiting" ELSE taskRun[tr]]
  /\ starting' = {r}
  /\ UNCHANGED <<jobRun, attempt, started, group, stopRow, releasing, cancelling, skipping,
                 attPolls, commands, world>>

SetJobRunRunning(r) ==
  /\ server = "up" /\ r \in starting
  /\ jobRun' = [jobRun EXCEPT ![r] = "Running"]
  /\ starting' = {}
  /\ UNCHANGED <<taskRun, attempt, started, group, stopRow, releasing, cancelling, skipping,
                 attPolls, commands, world>>

-----------------------------------------------------------------------------
(* JobRunMonitor: Running to the verdict of its task runs.                 *)

AllFinished(r) == \A tr \in TaskRunRows(r) : taskRun[tr] \in FinishedTaskRun

SettleJobRun(r) ==
  /\ server = "up"
  /\ jobRun[r] = "Running" /\ AllFinished(r)
  /\ jobRun' = [jobRun EXCEPT ![r] = JobRunVerdict({taskRun[tr] : tr \in TaskRunRows(r)})]
  /\ UNCHANGED <<taskRun, attempt, started, group, stopRow, jobPolls, attPolls, commands, world>>

-----------------------------------------------------------------------------
(* TaskRunDispatcher: Waiting to Skipped or Running.                       *)

\* The dependencies are loaded first, so a row that is missing holds up both.
SkipTaskRun(tr) ==
  /\ server = "up"
  /\ \A d \in DependsOn[tr] : taskRun[d] # "None"
  /\ taskRun[tr] = "Waiting" /\ ShouldSkip(tr)
  /\ taskRun' = [taskRun EXCEPT ![tr] = "Skipped"]
  /\ UNCHANGED <<jobRun, attempt, started, group, stopRow, jobPolls, attPolls, commands, world>>

StartTaskRun(tr) ==
  /\ server = "up"
  /\ taskRun[tr] = "Waiting" /\ ~ShouldSkip(tr) /\ AllDependenciesSucceeded(tr)
  /\ taskRun' = [taskRun EXCEPT ![tr] = "Running"]
  /\ UNCHANGED <<jobRun, attempt, started, group, stopRow, jobPolls, attPolls, commands, world>>

-----------------------------------------------------------------------------
(* TaskRunMonitor: the only service that inserts attempts.                 *)

InsertAttempt(a) ==
  /\ attempt' = [attempt EXCEPT ![a] = "Queued"]
  /\ UNCHANGED <<jobRun, taskRun, started, group, stopRow, jobPolls, attPolls, commands, world>>

StartFirstAttempt(tr) ==
  /\ server = "up" /\ taskRun[tr] = "Running"
  /\ \A n \in AttemptNumbers : attempt[<<tr, n>>] = "None"
  /\ InsertAttempt(<<tr, 1>>)

\* Mutation: max_retries + 1 retries.
HasOneMoreRetry(tr, n) == attempt[<<tr, n>>] = "Failed" /\ n <= MaxRetries[tr] + 1
\* Mutation: an attempt flowlite lost track of is retried like a failed one.
RetriesInvalidToo(tr, n) == attempt[<<tr, n>>] \in {"Failed", "Invalid"} /\ n < MaxRetries[tr] + 1
HasRetriesLeft(tr, n) == attempt[<<tr, n>>] = "Failed" /\ n < MaxRetries[tr] + 1

RetryAttempt(tr) ==
  /\ server = "up" /\ taskRun[tr] = "Running"
  /\ \E n \in AttemptNumbers :
       /\ IsLastAttempt(tr, n) /\ HasRetriesLeft(tr, n)
       /\ n + 1 \in AttemptNumbers
       /\ InsertAttempt(<<tr, n + 1>>)

SettleTaskRun(tr) ==
  /\ server = "up" /\ taskRun[tr] = "Running"
  /\ \E n \in AttemptNumbers :
       /\ IsLastAttempt(tr, n)
       /\ attempt[<<tr, n>>] \in FinishedAttempt /\ ~HasRetriesLeft(tr, n)
       /\ taskRun' = [taskRun EXCEPT ![tr] = TaskRunVerdict(attempt[<<tr, n>>])]
  /\ UNCHANGED <<jobRun, attempt, started, group, stopRow, jobPolls, attPolls, commands, world>>

-----------------------------------------------------------------------------
(* TaskRunAttemptDispatcher: Queued to Invalid, Skipped or Running.        *)

AttemptDispatcherIdle == server = "up" /\ spawning = {} /\ launched = {}

\* Mutation: started_at is not looked at.
NeverAlreadySpawned(a) == FALSE
AlreadySpawned(a) == a \in started

\* A spawn was begun for the row and never recorded: not started again.
InvalidateSpawned(a) ==
  /\ AttemptDispatcherIdle
  /\ attempt[a] = "Queued" /\ AlreadySpawned(a)
  /\ attempt' = [attempt EXCEPT ![a] = "Invalid"]
  /\ UNCHANGED <<jobRun, taskRun, started, group, stopRow, jobPolls, attPolls, commands, world>>

SkipAttempt(a) ==
  /\ AttemptDispatcherIdle
  /\ attempt[a] = "Queued" /\ ~AlreadySpawned(a) /\ IsStopped(JobRunOf[a[1]])
  /\ attempt' = [attempt EXCEPT ![a] = "Skipped"]
  /\ UNCHANGED <<jobRun, taskRun, started, group, stopRow, jobPolls, attPolls, commands, world>>

\* set_to_running, first write: started_at, before the spawn.
BeginSpawn(a) ==
  /\ AttemptDispatcherIdle
  /\ attempt[a] = "Queued" /\ ~AlreadySpawned(a)
  /\ ~IsStopped(JobRunOf[a[1]]) /\ ~ShouldStayQueued(a[1])
  /\ started' = started \cup {a}
  /\ spawning' = {a}
  /\ UNCHANGED <<jobRun, taskRun, attempt, group, stopRow, jobPolls, launched, children,
                 commands, world>>

\* The spawn, and the child into the map before the row says Running.
SpawnCommand(a) ==
  /\ server = "up" /\ a \in spawning /\ a[1] \notin Unspawnable
  /\ process' = [process EXCEPT ![a] = "running"]
  /\ spawns' = [spawns EXCEPT ![a] = @ + 1]
  /\ children' = [children EXCEPT ![a] = "held"]
  /\ spawning' = {}
  /\ launched' = {a}
  /\ UNCHANGED <<rows, jobPolls, world>>

\* Nothing was started, so started_at is cleared for the next pass to try again.
SpawnFails(a) ==
  /\ server = "up" /\ a \in spawning /\ a[1] \in Unspawnable
  /\ started' = started \ {a}
  /\ spawning' = {}
  /\ UNCHANGED <<jobRun, taskRun, attempt, group, stopRow, jobPolls, launched, children,
                 commands, world>>

\* set_to_running, last write.
RecordRunning(a) ==
  /\ server = "up" /\ a \in launched
  /\ attempt' = [attempt EXCEPT ![a] = "Running"]
  /\ group' = group \cup {a}
  /\ launched' = {}
  /\ UNCHANGED <<jobRun, taskRun, started, stopRow, jobPolls, spawning, children, commands, world>>

-----------------------------------------------------------------------------
(* TaskRunAttemptMonitor: Running to how its command ended.                *)

\* Mutation: the command is left to run.
LeftAlone(a) == UNCHANGED process
Killed(a) == process' = [process EXCEPT ![a] = IF @ = "running" THEN "nonzero" ELSE @]

\* finish_task_run_attempt, the child taken out of the map for good.
FinishAttempt(a, status) ==
  /\ attempt' = [attempt EXCEPT ![a] = status]
  /\ children' = [children EXCEPT ![a] = "absent"]
  /\ UNCHANGED <<jobRun, taskRun, started, group, stopRow, jobPolls, spawning, launched,
                 spawns, world>>

\* Mutation: a row with no process to ask about is passed over.
PassOverLost(a) == FALSE
\* No process is held for the row.
InvalidateLost(a) ==
  /\ server = "up" /\ attempt[a] = "Running" /\ children[a] = "absent"
  /\ FinishAttempt(a, "Invalid")
  /\ UNCHANGED process

\* The command exited: zero succeeds unless its output cannot be recorded.
SettleExited(a) ==
  /\ server = "up" /\ attempt[a] = "Running" /\ children[a] = "held"
  /\ \/ process[a] = "zero" /\ \E s \in {"Succeeded", "Failed"} : FinishAttempt(a, s)
     \/ process[a] = "nonzero" /\ FinishAttempt(a, "Failed")
  /\ UNCHANGED process

\* Mutation: the child goes back with its row's status, nothing decided.
BeginUndecided(a, status) ==
  /\ children' = [children EXCEPT ![a] = attempt[a]]
  /\ UNCHANGED <<rows, jobPolls, spawning, launched, commands, world>>
\* With a grace the child goes back in the map, its status decided; with none
\* it is killed and settled at once.
BeginTermination(a, status) ==
  IF KillGrace
  THEN /\ children' = [children EXCEPT ![a] = status]
       /\ UNCHANGED <<rows, jobPolls, spawning, launched, commands, world>>
  ELSE Killed(a) /\ FinishAttempt(a, status)

\* Past its timeout or its idle timeout, which may be any time it runs.
TimeOutAttempt(a) ==
  /\ server = "up" /\ attempt[a] = "Running" /\ children[a] = "held"
  /\ process[a] = "running"
  /\ BeginTermination(a, "TimedOut")

AbortAttempt(a) ==
  /\ server = "up" /\ attempt[a] = "Running" /\ children[a] = "held"
  /\ process[a] = "running" /\ IsStopped(JobRunOf[a[1]])
  /\ BeginTermination(a, "Aborted")

\* The group is gone or the grace has run out; how the command exited is ignored.
EndTermination(a) ==
  /\ server = "up" /\ attempt[a] = "Running" /\ children[a] \in {"TimedOut", "Aborted"}
  /\ Killed(a)
  /\ FinishAttempt(a, children[a])

-----------------------------------------------------------------------------
(* A write fails after an earlier one of the same handler took effect.  The *)
(* poller logs it and the handler's memory is gone.                        *)

CountError == errors < MaxErrors /\ errors' = errors + 1

\* The second write of skip_job_run or of set_to_running.
JobRunWriteFails ==
  /\ server = "up" /\ CountError
  /\ \/ cancelling # {} /\ cancelling' = {} /\ UNCHANGED <<starting, skipping>>
     \/ starting # {} /\ starting' = {} /\ UNCHANGED <<cancelling, skipping>>
     \/ skipping # {} /\ skipping' = {} /\ UNCHANGED <<cancelling, starting>>
  /\ UNCHANGED <<rows, releasing, attPolls, commands, due, server, restarts>>

\* The write that clears started_at, or the one that records Running, the child
\* left in the map.
SpawnWriteFails(a) ==
  /\ server = "up" /\ CountError
  /\ \/ a \in spawning /\ a[1] \in Unspawnable /\ spawning' = {} /\ UNCHANGED launched
     \/ a \in launched /\ launched' = {} /\ UNCHANGED spawning
  /\ UNCHANGED <<rows, jobPolls, children, commands, due, server, restarts>>

\* A write of the monitor, be it the output or the status, the child already out
\* of the map: dropped with it, killed only if its termination had come to that.
MonitorWriteFails(a) ==
  /\ server = "up" /\ CountError
  /\ attempt[a] = "Running" /\ children[a] # "absent"
  /\ \/ children[a] = "held" /\ UNCHANGED process
     \/ (children[a] # "held" \/ ~KillGrace) /\ Killed(a)
  /\ children' = [children EXCEPT ![a] = "absent"]
  /\ UNCHANGED <<rows, jobPolls, spawning, launched, spawns, due, server, restarts>>

-----------------------------------------------------------------------------
(* The commands and the server process.                                    *)

ExitCommand(a) ==
  /\ process[a] = "running"
  /\ \E code \in {"zero", "nonzero"} : process' = [process EXCEPT ![a] = code]
  /\ UNCHANGED <<rows, jobPolls, attPolls, spawns, world>>

\* Memory goes, rows and commands stay.
LoseMemory ==
  /\ releasing' = {} /\ cancelling' = {} /\ starting' = {} /\ skipping' = {}
  /\ spawning' = {} /\ launched' = {}
  /\ children' = [a \in AttemptIds |-> "absent"]
  /\ server' = "down"
  /\ restarts < MaxRestarts /\ restarts' = restarts + 1
  /\ UNCHANGED <<rows, spawns, due, errors>>

Crash == server # "down" /\ LoseMemory /\ UNCHANGED process

\* Orchestrator::shutdown: the pollers end between passes, then every command
\* still held is terminated.  The rows are left Running for recovery.
Shutdown ==
  /\ server = "up"
  /\ releasing = {} /\ cancelling = {} /\ starting = {} /\ skipping = {}
  /\ spawning = {} /\ launched = {}
  /\ process' = [a \in AttemptIds |->
                   IF children[a] # "absent" /\ process[a] = "running" THEN "nonzero" ELSE process[a]]
  /\ LoseMemory

Restart ==
  /\ server = "down"
  /\ server' = "recovering"
  /\ UNCHANGED <<rows, jobPolls, attPolls, commands, due, restarts, errors>>

\* No machine reboot: every started_at is later than the boot, when known.
\* Mutation: the group id is not looked at.
LeaveOrphan(a) == UNCHANGED process
KillOrphan(a) == IF BootTimeKnown /\ a \in group THEN Killed(a) ELSE UNCHANGED process

\* recover_orphaned_task_run_attempts, one row.
RecoverAttempt(a) ==
  /\ server = "recovering" /\ attempt[a] = "Running"
  /\ KillOrphan(a)
  /\ attempt' = [attempt EXCEPT ![a] = "Invalid"]
  /\ UNCHANGED <<jobRun, taskRun, started, group, stopRow, jobPolls, attPolls, spawns, world>>

\* Mutation: the pollers start beside the recovery.
RecoveryGoesOn == TRUE
RecoveryIsDone == RunningAttempts = {}

FinishRecovery ==
  /\ server = "recovering" /\ RecoveryIsDone
  /\ server' = "up"
  /\ UNCHANGED <<rows, jobPolls, attPolls, commands, due, restarts, errors>>

-----------------------------------------------------------------------------
(* One row's worth of each service, and the whole system.                  *)

JobRunReleaserStep(r) ==
  ReleaseJobRun(r) \/ LeaveScheduled(r) \/ CancelJobRun(r) \/ FinishCancel(r)
JobRunDispatcherStep(r) ==
  SkipQueued(r) \/ FinishSkip(r) \/ ReleaseTaskRuns(r) \/ SetJobRunRunning(r)
TaskRunDispatcherStep(tr) == SkipTaskRun(tr) \/ StartTaskRun(tr)
TaskRunMonitorStep(tr) == StartFirstAttempt(tr) \/ RetryAttempt(tr) \/ SettleTaskRun(tr)
AttemptDispatcherStep(a) ==
  \/ InvalidateSpawned(a) \/ SkipAttempt(a)
  \/ BeginSpawn(a) \/ SpawnCommand(a) \/ SpawnFails(a) \/ RecordRunning(a)
AttemptMonitorStep(a) ==
  \/ InvalidateLost(a) \/ SettleExited(a)
  \/ TimeOutAttempt(a) \/ AbortAttempt(a) \/ EndTermination(a)
FrontendStep(r) == Submit(r) \/ StopJobRun(r) \/ DeleteJobRun(r) \/ FallDue(r)
WriteFails == JobRunWriteFails \/ \E a \in AttemptIds : SpawnWriteFails(a) \/ MonitorWriteFails(a)
ServerStep == Crash \/ Shutdown \/ Restart \/ FinishRecovery

Next ==
  \/ \E r \in JobRuns :
       FrontendStep(r) \/ JobRunReleaserStep(r) \/ JobRunDispatcherStep(r) \/ SettleJobRun(r)
  \/ SelectScheduled
  \/ \E tr \in TaskRuns :
       InsertTaskRun(tr) \/ TaskRunDispatcherStep(tr) \/ TaskRunMonitorStep(tr)
  \/ \E a \in AttemptIds :
       \/ AttemptDispatcherStep(a) \/ AttemptMonitorStep(a)
       \/ ExitCommand(a) \/ RecoverAttempt(a)
  \/ WriteFails
  \/ ServerStep

Spec == Init /\ [][Next]_vars

\* Every pass of a poller handles every row it selects, a row's error does not
\* end the pass, and passes recur at the poll interval.  The attempt dispatcher
\* gets strong fairness because a row waits for the one before it to be spawned.
\* The clock runs, so every command ends or times out, and someone starts a
\* server that is down.  Users owe nothing, nor does a command owe its exit.
Fairness ==
  /\ WF_vars(SelectScheduled)
  /\ \A r \in JobRuns :
       /\ WF_vars(FallDue(r))
       /\ WF_vars(JobRunReleaserStep(r))
       /\ WF_vars(JobRunDispatcherStep(r))
       /\ WF_vars(SettleJobRun(r))
  /\ \A tr \in TaskRuns :
       WF_vars(TaskRunDispatcherStep(tr)) /\ WF_vars(TaskRunMonitorStep(tr))
  /\ \A a \in AttemptIds :
       /\ SF_vars(AttemptDispatcherStep(a))
       /\ WF_vars(AttemptMonitorStep(a))
       /\ WF_vars(RecoverAttempt(a))
  /\ WF_vars(Restart) /\ WF_vars(FinishRecovery)

FairSpec == Spec /\ Fairness

-----------------------------------------------------------------------------
(* Properties.  The first group holds through crashes, restarts and failed *)
(* writes; the second says what those may cost.                            *)

\* A task run's attempts are numbered from 1 without a gap, each is there
\* because the one before it failed, and there are at most max_retries + 1:
\* what TaskRunMonitor and the two attempt services make of the rows together.
AttemptLadder ==
  \A tr \in TaskRuns : \A n \in AttemptNumbers :
    attempt[<<tr, n>>] # "None" =>
      /\ n <= MaxRetries[tr] + 1
      /\ \A m \in 1..(n - 1) : attempt[<<tr, m>>] = "Failed"

\* No command of a task run starts before every task run it depends on has
\* succeeded.  A stop may overwrite the dependency afterwards, never precede it:
\* TaskRunDispatcher's gate, read through three services to the spawn.
DependenciesFirst ==
  \A a \in AttemptIds : spawns[a] > 0 =>
    \A d \in DependsOn[a[1]] :
      taskRun[d] = "Succeeded" \/ (taskRun[d] = "Skipped" /\ JobRunOf[d] \in stopRow)

\* A job never has more Running runs than its max_parallel_runs, although
\* JobRunDispatcher counts them one write before it adds to them.
ParallelRunsCap ==
  \A j \in Jobs : MaxParallelRuns[j] # 0 =>
    Cardinality(RunningJobRuns(j)) <= MaxParallelRuns[j]

\* Running attempts never exceed max_running_attempts nor a limit they claim,
\* although the dispatcher counts them two writes and a spawn before it adds one.
SlotsRespected ==
  /\ MaxRunningAttempts # 0 => Cardinality(RunningAttempts) <= MaxRunningAttempts
  /\ \A l \in Limits : ConcurrencyLimits[l] # 0 =>
       Cardinality(ClaimedSlots(l)) <= ConcurrencyLimits[l]

\* The command of an attempt is spawned at most once, wherever the server died
\* or a write failed: what the started_at written before the spawn is for.
SpawnedOnce == \A a \in AttemptIds : spawns[a] <= 1

\* Two commands of one task run never run at once, not even past a crash that
\* leaves the first one behind: an Invalid attempt is not retried.
OneCommandPerTask ==
  \A tr \in TaskRuns : \A m, n \in AttemptNumbers :
    process[<<tr, m>>] = "running" /\ process[<<tr, n>>] = "running" => m = n

\* A settled job run that was submitted whole has no task run left to move, and
\* its status is the verdict of all of them: JobRunMonitor, against every service
\* that could still write a task run of it.
SettledRunIsWhole ==
  \A r \in JobRuns \ Piecemeal : jobRun[r] \in FinishedJobRun =>
    /\ \A tr \in TasksOf(r) : taskRun[tr] \in FinishedTaskRun
    /\ jobRun[r] = "Succeeded" => \A tr \in TasksOf(r) : taskRun[tr] = "Succeeded"
    /\ jobRun[r] = "Aborted" => \A tr \in TasksOf(r) : taskRun[tr] \in Stopped \cup {"Succeeded"}
    /\ \A s \in {"Failed", "TimedOut", "Invalid"} :
         jobRun[r] = s => \E tr \in TasksOf(r) : taskRun[tr] = s
    /\ jobRun[r] \in {"Skipped", "Deleted"} => \A tr \in TasksOf(r) : taskRun[tr] = "Skipped"

\* Unless a write failed or the boot time is unreadable, an attempt whose group
\* was recorded is finished only once its command is: the monitor's kill before
\* it settles, the shutdown's, and the recovery's of what a crash left.
SettledIsDead ==
  errors = 0 /\ BootTimeKnown =>
    \A a \in group : attempt[a] \in FinishedAttempt => process[a] # "running"

\* Unless a write failed, a server that is up holds the child of every Running
\* attempt: recovery ends before a poller starts, and the child is in the map
\* before the row says Running.
RunningHasCommand ==
  errors = 0 /\ server = "up" =>
    \A a \in AttemptIds : attempt[a] = "Running" => children[a] # "absent"

\* With no crash and no failed write, nothing of a settled job run goes on: no
\* attempt that has yet to finish and no command.
QuietWhenSettled ==
  restarts = 0 /\ errors = 0 =>
    \A a \in AttemptIds : jobRun[JobRunOf[a[1]]] \in FinishedJobRun =>
      attempt[a] \notin UnfinishedAttempt /\ process[a] # "running"

\* Once a run has settled, other than by a delete, no service writes it again,
\* whatever rows its pass selected before.
SettledJobRunsKeepTheirStatus ==
  [][\A r \in JobRuns : jobRun[r] \in FinishedJobRun \ {"Deleted"} => jobRun'[r] = jobRun[r]]_vars

\* With no crash and no failed write, a finished task run keeps its status: the
\* unconditional write of skip_job_run meets only task runs that never started.
TaskRunsSettleForGood ==
  [][errors' = 0 /\ restarts' = 0 =>
       \A tr \in TaskRuns : taskRun[tr] \in FinishedTaskRun => taskRun'[tr] = taskRun[tr]]_vars

\* A stop ends a run that was submitted whole, wherever it finds it and even if its
\* commands cannot be spawned.
StopSettles ==
  \A r \in JobRuns \ Piecemeal : r \in stopRow ~> jobRun[r] \in FinishedJobRun

\* A submitted run settles, whatever waits on max_parallel_runs, on a limit or
\* on a dependency, if no run of its job was submitted in part or has a command
\* that can never be spawned.
RunsSettle ==
  \A r \in JobRuns :
    (\A q \in JobRuns : JobOf[q] = JobOf[r] =>
       q \notin Piecemeal /\ TasksOf(q) \cap Unspawnable = {}) =>
    (jobRun[r] = "Scheduled" ~> jobRun[r] \in FinishedJobRun)

-----------------------------------------------------------------------------
(* What the repository's texts say, against the code.                      *)

\* crud/job_run.rs on is_finished: a settled run will not change again.
SettledRunsNeverChange ==
  [][\A r \in JobRuns : jobRun[r] \in FinishedJobRun => jobRun'[r] = jobRun[r]]_vars

\* set_to_running and delete_job_run on the order of their writes: no task run is
\* left Planned, where no service selects it, in a run that is past Queued.
NoTaskRunIsLeftPlanned ==
  \A tr \in TaskRuns : taskRun[tr] = "Planned" => jobRun[JobRunOf[tr]] \in {"Scheduled", "Queued"}

-----------------------------------------------------------------------------
\* What all of this comes to for the user of a job run that nobody deletes: the
\* seven services, their crashes and their failed writes implement the lifecycle.
Lifecycle == INSTANCE JobRunLifecycle WITH status <- jobRun, stopped <- stopRow
ImplementsLifecycle == Lifecycle!Spec

=============================================================================
