----------------------------- MODULE TaskRunProofs -----------------------------
(***************************************************************************)
(* Task runs between their job run and their attempts, for every database, *)
(* configuration and bound: dependencies, the verdict of a settled run and *)
(* the quiet after it, and the lifecycle of a job run that comes of it.    *)
(***************************************************************************)
EXTENDS AttemptProofs

NotStarted == {"None", "Planned", "Skipped"}
NoFault    == restarts = 0 /\ errors = 0
DependenciesMet(tr) ==
  \A d \in DependsOn[tr] :
    taskRun[d] = "Succeeded" \/ (taskRun[d] = "Skipped" /\ JobRunOf[d] \in stopRow)

\* No task run of a job run has started before it is queued, nor while it is being
\* skipped, nor once it was; and there is none before there is a job run.
Early ==
  \A tr \in TaskRuns :
    /\ jobRun[JobRunOf[tr]] = "None" => taskRun[tr] = "None"
    /\ \/ jobRun[JobRunOf[tr]] \in {"Scheduled", "Skipped", "Deleted"}
       \/ JobRunOf[tr] \in cancelling \cup skipping
       => taskRun[tr] \in NotStarted
\* A task run that got to run met its dependencies, and an attempt is of such a one.
Gate ==
  \A tr \in TaskRuns :
    (taskRun[tr] = "Running" \/ \E n \in AttemptNumbers : attempt[<<tr, n>>] # "None")
      => DependenciesMet(tr)
\* Runs submitted whole have all of their task runs, and skip them all.
Whole ==
  \A tr \in TaskRuns : JobRunOf[tr] \notin Piecemeal =>
    /\ jobRun[JobRunOf[tr]] # "None" => taskRun[tr] # "None"
    /\ JobRunOf[tr] \in cancelling \cup skipping => taskRun[tr] = "Skipped"
\* Nothing of a settled run is left to a service.
Settled ==
  \A tr \in TaskRuns : jobRun[JobRunOf[tr]] \in FinishedJobRun => taskRun[tr] \notin {"Waiting", "Running"}
\* Without a fault a queued run that is not being started has started nothing, and
\* an attempt goes on only while its task run does.
Released ==
  NoFault => \A tr \in TaskRuns :
    jobRun[JobRunOf[tr]] = "Queued" /\ JobRunOf[tr] \notin starting => taskRun[tr] \in NotStarted
Owned ==
  NoFault => \A a \in AttemptIds : attempt[a] \in UnfinishedAttempt => taskRun[a[1]] = "Running"

\* One job run is started at a time.
OneStarting == \A q, r \in starting : q = r

RowInv == OneStarting /\ Early /\ Gate /\ Whole /\ SettledRunIsWhole /\ Settled /\ Released /\ Owned

-----------------------------------------------------------------------------
(* What a step may do to a task run, to a job run, to an attempt and to    *)
(* what the pollers hold.                                                  *)

TaskRunMove(tr) ==
  LET r == JobRunOf[tr] IN
  \/ taskRun'[tr] = taskRun[tr]
  \/ /\ taskRun[tr] = "None" /\ taskRun'[tr] = "Planned"
     /\ \/ jobRun[r] = "None" /\ jobRun'[r] = "Scheduled"
        \/ r \in Piecemeal /\ jobRun[r] # "None" /\ jobRun'[r] = jobRun[r]
  \/ /\ taskRun[tr] = "Planned" /\ taskRun'[tr] = "Waiting"
     /\ jobRun[r] = "Queued" /\ jobRun'[r] = "Queued" /\ starting' = {r}
  \/ /\ taskRun[tr] = "Waiting" /\ jobRun'[r] = jobRun[r]
     /\ \/ taskRun'[tr] = "Skipped" /\ ShouldSkip(tr)
        \/ taskRun'[tr] = "Running" /\ AllDependenciesSucceeded(tr)
  \/ /\ taskRun[tr] = "Running" /\ taskRun'[tr] \in FinishedTaskRun
     /\ jobRun'[r] = jobRun[r] /\ attempt' = attempt
     /\ \A n \in AttemptNumbers : attempt[<<tr, n>>] \notin UnfinishedAttempt
     /\ taskRun'[tr] \in Stopped => \E n \in AttemptNumbers : attempt[<<tr, n>>] \in Stopped
  \/ /\ taskRun[tr] # "None" /\ taskRun'[tr] = "Skipped"
     /\ \/ jobRun[r] = "Scheduled" /\ jobRun'[r] = "Deleted"
        \/ jobRun[r] \in {"Scheduled", "Deleted"} /\ r \in stopRow /\ jobRun'[r] = jobRun[r]
        \/ jobRun[r] = "Queued" /\ r \in stopRow /\ jobRun'[r] = "Queued" /\ starting = {}

JobRunMove(r) ==
  \/ jobRun'[r] = jobRun[r]
  \/ /\ jobRun[r] = "None" /\ jobRun'[r] = "Scheduled"
     /\ r \notin Piecemeal => \A tr \in TasksOf(r) : taskRun'[tr] = "Planned"
  \/ /\ r \in Deletable /\ jobRun[r] = "Scheduled" /\ jobRun'[r] = "Deleted"
     /\ \A tr \in TasksOf(r) : taskRun[tr] # "None" => taskRun'[tr] = "Skipped"
  \/ /\ taskRun' = taskRun
     /\ \/ jobRun[r] \in {"Scheduled", "Deleted"} /\ jobRun'[r] = "Queued"
        \/ r \in cancelling \cup skipping /\ jobRun'[r] = "Skipped"
        \/ jobRun[r] = "Queued" /\ jobRun'[r] = "Running"
        \/ /\ jobRun[r] = "Running" /\ AllFinished(r)
           /\ jobRun'[r] = JobRunVerdict({taskRun[tr] : tr \in TaskRunRows(r)})

AttemptMove(a) ==
  \/ attempt'[a] = attempt[a]
  \/ /\ taskRun' = taskRun /\ attempt[a] \in UnfinishedAttempt /\ attempt'[a] # "None"
  \/ /\ taskRun' = taskRun /\ attempt[a] = "None" /\ taskRun[a[1]] = "Running"

PollMove ==
  /\ cancelling' \cup skipping' \subseteq cancelling \cup skipping \cup stopRow
  /\ \A r \in (cancelling' \cup skipping') \ (cancelling \cup skipping) :
       \A tr \in TasksOf(r) : /\ jobRun'[r] = jobRun[r]
                              /\ taskRun'[tr] = IF taskRun[tr] = "None" THEN "None" ELSE "Skipped"
  /\ NoFault' => NoFault /\ \A r \in starting \ starting' : jobRun'[r] = "Running"

Moves ==
  /\ \A tr \in TaskRuns : TaskRunMove(tr)
  /\ \A r \in JobRuns : JobRunMove(r)
  /\ \A a \in AttemptIds : AttemptMove(a)
  /\ PollMove /\ OneStarting' /\ stopRow \subseteq stopRow'

\* A step that leaves the rows and the memory of the job run pollers alone.
LEMMA StillMoves ==
  ASSUME OneStarting, UNCHANGED <<jobRun, taskRun, attempt, stopRow, jobPolls>>, NoFault' => NoFault
  PROVE  Moves
BY DEF Moves, OneStarting, TaskRunMove, JobRunMove, AttemptMove, PollMove, jobPolls

LEMMA FrontendMoves ==
  ASSUME TypeOK, OneStarting, Early, NEW r \in JobRuns, FrontendStep(r)
  PROVE  Moves
<1> USE RowAssumption DEF OneStarting, TypeOK, Moves, TaskRunMove, JobRunMove, AttemptMove, PollMove, NoFault,
            TasksOf, TaskRunRows, rows, jobPolls, world
<1>1. CASE Submit(r)
  <2>1. /\ jobRun'[r] = "Scheduled" /\ \A x \in JobRuns \ {r} : jobRun'[x] = jobRun[x]
        /\ UNCHANGED <<attempt, stopRow, releasing, cancelling, starting, skipping, restarts, errors>>
    BY <1>1 DEF Submit
  <2>2. \A tr \in TaskRuns :
          taskRun'[tr] = IF JobRunOf[tr] = r /\ r \notin Piecemeal THEN "Planned" ELSE taskRun[tr]
    BY <1>1 DEF Submit
  <2>3. \A tr \in TaskRuns : JobRunOf[tr] = r => taskRun[tr] = "None"
    BY <1>1 DEF Submit, Early
  <2>4. \A tr \in TaskRuns : TaskRunMove(tr)
    BY <1>1, <2>1, <2>2, <2>3 DEF Submit
  <2>5. \A x \in JobRuns : JobRunMove(x)
    BY <1>1, <2>1, <2>2 DEF Submit
  <2> QED
    BY <2>1, <2>4, <2>5
<1>2. CASE StopJobRun(r)
  BY <1>2 DEF StopJobRun
<1>3. CASE DeleteJobRun(r)
  BY <1>3 DEF DeleteJobRun, SkipTaskRunsOf
<1>4. CASE FallDue(r)
  BY <1>4 DEF FallDue
<1> QED
  BY <1>1, <1>2, <1>3, <1>4 DEF FrontendStep

LEMMA ReleaserMoves ==
  ASSUME JobRunInv, OneStarting, NEW r \in JobRuns, JobRunReleaserStep(r)
  PROVE  Moves
<1> USE RowAssumption DEF OneStarting, JobRunInv, PollerMemory, ReleaserMemory, TypeOK, Moves, TaskRunMove,
            JobRunMove, AttemptMove, PollMove, NoFault, TasksOf, TaskRunRows, rows, jobPolls, world
<1>1. CASE ReleaseJobRun(r)
  BY <1>1 DEF ReleaseJobRun
<1>2. CASE LeaveScheduled(r)
  BY <1>2 DEF LeaveScheduled
<1>3. CASE CancelJobRun(r)
  BY <1>3 DEF CancelJobRun, SkipTaskRunsOf, IsStopped
<1>4. CASE FinishCancel(r)
  BY <1>4 DEF FinishCancel
<1> QED
  BY <1>1, <1>2, <1>3, <1>4 DEF JobRunReleaserStep

LEMMA DispatcherMoves ==
  ASSUME JobRunInv, OneStarting, NEW r \in JobRuns, JobRunDispatcherStep(r)
  PROVE  Moves
<1> USE RowAssumption DEF OneStarting, JobRunInv, PollerMemory, DispatcherMemory, TypeOK, Moves, TaskRunMove,
            JobRunMove, AttemptMove, PollMove, NoFault, TasksOf, TaskRunRows, IsQueued,
            JobRunDispatcherIdle, rows, jobPolls, world
<1>1. CASE SkipQueued(r)
  BY <1>1 DEF SkipQueued, SkipTaskRunsOf, IsStopped
<1>2. CASE FinishSkip(r)
  BY <1>2 DEF FinishSkip
<1>3. CASE ReleaseTaskRuns(r)
  BY <1>3 DEF ReleaseTaskRuns
<1>4. CASE SetJobRunRunning(r)
  <2>1. \A x \in starting : x = r
    BY <1>4 DEF SetJobRunRunning
  <2> QED
    BY <1>4, <2>1 DEF SetJobRunRunning
<1> QED
  BY <1>1, <1>2, <1>3, <1>4 DEF JobRunDispatcherStep

LEMMA MonitorMoves ==
  ASSUME TypeOK, OneStarting, NEW r \in JobRuns, SettleJobRun(r)
  PROVE  Moves
BY RowAssumption DEF SettleJobRun, TypeOK, Moves, OneStarting, TaskRunMove, JobRunMove, AttemptMove,
   PollMove, NoFault, jobPolls, world

LEMMA TaskServicesMove ==
  ASSUME AttemptInv, OneStarting, NEW tr \in TaskRuns,
         InsertTaskRun(tr) \/ TaskRunDispatcherStep(tr) \/ TaskRunMonitorStep(tr)
  PROVE  Moves
<1> USE RowAssumption DEF AttemptInv, TypeOK, OneStarting, Moves, TaskRunMove, JobRunMove,
            AttemptMove, PollMove, NoFault, jobPolls, world
<1>1. CASE InsertTaskRun(tr)
  BY <1>1 DEF InsertTaskRun
<1>2. CASE SkipTaskRun(tr)
  BY <1>2 DEF SkipTaskRun
<1>3. CASE StartTaskRun(tr)
  BY <1>3 DEF StartTaskRun
<1>4. CASE StartFirstAttempt(tr) \/ RetryAttempt(tr)
  <2>1. PICK n \in AttemptNumbers : attempt[<<tr, n>>] = "None" /\ InsertAttempt(<<tr, n>>)
    <3>1. 1 \in AttemptNumbers
      BY BoundAssumption DEF AttemptNumbers
    <3>2. ASSUME NEW n \in AttemptNumbers, n + 1 \in AttemptNumbers, IsLastAttempt(tr, n)
          PROVE  attempt[<<tr, n + 1>>] = "None"
      BY <3>2 DEF IsLastAttempt, AttemptNumbers
    <3>3. CASE StartFirstAttempt(tr)
      BY <3>1, <3>3 DEF StartFirstAttempt
    <3>4. CASE RetryAttempt(tr)
      BY <3>2, <3>4 DEF RetryAttempt
    <3> QED
      BY <1>4, <3>3, <3>4
  <2>2. taskRun[tr] = "Running"
    BY <1>4 DEF StartFirstAttempt, RetryAttempt
  <2>3. \A a \in AttemptIds : AttemptMove(a)
    <3>1. UNCHANGED taskRun /\ \A a \in AttemptIds \ {<<tr, n>>} : attempt'[a] = attempt[a]
      BY <2>1 DEF InsertAttempt
    <3> QED
      BY <2>1, <2>2, <3>1
  <2> QED
    BY <2>1, <2>3 DEF InsertAttempt
<1>5. CASE SettleTaskRun(tr)
  <2>1. PICK n \in AttemptNumbers :
          /\ IsLastAttempt(tr, n) /\ attempt[<<tr, n>>] \in FinishedAttempt
          /\ taskRun' = [taskRun EXCEPT ![tr] = TaskRunVerdict(attempt[<<tr, n>>])]
    BY <1>5 DEF SettleTaskRun
  <2>2. ASSUME NEW m \in AttemptNumbers PROVE attempt[<<tr, m>>] \notin UnfinishedAttempt
    <3>1. m \in Nat /\ n \in Nat /\ m > 0
      BY BoundAssumption DEF AttemptNumbers
    <3>2. CASE m < n
      BY <2>1, <3>1, <3>2 DEF AttemptLadder, FinishedAttempt, UnfinishedAttempt
    <3>3. CASE m >= n
      BY <2>1, <3>1, <3>3 DEF IsLastAttempt, FinishedAttempt, UnfinishedAttempt
    <3> QED
      BY <3>1, <3>2, <3>3
  <2>3. /\ TaskRunVerdict(attempt[<<tr, n>>]) \in FinishedTaskRun
        /\ TaskRunVerdict(attempt[<<tr, n>>]) \in Stopped => attempt[<<tr, n>>] \in Stopped
    BY <2>1 DEF TaskRunVerdict, Stopped, FinishedAttempt, FinishedTaskRun
  <2> QED
    BY <1>5, <2>1, <2>2, <2>3 DEF SettleTaskRun
<1> QED
  BY <1>1, <1>2, <1>3, <1>4, <1>5 DEF TaskRunDispatcherStep, TaskRunMonitorStep

LEMMA AttemptServicesMove ==
  ASSUME AttemptInv, OneStarting, NEW a \in AttemptIds,
         AttemptDispatcherStep(a) \/ AttemptMonitorStep(a) \/ ExitCommand(a) \/ RecoverAttempt(a)
  PROVE  Moves
<1>1. UNCHANGED <<jobRun, taskRun, stopRow, jobPolls, restarts, errors>>
  <2> USE DEF rows, world, commands, attPolls
  <2>1. CASE AttemptDispatcherStep(a)
    BY <2>1 DEF AttemptDispatcherStep, InvalidateSpawned, SkipAttempt, BeginSpawn, SpawnCommand,
       SpawnFails, RecordRunning
  <2>2. CASE AttemptMonitorStep(a)
    BY <2>2 DEF AttemptMonitorStep, InvalidateLost, SettleExited, TimeOutAttempt, AbortAttempt,
       EndTermination, BeginTermination, FinishAttempt
  <2>3. CASE ExitCommand(a) \/ RecoverAttempt(a)
    BY <2>3 DEF ExitCommand, RecoverAttempt
  <2> QED
    BY <2>1, <2>2, <2>3
<1>2. \A b \in AttemptIds :
        attempt'[b] = attempt[b] \/ (attempt[b] \in UnfinishedAttempt /\ attempt'[b] # "None")
  <2> USE DEF AttemptInv, SpawnMemory, TypeOK, UnfinishedAttempt, rows
  <2>1. CASE AttemptDispatcherStep(a)
    BY <2>1 DEF AttemptDispatcherStep, InvalidateSpawned, SkipAttempt, BeginSpawn, SpawnCommand,
       SpawnFails, RecordRunning
  <2>2. CASE AttemptMonitorStep(a)
    BY <2>2 DEF AttemptMonitorStep, InvalidateLost, SettleExited, TimeOutAttempt, AbortAttempt,
       EndTermination, BeginTermination, FinishAttempt
  <2>3. CASE ExitCommand(a) \/ RecoverAttempt(a)
    BY <2>3 DEF ExitCommand, RecoverAttempt
  <2> QED
    BY <2>1, <2>2, <2>3
<1> QED
  BY <1>1, <1>2 DEF Moves, OneStarting, TaskRunMove, JobRunMove, AttemptMove, PollMove, NoFault, jobPolls

LEMMA FaultsMove ==
  ASSUME TypeOK, OneStarting, WriteFails \/ ServerStep
  PROVE  Moves
<1> USE BoundAssumption DEF TypeOK, OneStarting, Moves, TaskRunMove, JobRunMove, AttemptMove, PollMove,
            NoFault, rows, jobPolls, world
<1>1. CASE JobRunWriteFails
  BY <1>1 DEF JobRunWriteFails, CountError
<1>2. ASSUME NEW a \in AttemptIds, SpawnWriteFails(a) \/ MonitorWriteFails(a) PROVE Moves
  BY <1>2 DEF SpawnWriteFails, MonitorWriteFails, CountError
<1>3. CASE Crash \/ Shutdown
  BY <1>3 DEF Crash, Shutdown, LoseMemory
<1>4. CASE Restart \/ FinishRecovery
  BY <1>4 DEF Restart, FinishRecovery
<1> QED
  BY <1>1, <1>2, <1>3, <1>4 DEF WriteFails, ServerStep

LEMMA SelectMoves ==
  ASSUME OneStarting, SelectScheduled
  PROVE  Moves
BY DEF SelectScheduled, OneStarting, Moves, TaskRunMove, JobRunMove, AttemptMove, PollMove, NoFault,
   rows, world

LEMMA EveryStepMoves ==
  ASSUME AttemptInv, JobRunInv, OneStarting, Early, [Next]_vars
  PROVE  Moves
<1>1. TypeOK
  BY DEF AttemptInv
<1>2. CASE UNCHANGED vars
  BY <1>2, StillMoves DEF vars, rows, world, NoFault
<1>3. CASE Next
  BY <1>1, <1>3, FrontendMoves, ReleaserMoves, DispatcherMoves, MonitorMoves, TaskServicesMove,
     AttemptServicesMove, FaultsMove, SelectMoves DEF Next
<1> QED
  BY <1>2, <1>3

-----------------------------------------------------------------------------
(* Each part of RowInv is kept by such a move.                             *)

\* What the verdict of a run says of its task runs.
LEMMA VerdictTells ==
  ASSUME NEW s \in SUBSET FinishedTaskRun
  PROVE  /\ JobRunVerdict(s) \in {"Succeeded", "Failed", "TimedOut", "Invalid", "Aborted"}
         /\ JobRunVerdict(s) = "Succeeded" => s \subseteq {"Succeeded"}
         /\ JobRunVerdict(s) = "Aborted" => s \subseteq Stopped \cup {"Succeeded"}
         /\ \A v \in {"Failed", "TimedOut", "Invalid"} : JobRunVerdict(s) = v => v \in s
BY DEF JobRunVerdict, FinishedTaskRun, Stopped

\* The statuses a settled run is judged by.
LEMMA VerdictRows ==
  ASSUME NEW r \in JobRuns, AllFinished(r)
  PROVE  {taskRun[tr] : tr \in TaskRunRows(r)} \in SUBSET FinishedTaskRun
BY DEF AllFinished

LEMMA JobRunTypes ==
  ASSUME JobRunInv
  PROVE  /\ jobRun \in [JobRuns -> JobRunStatus \cup {"None"}]
         /\ taskRun \in [TaskRuns -> TaskRunStatus \cup {"None"}]
BY DEF JobRunInv, TypeOK

LEMMA EarlyKept ==
  ASSUME JobRunInv, JobRunInv', Early, Moves
  PROVE  Early'
<1> SUFFICES ASSUME NEW tr \in TaskRuns
             PROVE  /\ jobRun'[JobRunOf[tr]] = "None" => taskRun'[tr] = "None"
                    /\ \/ jobRun'[JobRunOf[tr]] \in {"Scheduled", "Skipped", "Deleted"}
                       \/ JobRunOf[tr] \in cancelling' \cup skipping'
                       => taskRun'[tr] \in NotStarted
  BY DEF Early
<1> DEFINE r == JobRunOf[tr]
<1>1. r \in JobRuns /\ tr \in TasksOf(r)
  BY RowAssumption DEF TasksOf
<1>2. TaskRunMove(tr) /\ JobRunMove(r)
  BY <1>1 DEF Moves
<1>3. AllFinished(r) =>
        JobRunVerdict({taskRun[x] : x \in TaskRunRows(r)}) \notin {"None", "Scheduled", "Skipped", "Deleted"}
  BY <1>1, VerdictRows, VerdictTells
<1>4. /\ jobRun[r] = "None" => taskRun[tr] = "None"
      /\ jobRun[r] \in {"Scheduled", "Skipped", "Deleted"} \/ r \in cancelling \cup skipping
           => taskRun[tr] \in NotStarted
  BY DEF Early
<1>5. jobRun'[r] = "None" => taskRun'[tr] = "None"
  <2> SUFFICES ASSUME jobRun'[r] = "None" PROVE taskRun'[tr] = "None"
    OBVIOUS
  <2>1. jobRun[r] = "None"
    BY <1>2, <1>3 DEF JobRunMove
  <2> QED
    BY <1>2, <1>4, <2>1 DEF TaskRunMove
<1>6. ASSUME jobRun'[r] \in {"Scheduled", "Skipped", "Deleted"} PROVE taskRun'[tr] \in NotStarted
  <2>1. CASE jobRun'[r] = jobRun[r]
    BY <1>2, <1>4, <1>6, <2>1 DEF TaskRunMove, NotStarted
  <2>2. CASE jobRun[r] = "None"
    BY <1>2, <1>4, <1>6, <2>2 DEF TaskRunMove, NotStarted
  <2>3. CASE jobRun[r] = "Scheduled" /\ jobRun'[r] = "Deleted"
    BY <1>2, <1>4, <2>3 DEF TaskRunMove, NotStarted
  <2>4. CASE taskRun' = taskRun /\ r \in cancelling \cup skipping
    BY <1>4, <2>4
  <2> QED
    BY <1>2, <1>3, <1>6, <2>1, <2>2, <2>3, <2>4 DEF JobRunMove
<1>7. ASSUME r \in cancelling' \cup skipping' PROVE taskRun'[tr] \in NotStarted
  <2>1. CASE r \in cancelling \cup skipping
    <3>1. ~(jobRun[r] = "Queued" /\ jobRun'[r] = "Queued" /\ starting' = {r})
      <4>1. jobRun'[r] = "Queued" => r \in skipping'
        BY <1>7 DEF JobRunInv, PollerMemory, ReleaserMemory
      <4>2. r \in starting' => r \notin skipping'
        BY DEF JobRunInv, PollerMemory, DispatcherMemory
      <4> QED
        BY <4>1, <4>2
    <3> QED
      BY <1>2, <1>4, <2>1, <3>1 DEF TaskRunMove, NotStarted
  <2>2. CASE r \notin cancelling \cup skipping
    BY <1>1, <1>7, <2>2 DEF Moves, PollMove, NotStarted
  <2> QED
    BY <2>1, <2>2
<1> QED
  BY <1>5, <1>6, <1>7

LEMMA GateKept ==
  ASSUME JobRunInv, Early, Gate, Moves
  PROVE  Gate'
<1> SUFFICES ASSUME NEW tr \in TaskRuns,
                    taskRun'[tr] = "Running" \/ \E n \in AttemptNumbers : attempt'[<<tr, n>>] # "None"
             PROVE  DependenciesMet(tr)'
  BY DEF Gate
<1>1. DependenciesMet(tr)
  <2>1. ASSUME taskRun'[tr] = "Running" PROVE DependenciesMet(tr)
    <3>1. taskRun[tr] = "Running" \/ AllDependenciesSucceeded(tr)
      BY <2>1 DEF Moves, TaskRunMove, FinishedTaskRun
    <3> QED
      BY <3>1 DEF Gate, AllDependenciesSucceeded, DependenciesMet
  <2>2. ASSUME NEW n \in AttemptNumbers, attempt'[<<tr, n>>] # "None" PROVE DependenciesMet(tr)
    <3>1. <<tr, n>> \in AttemptIds
      BY DEF AttemptIds
    <3>2. AttemptMove(<<tr, n>>)
      BY <3>1 DEF Moves
    <3>3. attempt[<<tr, n>>] # "None" \/ taskRun[tr] = "Running"
      BY <2>2, <3>2 DEF AttemptMove, UnfinishedAttempt
    <3> QED
      BY <3>3 DEF Gate
  <2> QED
    BY <2>1, <2>2
<1>2. ASSUME NEW d \in DependsOn[tr]
      PROVE  taskRun'[d] = "Succeeded" \/ (taskRun'[d] = "Skipped" /\ JobRunOf[d] \in stopRow')
  <2>1. d \in TaskRuns
    BY RowAssumption
  <2>2. taskRun[d] = "Succeeded" \/ (taskRun[d] = "Skipped" /\ JobRunOf[d] \in stopRow)
    BY <1>1 DEF DependenciesMet
  <2>3. TaskRunMove(d) /\ stopRow \subseteq stopRow'
    BY <2>1 DEF Moves
  <2>4. taskRun[d] = "Succeeded" => jobRun[JobRunOf[d]] \notin {"Scheduled", "Deleted"}
    BY <2>1 DEF Early, NotStarted
  <2> QED
    BY <2>2, <2>3, <2>4 DEF TaskRunMove
<1> QED
  BY <1>2 DEF DependenciesMet

LEMMA WholeKept ==
  ASSUME JobRunInv, JobRunInv', Whole, Moves
  PROVE  Whole'
<1> SUFFICES ASSUME NEW tr \in TaskRuns, JobRunOf[tr] \notin Piecemeal
             PROVE  /\ jobRun'[JobRunOf[tr]] # "None" => taskRun'[tr] # "None"
                    /\ JobRunOf[tr] \in cancelling' \cup skipping' => taskRun'[tr] = "Skipped"
  BY DEF Whole
<1> DEFINE r == JobRunOf[tr]
<1>1. r \in JobRuns /\ tr \in TasksOf(r)
  BY RowAssumption DEF TasksOf
<1>2. TaskRunMove(tr) /\ JobRunMove(r)
  BY <1>1 DEF Moves
<1>3. /\ jobRun[r] # "None" => taskRun[tr] # "None"
      /\ r \in cancelling \cup skipping => taskRun[tr] = "Skipped"
  BY DEF Whole
<1>4. ASSUME jobRun'[r] # "None" PROVE taskRun'[tr] # "None"
  <2>1. CASE jobRun[r] # "None"
    BY <1>2, <1>3, <2>1 DEF TaskRunMove, FinishedTaskRun
  <2>2. CASE jobRun[r] = "None"
    <3>1. r \notin cancelling \cup skipping
      BY <2>2 DEF JobRunInv, PollerMemory, ReleaserMemory, DispatcherMemory
    <3>2. \A x \in TasksOf(r) : taskRun'[x] = "Planned"
      BY <1>2, <1>4, <2>2, <3>1 DEF JobRunMove
    <3> QED
      BY <1>1, <3>2
  <2> QED
    BY <2>1, <2>2
<1>5. ASSUME r \in cancelling' \cup skipping' PROVE taskRun'[tr] = "Skipped"
  <2>1. CASE r \in cancelling \cup skipping
    BY <1>2, <1>3, <2>1 DEF TaskRunMove
  <2>2. CASE r \notin cancelling \cup skipping
    <3>1. jobRun'[r] \in {"Scheduled", "Deleted", "Queued"}
      BY <1>5 DEF JobRunInv, PollerMemory, ReleaserMemory, DispatcherMemory
    <3>2. /\ jobRun'[r] = jobRun[r]
          /\ taskRun'[tr] = IF taskRun[tr] = "None" THEN "None" ELSE "Skipped"
      BY <1>1, <1>5, <2>2 DEF Moves, PollMove
    <3> QED
      BY <1>3, <3>1, <3>2
  <2> QED
    BY <2>1, <2>2
<1> QED
  BY <1>4, <1>5

LEMMA SettledKept ==
  ASSUME JobRunInv, Early, Settled, Moves
  PROVE  Settled'
<1> SUFFICES ASSUME NEW tr \in TaskRuns, jobRun'[JobRunOf[tr]] \in FinishedJobRun
             PROVE  taskRun'[tr] \notin {"Waiting", "Running"}
  BY DEF Settled
<1> DEFINE r == JobRunOf[tr]
<1>1. r \in JobRuns /\ tr \in TasksOf(r)
  BY RowAssumption DEF TasksOf
<1>2. TaskRunMove(tr) /\ JobRunMove(r)
  BY <1>1 DEF Moves
<1>3. CASE jobRun[r] \in FinishedJobRun
  BY <1>2, <1>3 DEF TaskRunMove, Settled, FinishedJobRun, FinishedTaskRun
<1>4. CASE jobRun[r] = "Scheduled" /\ jobRun'[r] = "Deleted"
  BY <1>2, <1>4 DEF TaskRunMove, Early, NotStarted, FinishedTaskRun
<1>5. CASE taskRun' = taskRun /\ r \in cancelling \cup skipping
  BY <1>5 DEF Early, NotStarted
<1>6. CASE taskRun' = taskRun /\ AllFinished(r)
  BY <1>1, <1>6 DEF AllFinished, TaskRunRows, FinishedTaskRun
<1> QED
  BY <1>2, <1>3, <1>4, <1>5, <1>6 DEF JobRunMove, FinishedJobRun

LEMMA ReleasedKept ==
  ASSUME JobRunInv, Early, Released, Moves
  PROVE  Released'
<1> SUFFICES ASSUME NoFault', NEW tr \in TaskRuns,
                    jobRun'[JobRunOf[tr]] = "Queued", JobRunOf[tr] \notin starting'
             PROVE  taskRun'[tr] \in NotStarted
  BY DEF Released
<1> DEFINE r == JobRunOf[tr]
<1>1. r \in JobRuns /\ TaskRunMove(tr) /\ JobRunMove(r)
  BY RowAssumption DEF Moves
<1>2. NoFault /\ (r \in starting => r \in starting')
  BY DEF Moves, PollMove
<1>3. CASE jobRun[r] = "Queued"
  <2>1. taskRun[tr] \in NotStarted
    BY <1>2, <1>3 DEF Released
  <2> QED
    BY <1>1, <2>1 DEF TaskRunMove, NotStarted
<1>4. CASE jobRun[r] \in {"Scheduled", "Deleted"} /\ taskRun' = taskRun
  BY <1>4 DEF Early
<1>5. AllFinished(r) => JobRunVerdict({taskRun[x] : x \in TaskRunRows(r)}) # "Queued"
  BY <1>1, VerdictRows, VerdictTells
<1> QED
  BY <1>1, <1>3, <1>4, <1>5 DEF JobRunMove

LEMMA OwnedKept ==
  ASSUME JobRunInv, AttemptInv, Early, Released, Owned, Moves
  PROVE  Owned'
<1> SUFFICES ASSUME NoFault', NEW a \in AttemptIds, attempt'[a] \in UnfinishedAttempt
             PROVE  taskRun'[a[1]] = "Running"
  BY DEF Owned
<1>1. a[1] \in TaskRuns /\ a[2] \in AttemptNumbers /\ a = <<a[1], a[2]>>
  BY DEF AttemptIds
<1>2. AttemptMove(a) /\ TaskRunMove(a[1]) /\ NoFault
  BY <1>1 DEF Moves, PollMove
<1>3. CASE taskRun' = taskRun /\ (attempt[a] \in UnfinishedAttempt \/ taskRun[a[1]] = "Running")
  BY <1>2, <1>3 DEF Owned
<1>4. CASE attempt'[a] = attempt[a]
  <2>1. attempt[a] \in UnfinishedAttempt /\ taskRun[a[1]] = "Running"
    BY <1>2, <1>4 DEF Owned
  <2>2. ~(\A n \in AttemptNumbers : attempt[<<a[1], n>>] \notin UnfinishedAttempt)
    BY <1>1, <2>1
  <2>3. jobRun[JobRunOf[a[1]]] \notin {"Scheduled", "Deleted"}
    BY <1>1, <2>1 DEF Early, NotStarted
  <2>4. ~(jobRun[JobRunOf[a[1]]] = "Queued" /\ starting = {})
    BY <1>1, <1>2, <2>1 DEF Released, NotStarted
  <2> QED
    BY <1>2, <2>1, <2>2, <2>3, <2>4 DEF TaskRunMove
<1> QED
  BY <1>2, <1>3, <1>4 DEF AttemptMove

\* What SettledRunIsWhole says of one run.
WholeRun(r) ==
  jobRun[r] \in FinishedJobRun =>
    /\ \A tr \in TasksOf(r) : taskRun[tr] \in FinishedTaskRun
    /\ jobRun[r] = "Succeeded" => \A tr \in TasksOf(r) : taskRun[tr] = "Succeeded"
    /\ jobRun[r] = "Aborted" => \A tr \in TasksOf(r) : taskRun[tr] \in Stopped \cup {"Succeeded"}
    /\ \A s \in {"Failed", "TimedOut", "Invalid"} :
         jobRun[r] = s => \E tr \in TasksOf(r) : taskRun[tr] = s
    /\ jobRun[r] \in {"Skipped", "Deleted"} => \A tr \in TasksOf(r) : taskRun[tr] = "Skipped"

LEMMA SettledRunIsWholeKept ==
  ASSUME JobRunInv, Whole, SettledRunIsWhole, Moves
  PROVE  SettledRunIsWhole'
<1> SUFFICES ASSUME NEW r \in JobRuns \ Piecemeal PROVE WholeRun(r)'
  BY DEF SettledRunIsWhole, WholeRun
<1>1. JobRunMove(r) /\ WholeRun(r) /\ \A tr \in TasksOf(r) : tr \in TaskRuns /\ TaskRunMove(tr)
  BY DEF Moves, SettledRunIsWhole, WholeRun, TasksOf
<1>2. jobRun[r] # "None" => TaskRunRows(r) = TasksOf(r)
  BY DEF Whole, TaskRunRows, TasksOf
<1>3. r \in cancelling \cup skipping => \A tr \in TasksOf(r) : taskRun[tr] = "Skipped"
  BY DEF Whole, TasksOf
<1>4. CASE jobRun[r] \in FinishedJobRun
  <2>1. \A tr \in TasksOf(r) : taskRun'[tr] = taskRun[tr]
    <3> SUFFICES ASSUME NEW tr \in TasksOf(r) PROVE taskRun'[tr] = taskRun[tr]
      OBVIOUS
    <3>1. JobRunOf[tr] = r /\ TaskRunMove(tr)
      BY <1>1 DEF TasksOf
    <3>2. taskRun[tr] \in FinishedTaskRun /\ (jobRun[r] = "Deleted" => taskRun[tr] = "Skipped")
      BY <1>1, <1>4 DEF WholeRun
    <3> QED
      BY <1>4, <3>1, <3>2 DEF TaskRunMove, FinishedJobRun, FinishedTaskRun
  <2>2. \/ jobRun'[r] = jobRun[r]
        \/ jobRun[r] = "Deleted" /\ jobRun'[r] \in {"Queued", "Skipped"}
    BY <1>1, <1>4 DEF JobRunMove, JobRunInv, PollerMemory, ReleaserMemory, DispatcherMemory,
       FinishedJobRun
  <2>3. CASE jobRun'[r] = jobRun[r]
    BY <1>1, <2>1, <2>3 DEF WholeRun
  <2>4. CASE jobRun[r] = "Deleted" /\ jobRun'[r] \in {"Queued", "Skipped"}
    BY <1>1, <1>4, <2>1, <2>4 DEF WholeRun, FinishedJobRun, FinishedTaskRun
  <2> QED
    BY <2>2, <2>3, <2>4
<1>5. CASE jobRun[r] = "Scheduled" /\ jobRun'[r] = "Deleted"
  <2>1. \A tr \in TasksOf(r) : taskRun'[tr] = "Skipped"
    <3>1. \A tr \in TasksOf(r) : taskRun[tr] # "None" => taskRun'[tr] = "Skipped"
      BY <1>1, <1>5 DEF JobRunMove, JobRunInv, PollerMemory, DispatcherMemory
    <3> QED
      BY <1>2, <1>5, <3>1 DEF TaskRunRows
  <2> QED
    BY <1>5, <2>1 DEF WholeRun, FinishedTaskRun
<1>6. CASE taskRun' = taskRun /\ r \in cancelling \cup skipping /\ jobRun'[r] = "Skipped"
  BY <1>3, <1>6 DEF WholeRun, FinishedTaskRun
<1>7. CASE /\ taskRun' = taskRun /\ jobRun[r] = "Running" /\ AllFinished(r)
           /\ jobRun'[r] = JobRunVerdict({taskRun[tr] : tr \in TaskRunRows(r)})
  <2>1. PICK s \in SUBSET FinishedTaskRun :
          s = {taskRun[tr] : tr \in TasksOf(r)} /\ jobRun'[r] = JobRunVerdict(s)
    BY <1>2, <1>7, VerdictRows
  <2>2. \A tr \in TasksOf(r) : taskRun'[tr] \in s
    BY <1>7, <2>1
  <2>3. \A v \in s : \E tr \in TasksOf(r) : taskRun'[tr] = v
    BY <1>7, <2>1
  <2>4. /\ jobRun'[r] \in {"Succeeded", "Failed", "TimedOut", "Invalid", "Aborted"}
        /\ jobRun'[r] = "Succeeded" => s \subseteq {"Succeeded"}
        /\ jobRun'[r] = "Aborted" => s \subseteq Stopped \cup {"Succeeded"}
        /\ \A v \in {"Failed", "TimedOut", "Invalid"} : jobRun'[r] = v => v \in s
    BY <2>1, VerdictTells
  <2> QED
    BY <2>2, <2>3, <2>4 DEF WholeRun
<1>8. CASE jobRun'[r] \notin FinishedJobRun
  BY <1>8 DEF WholeRun
<1> QED
  BY <1>1, <1>4, <1>5, <1>6, <1>7, <1>8 DEF JobRunMove, FinishedJobRun

LEMMA RowInvariant == Spec => []RowInv
<1>1. Init => RowInv
  <2> SUFFICES ASSUME Init PROVE RowInv
    OBVIOUS
  <2>1. \A tr \in TaskRuns : JobRunOf[tr] \in JobRuns /\ taskRun[tr] = "None"
    BY RowAssumption DEF Init
  <2>2. \A tr \in TaskRuns : jobRun[JobRunOf[tr]] = "None"
    BY <2>1 DEF Init
  <2>3. Early /\ OneStarting /\ Whole
    BY <2>1, <2>2 DEF Init, Early, OneStarting, Whole, NotStarted
  <2>4. Gate /\ Settled /\ Released /\ Owned
    BY <2>1, <2>2 DEF Init, Gate, Settled, Released, Owned, AttemptIds, UnfinishedAttempt, FinishedJobRun
  <2>5. SettledRunIsWhole
    BY DEF Init, SettledRunIsWhole, FinishedJobRun
  <2> QED
    BY <2>3, <2>4, <2>5 DEF RowInv
<1>2. RowInv /\ JobRunInv /\ JobRunInv' /\ AttemptInv /\ [Next]_vars => RowInv'
  BY EveryStepMoves, EarlyKept, GateKept, WholeKept, SettledKept, ReleasedKept, OwnedKept,
     SettledRunIsWholeKept DEF RowInv, Moves
<1> QED
  BY <1>1, <1>2, JobRunInvariant, AttemptInvariant, PTL DEF Spec

-----------------------------------------------------------------------------
\* A job run that was submitted whole and has settled has no task run left to move,
\* and its status is their verdict, through every crash, failed write and delete.
THEOREM SettledRunsAreWhole == Spec => []SettledRunIsWhole
<1>1. RowInv => SettledRunIsWhole
  BY DEF RowInv
<1> QED
  BY <1>1, RowInvariant, PTL

\* With no crash and no failed write, the unconditional write of skip_job_run never
\* meets a task run that finished otherwise.
THEOREM TaskRunsSettle == Spec => TaskRunsSettleForGood
<1>1. JobRunInv /\ AttemptInv /\ RowInv /\ [Next]_vars =>
        [errors' = 0 /\ restarts' = 0 =>
           \A tr \in TaskRuns : taskRun[tr] \in FinishedTaskRun => taskRun'[tr] = taskRun[tr]]_vars
  <2> SUFFICES ASSUME JobRunInv, AttemptInv, RowInv, [Next]_vars, NoFault',
                      NEW tr \in TaskRuns, taskRun[tr] \in FinishedTaskRun
               PROVE  taskRun'[tr] = taskRun[tr]
    BY DEF NoFault
  <2>1. TaskRunMove(tr) /\ NoFault
    BY EveryStepMoves DEF RowInv, Moves, PollMove
  <2>2. jobRun[JobRunOf[tr]] \in {"Scheduled", "Deleted"} => taskRun[tr] = "Skipped"
    BY DEF RowInv, Early, NotStarted, FinishedTaskRun
  <2>3. jobRun[JobRunOf[tr]] = "Queued" /\ starting = {} => taskRun[tr] = "Skipped"
    BY <2>1 DEF RowInv, Released, NotStarted, FinishedTaskRun
  <2> QED
    BY <2>1, <2>2, <2>3 DEF TaskRunMove, FinishedTaskRun
<1> QED
  BY <1>1, JobRunInvariant, AttemptInvariant, RowInvariant, PTL DEF Spec, TaskRunsSettleForGood

-----------------------------------------------------------------------------
(* From the rows to the commands.                                          *)

\* A command that was ever spawned is still known, however it ended.
Begun == \A a \in AttemptIds : spawns[a] > 0 => process[a] # "none"
\* Without a fault the server is up, a command runs only for an attempt that has
\* yet to finish, and that of a Queued one is about to be recorded.
Live ==
  NoFault =>
    /\ server = "up"
    /\ \A a \in AttemptIds :
         /\ process[a] = "running" => attempt[a] \in UnfinishedAttempt
         /\ attempt[a] = "Queued" /\ process[a] # "none" => a \in launched
LiveInv == Begun /\ Live

LEMMA UnseenKeepsLive ==
  ASSUME LiveInv, UNCHANGED <<seen, spawns, restarts>>
  PROVE  LiveInv'
BY DEF LiveInv, Begun, Live, NoFault, seen

LEMMA ElsewhereUnseen ==
  /\ \A r \in JobRuns :
       FrontendStep(r) \/ JobRunReleaserStep(r) \/ JobRunDispatcherStep(r) \/ SettleJobRun(r)
         => UNCHANGED <<spawns, restarts>>
  /\ SelectScheduled => UNCHANGED <<spawns, restarts>>
  /\ \A tr \in TaskRuns :
       InsertTaskRun(tr) \/ TaskRunDispatcherStep(tr) \/ SettleTaskRun(tr)
         => UNCHANGED <<spawns, restarts>>
<1> USE DEF commands, world
<1>1. ASSUME NEW r \in JobRuns, FrontendStep(r) \/ SettleJobRun(r) PROVE UNCHANGED <<spawns, restarts>>
  BY <1>1 DEF FrontendStep, Submit, StopJobRun, DeleteJobRun, FallDue, SettleJobRun
<1>2. ASSUME NEW r \in JobRuns, JobRunReleaserStep(r) \/ JobRunDispatcherStep(r)
      PROVE  UNCHANGED <<spawns, restarts>>
  BY <1>2 DEF JobRunReleaserStep, ReleaseJobRun, LeaveScheduled, CancelJobRun, FinishCancel,
     JobRunDispatcherStep, SkipQueued, FinishSkip, ReleaseTaskRuns, SetJobRunRunning
<1>3. ASSUME NEW tr \in TaskRuns, InsertTaskRun(tr) \/ TaskRunDispatcherStep(tr) \/ SettleTaskRun(tr)
      PROVE  UNCHANGED <<spawns, restarts>>
  BY <1>3 DEF InsertTaskRun, TaskRunDispatcherStep, SkipTaskRun, StartTaskRun, SettleTaskRun
<1> QED
  BY <1>1, <1>2, <1>3 DEF SelectScheduled

LEMMA InsertKeepsLive ==
  ASSUME AttemptInv, CommandInv, LiveInv, NEW tr \in TaskRuns, StartFirstAttempt(tr) \/ RetryAttempt(tr)
  PROVE  LiveInv'
<1>1. PICK a \in AttemptIds :
        /\ attempt[a] = "None" /\ attempt' = [attempt EXCEPT ![a] = "Queued"]
        /\ UNCHANGED <<launched, process, spawns, server, restarts, errors>>
  <2>1. 1 \in AttemptNumbers
    BY BoundAssumption, RowAssumption DEF AttemptNumbers
  <2>2. CASE StartFirstAttempt(tr)
    BY <2>1, <2>2 DEF StartFirstAttempt, InsertAttempt, AttemptIds, attPolls, commands, world
  <2>3. CASE RetryAttempt(tr)
    <3>1. PICK n \in AttemptNumbers :
            IsLastAttempt(tr, n) /\ n + 1 \in AttemptNumbers /\ InsertAttempt(<<tr, n + 1>>)
      BY <2>3 DEF RetryAttempt
    <3>2. attempt[<<tr, n + 1>>] = "None"
      BY <3>1 DEF IsLastAttempt, AttemptNumbers
    <3> QED
      BY <3>1, <3>2 DEF InsertAttempt, AttemptIds, attPolls, commands, world
  <2> QED
    BY <2>2, <2>3
<1>2. \A b \in AttemptIds \ {a} : attempt'[b] = attempt[b]
  BY <1>1 DEF AttemptInv, TypeOK
<1>3. process[a] = "none"
  BY <1>1 DEF CommandInv, RowsTell
<1> QED
  BY <1>1, <1>2, <1>3 DEF LiveInv, Begun, Live, NoFault

LEMMA DispatcherKeepsLive ==
  ASSUME AttemptInv, LiveInv, NEW a \in AttemptIds, AttemptDispatcherStep(a)
  PROVE  LiveInv'
<1> USE DEF AttemptInv, SpawnMemory, TypeOK, LiveInv, Begun, Live, NoFault, UnfinishedAttempt,
            attPolls, commands, world, rows
<1>1. CASE InvalidateSpawned(a) \/ SkipAttempt(a)
  BY <1>1 DEF InvalidateSpawned, SkipAttempt, AttemptDispatcherIdle
<1>2. CASE BeginSpawn(a) \/ SpawnFails(a)
  BY <1>2 DEF BeginSpawn, SpawnFails
<1>3. CASE SpawnCommand(a)
  BY <1>3 DEF SpawnCommand
<1>4. CASE RecordRunning(a)
  BY <1>4 DEF RecordRunning
<1> QED
  BY <1>1, <1>2, <1>3, <1>4 DEF AttemptDispatcherStep

\* The monitor settles a Running attempt, and without a fault only with its command.
LEMMA SettlesLive ==
  ASSUME AttemptInv, LiveInv, NEW a \in AttemptIds, attempt[a] = "Running",
         NEW s \in FinishedAttempt, FinishAttempt(a, s),
         Killed(a) \/ UNCHANGED process, NoFault => process'[a] # "running"
  PROVE  LiveInv'
<1>1. /\ \A b \in AttemptIds \ {a} : attempt'[b] = attempt[b] /\ process'[b] = process[b]
      /\ attempt'[a] = s /\ UNCHANGED <<launched, spawns, server, restarts, errors>>
      /\ process[a] # "none" => process'[a] # "none"
  BY DEF FinishAttempt, Killed, AttemptInv, TypeOK, world
<1> QED
  BY <1>1 DEF LiveInv, Begun, Live, NoFault, FinishedAttempt

LEMMA MonitorKeepsLive ==
  ASSUME AttemptInv, CommandInv, LiveInv, NEW a \in AttemptIds, AttemptMonitorStep(a)
  PROVE  LiveInv'
<1> USE DEF FinishedAttempt
<1>1. Killed(a) => process'[a] # "running"
  BY DEF Killed, AttemptInv, TypeOK
<1>2. CASE InvalidateLost(a)
  <2>1. ~NoFault
    BY <1>2 DEF InvalidateLost, CommandInv, RunningHasCommand, NoFault
  <2> QED
    BY <1>2, <2>1, SettlesLive DEF InvalidateLost
<1>3. CASE SettleExited(a)
  BY <1>3, SettlesLive DEF SettleExited
<1>4. ASSUME NEW s \in {"TimedOut", "Aborted"}, attempt[a] = "Running", BeginTermination(a, s)
      PROVE  LiveInv'
  <2>1. CASE KillGrace
    BY <1>4, <2>1 DEF BeginTermination, LiveInv, Begun, Live, NoFault, rows, commands, world
  <2>2. CASE ~KillGrace
    BY <1>1, <1>4, <2>2, SettlesLive DEF BeginTermination
  <2> QED
    BY <2>1, <2>2
<1>5. CASE TimeOutAttempt(a) \/ AbortAttempt(a)
  BY <1>4, <1>5 DEF TimeOutAttempt, AbortAttempt
<1>6. CASE EndTermination(a)
  BY <1>1, <1>6, SettlesLive DEF EndTermination
<1> QED
  BY <1>2, <1>3, <1>5, <1>6 DEF AttemptMonitorStep

LEMMA WorldKeepsLive ==
  ASSUME AttemptInv, LiveInv,
         WriteFails \/ ServerStep \/ \E a \in AttemptIds : ExitCommand(a) \/ RecoverAttempt(a)
  PROVE  LiveInv'
<1> USE DEF AttemptInv, TypeOK, LiveInv, Begun, Live, NoFault, rows, attPolls, commands, world
<1>1. ASSUME CountError PROVE errors' # 0
  BY <1>1, BoundAssumption DEF CountError
<1>2. CASE JobRunWriteFails
  BY <1>1, <1>2 DEF JobRunWriteFails
<1>3. ASSUME NEW a \in AttemptIds, SpawnWriteFails(a) \/ MonitorWriteFails(a) PROVE LiveInv'
  BY <1>1, <1>3 DEF SpawnWriteFails, MonitorWriteFails, Killed
<1>4. CASE Crash \/ Shutdown
  BY <1>4, BoundAssumption DEF Crash, Shutdown, LoseMemory
<1>5. CASE Restart \/ FinishRecovery
  BY <1>5 DEF Restart, FinishRecovery
<1>6. ASSUME NEW a \in AttemptIds, ExitCommand(a) PROVE LiveInv'
  BY <1>6 DEF ExitCommand
<1>7. ASSUME NEW a \in AttemptIds, RecoverAttempt(a) PROVE LiveInv'
  BY <1>7 DEF RecoverAttempt, KillOrphan, Killed
<1> QED
  BY <1>2, <1>3, <1>4, <1>5, <1>6, <1>7 DEF WriteFails, ServerStep

LEMMA LiveInvariant == Spec => []LiveInv
<1>1. Init => LiveInv
  BY DEF Init, LiveInv, Begun, Live
<1>2. AttemptInv /\ CommandInv /\ LiveInv /\ [Next]_vars => LiveInv'
  <2> SUFFICES ASSUME AttemptInv, CommandInv, LiveInv, [Next]_vars PROVE LiveInv'
    OBVIOUS
  <2>1. CASE UNCHANGED vars
    BY <2>1, UnseenKeepsLive DEF vars, seen, rows, attPolls, commands, world
  <2>2. ASSUME NEW tr \in TaskRuns, TaskRunMonitorStep(tr) PROVE LiveInv'
    BY <2>2, InsertKeepsLive, SeenElsewhere, ElsewhereUnseen, UnseenKeepsLive DEF TaskRunMonitorStep
  <2> QED
    BY <2>1, <2>2, SeenElsewhere, ElsewhereUnseen, UnseenKeepsLive, DispatcherKeepsLive,
       MonitorKeepsLive, WorldKeepsLive DEF Next
<1> QED
  BY <1>1, <1>2, AttemptInvariant, CommandInvariant, PTL DEF Spec

\* No command of a task run is ever spawned before every task run it depends on has
\* succeeded, whatever crashes or stops come between.
THEOREM DependenciesComeFirst == Spec => []DependenciesFirst
<1>1. AttemptInv /\ CommandInv /\ RowInv /\ LiveInv => DependenciesFirst
  <2> SUFFICES ASSUME AttemptInv, CommandInv, RowInv, LiveInv, NEW a \in AttemptIds, spawns[a] > 0
               PROVE  DependenciesMet(a[1])
    BY DEF DependenciesFirst, DependenciesMet
  <2>1. attempt[a] # "None"
    BY DEF LiveInv, Begun, CommandInv, RowsTell
  <2>2. a[1] \in TaskRuns /\ a[2] \in AttemptNumbers /\ a = <<a[1], a[2]>>
    BY DEF AttemptIds
  <2>3. \E n \in AttemptNumbers : attempt[<<a[1], n>>] # "None"
    BY <2>1, <2>2
  <2> QED
    BY <2>2, <2>3 DEF RowInv, Gate
<1> QED
  BY <1>1, AttemptInvariant, CommandInvariant, RowInvariant, LiveInvariant, PTL

\* With no crash and no failed write, a settled job run leaves no attempt unfinished
\* and no command running.
THEOREM SettledIsQuiet == Spec => []QuietWhenSettled
<1>1. RowInv /\ LiveInv => QuietWhenSettled
  <2> SUFFICES ASSUME RowInv, LiveInv, NoFault, NEW a \in AttemptIds,
                      jobRun[JobRunOf[a[1]]] \in FinishedJobRun
               PROVE  attempt[a] \notin UnfinishedAttempt /\ process[a] # "running"
    BY DEF QuietWhenSettled, NoFault
  <2>1. taskRun[a[1]] # "Running"
    BY DEF RowInv, Settled, AttemptIds
  <2>2. attempt[a] \notin UnfinishedAttempt
    BY <2>1 DEF RowInv, Owned
  <2> QED
    BY <2>2 DEF LiveInv, Live
<1> QED
  BY <1>1, RowInvariant, LiveInvariant, PTL

-----------------------------------------------------------------------------
(* The lifecycle of a job run that nobody may delete.                      *)

\* A task run of the job run failed of itself.
Broken(r) == \E x \in TasksOf(r) : taskRun[x] \in {"Failed", "TimedOut", "Invalid"}
\* What is skipped or aborted goes back to a stop, or to a failure beside it.
StopCause ==
  /\ cancelling \cup skipping \subseteq stopRow
  /\ \A a \in AttemptIds :
       attempt[a] \in Stopped \/ children[a] = "Aborted" => JobRunOf[a[1]] \in stopRow
  /\ \A tr \in TaskRuns :
       taskRun[tr] \in Stopped => JobRunOf[tr] \in stopRow \/ Broken(JobRunOf[tr])
NoneDeleted == \A r \in JobRuns : jobRun[r] # "Deleted"

\* A step writes an attempt, or decides how it ends, as stopped only for a stop.
StopsForACause ==
  \A a \in AttemptIds :
    attempt'[a] \in Stopped \/ children'[a] = "Aborted" => JobRunOf[a[1]] \in stopRow
LEMMA AttemptsStopForACause ==
  ASSUME AttemptInv, StopCause, [Next]_vars
  PROVE  StopsForACause
<1> USE DEF AttemptInv, TypeOK, Stopped, StopsForACause
<1>1. ASSUME UNCHANGED <<attempt, children>> PROVE StopsForACause
  BY <1>1 DEF StopCause
<1>2. CASE UNCHANGED vars
  BY <1>1, <1>2 DEF vars, rows, attPolls
<1>3. ASSUME NEW r \in JobRuns,
             FrontendStep(r) \/ JobRunReleaserStep(r) \/ JobRunDispatcherStep(r) \/ SettleJobRun(r)
      PROVE  StopsForACause
  BY <1>1, <1>3, SeenElsewhere DEF seen
<1>4. ASSUME NEW tr \in TaskRuns,
             InsertTaskRun(tr) \/ TaskRunDispatcherStep(tr) \/ SettleTaskRun(tr)
      PROVE  StopsForACause
  BY <1>1, <1>4, SeenElsewhere DEF seen
<1>5. ASSUME NEW tr \in TaskRuns, StartFirstAttempt(tr) \/ RetryAttempt(tr) PROVE StopsForACause
  BY <1>5 DEF StartFirstAttempt, RetryAttempt, InsertAttempt, StopCause, attPolls
<1>6. ASSUME NEW a \in AttemptIds, AttemptDispatcherStep(a) PROVE StopsForACause
  <2>1. CASE InvalidateSpawned(a) \/ SkipAttempt(a)
    BY <2>1 DEF InvalidateSpawned, SkipAttempt, IsStopped, StopCause, attPolls
  <2>2. CASE BeginSpawn(a) \/ SpawnFails(a)
    BY <1>1, <2>2 DEF BeginSpawn, SpawnFails
  <2>3. CASE SpawnCommand(a) \/ RecordRunning(a)
    BY <2>3 DEF SpawnCommand, RecordRunning, StopCause, rows
  <2> QED
    BY <1>6, <2>1, <2>2, <2>3 DEF AttemptDispatcherStep
<1>7. ASSUME NEW a \in AttemptIds, NEW s \in FinishedAttempt, FinishAttempt(a, s),
             s \in Stopped => JobRunOf[a[1]] \in stopRow
      PROVE  StopsForACause
  BY <1>7 DEF FinishAttempt, StopCause
<1>8. ASSUME NEW a \in AttemptIds, AttemptMonitorStep(a) PROVE StopsForACause
  <2>1. ASSUME NEW s \in {"TimedOut", "Aborted"}, BeginTermination(a, s),
               s = "Aborted" => JobRunOf[a[1]] \in stopRow
        PROVE  StopsForACause
    <3>1. CASE KillGrace
      BY <2>1, <3>1 DEF BeginTermination, StopCause, rows
    <3>2. CASE ~KillGrace
      BY <1>7, <2>1, <3>2 DEF BeginTermination, FinishedAttempt
    <3> QED
      BY <3>1, <3>2
  <2>2. CASE InvalidateLost(a) \/ SettleExited(a)
    BY <1>7, <2>2 DEF InvalidateLost, SettleExited, FinishedAttempt
  <2>3. CASE TimeOutAttempt(a) \/ AbortAttempt(a)
    BY <2>1, <2>3 DEF TimeOutAttempt, AbortAttempt, IsStopped
  <2>4. CASE EndTermination(a)
    BY <1>7, <2>4 DEF EndTermination, FinishedAttempt, StopCause
  <2> QED
    BY <1>8, <2>2, <2>3, <2>4 DEF AttemptMonitorStep
<1>9. ASSUME NEW a \in AttemptIds, ExitCommand(a) \/ RecoverAttempt(a) PROVE StopsForACause
  BY <1>9 DEF ExitCommand, RecoverAttempt, StopCause, rows, attPolls
<1>10. CASE WriteFails
  <2>1. UNCHANGED attempt /\ \A a \in AttemptIds : children'[a] \in {children[a], "absent"}
    BY <1>10 DEF WriteFails, JobRunWriteFails, SpawnWriteFails, MonitorWriteFails, rows, attPolls
  <2> QED
    BY <2>1 DEF StopCause
<1>11. CASE ServerStep
  <2>1. UNCHANGED attempt /\ \A a \in AttemptIds : children'[a] \in {children[a], "absent"}
    BY <1>11 DEF ServerStep, Crash, Shutdown, LoseMemory, Restart, FinishRecovery, rows, attPolls
  <2> QED
    BY <2>1 DEF StopCause
<1>12. CASE SelectScheduled
  BY <1>1, <1>12 DEF SelectScheduled, rows, attPolls
<1> QED
  BY <1>2, <1>3, <1>4, <1>5, <1>6, <1>8, <1>9, <1>10, <1>11, <1>12 DEF Next, TaskRunMonitorStep

LEMMA NoneDeletedKept ==
  ASSUME Deletable = {}, JobRunInv, NoneDeleted, Moves
  PROVE  NoneDeleted'
<1> SUFFICES ASSUME NEW r \in JobRuns PROVE jobRun'[r] # "Deleted"
  BY DEF NoneDeleted
<1>1. AllFinished(r) => JobRunVerdict({taskRun[x] : x \in TaskRunRows(r)}) # "Deleted"
  BY VerdictRows, VerdictTells
<1> QED
  BY <1>1 DEF NoneDeleted, Moves, JobRunMove

LEMMA StopCauseKept ==
  ASSUME AttemptInv, RowInv, NoneDeleted, NoneDeleted', StopCause, Moves, [Next]_vars
  PROVE  StopCause'
<1>1. /\ stopRow \subseteq stopRow'
      /\ cancelling' \cup skipping' \subseteq stopRow'
  BY DEF StopCause, Moves, PollMove
<1>2. \A a \in AttemptIds :
        attempt'[a] \in Stopped \/ children'[a] = "Aborted" => JobRunOf[a[1]] \in stopRow'
  BY <1>1, AttemptsStopForACause DEF StopsForACause
<1>3. ASSUME NEW r \in JobRuns, r \notin stopRow', Broken(r)
      PROVE  Broken(r)'
  <2>1. PICK x \in TasksOf(r) : taskRun[x] \in {"Failed", "TimedOut", "Invalid"}
    BY <1>3 DEF Broken
  <2>2. x \in TaskRuns /\ JobRunOf[x] = r /\ TaskRunMove(x)
    BY DEF TasksOf, Moves
  <2>3. taskRun'[x] = taskRun[x]
    BY <1>1, <1>3, <2>1, <2>2 DEF TaskRunMove, NoneDeleted
  <2> QED
    BY <2>1, <2>3 DEF Broken
<1>4. ASSUME NEW tr \in TaskRuns, taskRun'[tr] \in Stopped, JobRunOf[tr] \notin stopRow'
      PROVE  Broken(JobRunOf[tr])'
  <2>1. JobRunOf[tr] \in JobRuns /\ JobRunOf[tr] \notin stopRow /\ TaskRunMove(tr)
    BY <1>1, <1>4, RowAssumption DEF Moves
  <2>2. Broken(JobRunOf[tr])
    <3>1. CASE taskRun[tr] \in Stopped
      BY <2>1, <3>1 DEF StopCause
    <3>2. CASE ShouldSkip(tr)
      <4>1. PICK d \in DependsOn[tr] : taskRun[d] \in FinishedTaskRun \ {"Succeeded"}
        BY <2>1, <3>2 DEF ShouldSkip, IsStopped
      <4>2. d \in TaskRuns /\ JobRunOf[d] = JobRunOf[tr]
        BY RowAssumption
      <4> QED
        BY <2>1, <4>1, <4>2 DEF StopCause, Broken, TasksOf, Stopped, FinishedTaskRun
    <3>3. CASE \E n \in AttemptNumbers : attempt[<<tr, n>>] \in Stopped
      BY <2>1, <3>3 DEF StopCause, AttemptIds
    <3> QED
      BY <1>4, <2>1, <3>1, <3>2, <3>3 DEF TaskRunMove, NoneDeleted, Stopped
  <2> QED
    BY <1>3, <1>4, <2>1, <2>2
<1> QED
  BY <1>1, <1>2, <1>4 DEF StopCause

LEMMA CauseInvariant == ASSUME Deletable = {} PROVE Spec => [](NoneDeleted /\ StopCause)
<1>1. Init => NoneDeleted /\ StopCause
  BY DEF Init, NoneDeleted, StopCause, Stopped
<1>2. /\ JobRunInv /\ AttemptInv /\ RowInv /\ NoneDeleted /\ StopCause /\ [Next]_vars
      => (NoneDeleted /\ StopCause)'
  BY EveryStepMoves, NoneDeletedKept, StopCauseKept DEF RowInv
<1> QED
  BY <1>1, <1>2, JobRunInvariant, AttemptInvariant, RowInvariant, PTL DEF Spec

\* JobRunMonitor aborts only a run that was stopped.
LEMMA AbortedWasStopped ==
  ASSUME StopCause, NEW r \in JobRuns, AllFinished(r),
         JobRunVerdict({taskRun[tr] : tr \in TaskRunRows(r)}) = "Aborted"
  PROVE  r \in stopRow
<1>1. /\ \A tr \in TaskRunRows(r) : taskRun[tr] \notin {"Failed", "TimedOut", "Invalid"}
      /\ ~({taskRun[tr] : tr \in TaskRunRows(r)} \subseteq {"Succeeded"})
  BY DEF JobRunVerdict
<1>2. PICK tr \in TaskRunRows(r) : taskRun[tr] \in Stopped
  BY <1>1 DEF AllFinished, FinishedTaskRun, Stopped
<1>3. tr \in TaskRuns /\ JobRunOf[tr] = r
  BY DEF TaskRunRows, TasksOf
<1>4. ~Broken(r)
  BY <1>1 DEF Broken, TaskRunRows
<1> QED
  BY <1>2, <1>3, <1>4 DEF StopCause

LifecycleStep == Lifecycle!Next \/ UNCHANGED <<jobRun, stopRow>>

\* Every step of a service, of a frontend or of a fault is one of the lifecycle's, or
\* nothing that the lifecycle shows.
LEMMA StepsOfTheLifecycle ==
  ASSUME Deletable = {}, JobRunInv, NoneDeleted, StopCause, [Next]_vars
  PROVE  LifecycleStep
<1> USE DEF LifecycleStep, Lifecycle!Next, Lifecycle!Move
<1>1. CASE UNCHANGED vars
  BY <1>1 DEF vars, rows
<1>2. ASSUME NEW r \in JobRuns, FrontendStep(r) PROVE LifecycleStep
  <2>1. CASE Submit(r)
    BY <2>1 DEF Submit, Lifecycle!Submit
  <2>2. CASE StopJobRun(r)
    BY <2>2 DEF StopJobRun, Lifecycle!Stop
  <2>3. CASE DeleteJobRun(r)
    BY <2>3 DEF DeleteJobRun
  <2>4. CASE FallDue(r)
    BY <2>4 DEF FallDue, rows
  <2> QED
    BY <1>2, <2>1, <2>2, <2>3, <2>4 DEF FrontendStep
<1>3. ASSUME NEW r \in JobRuns, JobRunReleaserStep(r) PROVE LifecycleStep
  <2> USE DEF JobRunInv, PollerMemory, ReleaserMemory, NoneDeleted
  <2>1. CASE ReleaseJobRun(r)
    BY <2>1 DEF ReleaseJobRun, IsStopped, Lifecycle!Release
  <2>2. CASE LeaveScheduled(r) \/ CancelJobRun(r)
    BY <2>2 DEF LeaveScheduled, CancelJobRun, rows
  <2>3. CASE FinishCancel(r)
    <3>1. r \in stopRow /\ jobRun[r] = "Scheduled"
      BY <2>3 DEF FinishCancel, StopCause
    <3>2. Lifecycle!Cancel(r)
      BY <2>3, <3>1 DEF FinishCancel, Lifecycle!Cancel
    <3> QED
      BY <3>2
  <2> QED
    BY <1>3, <2>1, <2>2, <2>3 DEF JobRunReleaserStep
<1>4. ASSUME NEW r \in JobRuns, JobRunDispatcherStep(r) PROVE LifecycleStep
  <2> USE DEF JobRunInv, PollerMemory, DispatcherMemory
  <2>1. CASE SkipQueued(r) \/ ReleaseTaskRuns(r)
    BY <2>1 DEF SkipQueued, ReleaseTaskRuns
  <2>2. CASE FinishSkip(r)
    <3>1. r \in stopRow /\ jobRun[r] = "Queued"
      BY <2>2 DEF FinishSkip, StopCause
    <3>2. Lifecycle!Cancel(r)
      BY <2>2, <3>1 DEF FinishSkip, Lifecycle!Cancel
    <3> QED
      BY <3>2
  <2>3. CASE SetJobRunRunning(r)
    <3>1. r \in starting /\ jobRun[r] = "Queued" /\ ~IsJobAtMaxParallelRuns(JobOf[r])
      BY <2>3 DEF SetJobRunRunning, RoomToStart
    <3>2. JobOf[r] \in Jobs /\ MaxParallelRuns[JobOf[r]] \in Nat
      BY RowAssumption, ConfigAssumption
    <3>3. Cardinality(RunningJobRuns(JobOf[r])) \in Nat
      BY <3>2, RunningFinite
    <3>4. \A S : Lifecycle!Cardinality(S) = Cardinality(S)
      BY DEF Cardinality, Lifecycle!Cardinality
    <3>5. Lifecycle!HasRoom(JobOf[r])
      BY <3>1, <3>2, <3>3, <3>4 DEF IsJobAtMaxParallelRuns, RunningJobRuns, Lifecycle!HasRoom
    <3> QED
      BY <2>3, <3>1, <3>5 DEF SetJobRunRunning, Lifecycle!Start
  <2> QED
    BY <1>4, <2>1, <2>2, <2>3 DEF JobRunDispatcherStep
<1>5. ASSUME NEW r \in JobRuns, SettleJobRun(r) PROVE LifecycleStep
  <2>1. PICK verdict \in FinishedJobRun \ {"Skipped", "Deleted"} :
          /\ verdict = JobRunVerdict({taskRun[tr] : tr \in TaskRunRows(r)})
          /\ jobRun' = [jobRun EXCEPT ![r] = verdict]
    BY <1>5, VerdictRows, VerdictTells DEF SettleJobRun, FinishedJobRun
  <2>2. verdict = "Aborted" => r \in stopRow
    BY <1>5, <2>1, AbortedWasStopped DEF SettleJobRun
  <2>3. Lifecycle!Settle(r)
    BY <1>5, <2>1, <2>2 DEF SettleJobRun, Lifecycle!Settle, Lifecycle!FinishedJobRun, FinishedJobRun
  <2> QED
    BY <2>3
<1>6. CASE SelectScheduled
  BY <1>6 DEF SelectScheduled, rows
<1>7. ASSUME NEW tr \in TaskRuns,
             InsertTaskRun(tr) \/ TaskRunDispatcherStep(tr) \/ TaskRunMonitorStep(tr)
      PROVE  LifecycleStep
  BY <1>7 DEF InsertTaskRun, TaskRunDispatcherStep, SkipTaskRun, StartTaskRun, TaskRunMonitorStep,
     StartFirstAttempt, RetryAttempt, InsertAttempt, SettleTaskRun
<1>8. ASSUME NEW a \in AttemptIds,
             AttemptDispatcherStep(a) \/ AttemptMonitorStep(a) \/ ExitCommand(a) \/ RecoverAttempt(a)
      PROVE  LifecycleStep
  <2> USE DEF rows
  <2>1. CASE AttemptDispatcherStep(a)
    BY <2>1 DEF AttemptDispatcherStep, InvalidateSpawned, SkipAttempt, BeginSpawn, SpawnCommand,
       SpawnFails, RecordRunning
  <2>2. CASE AttemptMonitorStep(a)
    BY <2>2 DEF AttemptMonitorStep, InvalidateLost, SettleExited, TimeOutAttempt, AbortAttempt,
       EndTermination, BeginTermination, FinishAttempt
  <2>3. CASE ExitCommand(a) \/ RecoverAttempt(a)
    BY <2>3 DEF ExitCommand, RecoverAttempt
  <2> QED
    BY <1>8, <2>1, <2>2, <2>3
<1>9. CASE WriteFails \/ ServerStep
  BY <1>9 DEF WriteFails, JobRunWriteFails, SpawnWriteFails, MonitorWriteFails, ServerStep, Crash,
     Shutdown, LoseMemory, Restart, FinishRecovery, rows
<1> QED
  BY <1>1, <1>2, <1>3, <1>4, <1>5, <1>6, <1>7, <1>8, <1>9 DEF Next

\* The seven services, with their crashes and their failed writes, implement the
\* lifecycle of a job run as its user sees it, as long as nobody deletes one.
THEOREM LifecycleIsImplemented == ASSUME Deletable = {} PROVE Spec => ImplementsLifecycle
<1>1. Init => Lifecycle!Init
  BY DEF Init, Lifecycle!Init
<1>2. JobRunInv /\ NoneDeleted /\ StopCause /\ [Next]_vars => [Lifecycle!Next]_<<jobRun, stopRow>>
  BY StepsOfTheLifecycle DEF LifecycleStep
<1>3. Spec => [](NoneDeleted /\ StopCause)
  BY CauseInvariant
<1> QED
  BY <1>1, <1>2, <1>3, JobRunInvariant, PTL DEF Spec, ImplementsLifecycle, Lifecycle!Spec

=============================================================================
