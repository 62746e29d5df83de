----------------------------- MODULE JobRunProofs -----------------------------
(***************************************************************************)
(* RunPipeline keeps its types, and what JobRunReleaser, JobRunDispatcher  *)
(* and JobRunMonitor make of the job runs together: the cap on parallel    *)
(* runs, and that what has settled stays settled; for every database,      *)
(* configuration and bound.                                                *)
(***************************************************************************)
EXTENDS RunPipeline, FiniteSetTheorems, TLAPS

\* The initial state has the types.
LEMMA InitTypes == Init => TypeOK
<1> SUFFICES ASSUME Init PROVE TypeOK
  OBVIOUS
<1> QED
  BY BoundAssumption DEF Init, TypeOK

\* The frontends write rows of the right type.
LEMMA FrontendTypes ==
  ASSUME TypeOK, NEW r \in JobRuns, FrontendStep(r)
  PROVE  TypeOK'
<1> USE DEF TypeOK, UnfinishedJobRun, FinishedJobRun, JobRunStatus,
            UnfinishedTaskRun, FinishedTaskRun, TaskRunStatus,
            rows, jobPolls, attPolls, commands, world
<1>1. CASE Submit(r)
  BY <1>1 DEF Submit
<1>2. CASE StopJobRun(r)
  BY <1>2 DEF StopJobRun
<1>3. CASE DeleteJobRun(r)
  BY <1>3 DEF DeleteJobRun, SkipTaskRunsOf
<1>4. CASE FallDue(r)
  BY <1>4 DEF FallDue
<1> QED
  BY <1>1, <1>2, <1>3, <1>4 DEF FrontendStep

\* JobRunReleaser.
LEMMA ReleaserTypes ==
  ASSUME TypeOK, NEW r \in JobRuns, JobRunReleaserStep(r)
  PROVE  TypeOK'
<1> USE DEF TypeOK, UnfinishedJobRun, FinishedJobRun, JobRunStatus,
            UnfinishedTaskRun, FinishedTaskRun, TaskRunStatus,
            UnfinishedAttempt, FinishedAttempt, AttemptStatus,
            rows, jobPolls, attPolls, commands, world
<1>1. CASE ReleaseJobRun(r)
  BY <1>1 DEF ReleaseJobRun
<1>2. CASE LeaveScheduled(r)
  BY <1>2 DEF LeaveScheduled
<1>3. CASE CancelJobRun(r)
  BY <1>3 DEF CancelJobRun, SkipTaskRunsOf
<1>4. CASE FinishCancel(r)
  BY <1>4 DEF FinishCancel
<1> QED
  BY <1>1, <1>2, <1>3, <1>4 DEF JobRunReleaserStep

\* JobRunDispatcher.
LEMMA DispatcherTypes ==
  ASSUME TypeOK, NEW r \in JobRuns, JobRunDispatcherStep(r)
  PROVE  TypeOK'
<1> USE DEF TypeOK, UnfinishedJobRun, FinishedJobRun, JobRunStatus,
            UnfinishedTaskRun, FinishedTaskRun, TaskRunStatus,
            UnfinishedAttempt, FinishedAttempt, AttemptStatus,
            rows, jobPolls, attPolls, commands, world
<1>1. CASE SkipQueued(r)
  BY <1>1 DEF SkipQueued, SkipTaskRunsOf
<1>2. CASE FinishSkip(r)
  BY <1>2 DEF FinishSkip
<1>3. CASE ReleaseTaskRuns(r)
  BY <1>3 DEF ReleaseTaskRuns
<1>4. CASE SetJobRunRunning(r)
  BY <1>4 DEF SetJobRunRunning
<1> QED
  BY <1>1, <1>2, <1>3, <1>4 DEF JobRunDispatcherStep

\* TaskRunDispatcher, and a frontend's insert of the rows it goes through.
LEMMA TaskRunDispatcherTypes ==
  ASSUME TypeOK, NEW tr \in TaskRuns, InsertTaskRun(tr) \/ TaskRunDispatcherStep(tr)
  PROVE  TypeOK'
<1> USE DEF TypeOK, UnfinishedJobRun, FinishedJobRun, JobRunStatus,
            UnfinishedTaskRun, FinishedTaskRun, TaskRunStatus,
            UnfinishedAttempt, FinishedAttempt, AttemptStatus,
            rows, jobPolls, attPolls, commands, world
<1>1. CASE SkipTaskRun(tr)
  BY <1>1 DEF SkipTaskRun
<1>2. CASE StartTaskRun(tr)
  BY <1>2 DEF StartTaskRun
<1>3. CASE InsertTaskRun(tr)
  BY <1>3 DEF InsertTaskRun
<1> QED
  BY <1>1, <1>2, <1>3 DEF TaskRunDispatcherStep

\* TaskRunMonitor.
LEMMA TaskRunMonitorTypes ==
  ASSUME TypeOK, NEW tr \in TaskRuns, TaskRunMonitorStep(tr)
  PROVE  TypeOK'
<1> USE DEF TypeOK, UnfinishedJobRun, FinishedJobRun, JobRunStatus,
            UnfinishedTaskRun, FinishedTaskRun, TaskRunStatus,
            UnfinishedAttempt, FinishedAttempt, AttemptStatus,
            rows, jobPolls, attPolls, commands, world
<1>1. CASE StartFirstAttempt(tr)
  BY <1>1 DEF StartFirstAttempt, InsertAttempt, AttemptIds
<1>2. CASE RetryAttempt(tr)
  BY <1>2 DEF RetryAttempt, InsertAttempt, AttemptIds
<1>3. CASE SettleTaskRun(tr)
  BY <1>3 DEF SettleTaskRun, TaskRunVerdict, Stopped
<1> QED
  BY <1>1, <1>2, <1>3 DEF TaskRunMonitorStep

\* TaskRunAttemptDispatcher.
LEMMA AttemptDispatcherTypes ==
  ASSUME TypeOK, NEW a \in AttemptIds, AttemptDispatcherStep(a)
  PROVE  TypeOK'
<1> USE DEF TypeOK, UnfinishedJobRun, FinishedJobRun, JobRunStatus,
            UnfinishedTaskRun, FinishedTaskRun, TaskRunStatus,
            UnfinishedAttempt, FinishedAttempt, AttemptStatus,
            rows, jobPolls, attPolls, commands, world
<1>1. CASE InvalidateSpawned(a)
  BY <1>1 DEF InvalidateSpawned
<1>2. CASE SkipAttempt(a)
  BY <1>2 DEF SkipAttempt
<1>3. CASE BeginSpawn(a)
  BY <1>3 DEF BeginSpawn
<1>4. CASE SpawnCommand(a)
  BY <1>4 DEF SpawnCommand
<1>5. CASE SpawnFails(a)
  BY <1>5 DEF SpawnFails
<1>6. CASE RecordRunning(a)
  BY <1>6 DEF RecordRunning
<1> QED
  BY <1>1, <1>2, <1>3, <1>4, <1>5, <1>6 DEF AttemptDispatcherStep

\* TaskRunAttemptMonitor.
LEMMA AttemptMonitorTypes ==
  ASSUME TypeOK, NEW a \in AttemptIds, AttemptMonitorStep(a)
  PROVE  TypeOK'
<1> USE DEF TypeOK, UnfinishedJobRun, FinishedJobRun, JobRunStatus,
            UnfinishedTaskRun, FinishedTaskRun, TaskRunStatus,
            UnfinishedAttempt, FinishedAttempt, AttemptStatus,
            rows, jobPolls, attPolls, commands, world
<1>1. CASE InvalidateLost(a)
  BY <1>1 DEF InvalidateLost, FinishAttempt
<1>2. CASE SettleExited(a)
  BY <1>2 DEF SettleExited, FinishAttempt
<1>3. CASE TimeOutAttempt(a)
  BY <1>3 DEF TimeOutAttempt, BeginTermination, FinishAttempt, Killed
<1>4. CASE AbortAttempt(a)
  BY <1>4 DEF AbortAttempt, BeginTermination, FinishAttempt, Killed
<1>5. CASE EndTermination(a)
  BY <1>5 DEF EndTermination, FinishAttempt, Killed
<1> QED
  BY <1>1, <1>2, <1>3, <1>4, <1>5 DEF AttemptMonitorStep

\* JobRunMonitor.
LEMMA JobRunMonitorTypes ==
  ASSUME TypeOK, NEW r \in JobRuns, SettleJobRun(r)
  PROVE  TypeOK'
<1>1. JobRunVerdict({taskRun[tr] : tr \in TaskRunRows(r)}) \in JobRunStatus
  BY DEF JobRunVerdict, JobRunStatus, FinishedJobRun
<1> QED
  BY <1>1 DEF SettleJobRun, TypeOK, rows, jobPolls, attPolls, commands, world

\* Failed writes.
LEMMA WriteFailsTypes ==
  ASSUME TypeOK, WriteFails
  PROVE  TypeOK'
<1> USE DEF TypeOK, CountError, rows, jobPolls, attPolls, commands, world
<1>1. CASE JobRunWriteFails
  BY <1>1, BoundAssumption DEF JobRunWriteFails
<1>2. ASSUME NEW a \in AttemptIds, SpawnWriteFails(a)
      PROVE  TypeOK'
  BY <1>2, BoundAssumption DEF SpawnWriteFails
<1>3. ASSUME NEW a \in AttemptIds, MonitorWriteFails(a)
      PROVE  TypeOK'
  BY <1>3, BoundAssumption DEF MonitorWriteFails, Killed
<1> QED
  BY <1>1, <1>2, <1>3 DEF WriteFails

\* The server process, the commands and the recovery.
LEMMA ServerTypes ==
  ASSUME TypeOK, ServerStep
  PROVE  TypeOK'
<1> USE DEF TypeOK, LoseMemory, rows, jobPolls, attPolls, commands, world
<1>1. CASE Crash
  BY <1>1, BoundAssumption DEF Crash
<1>2. CASE Shutdown
  BY <1>2, BoundAssumption DEF Shutdown
<1>3. CASE Restart
  BY <1>3 DEF Restart
<1>4. CASE FinishRecovery
  BY <1>4 DEF FinishRecovery
<1> QED
  BY <1>1, <1>2, <1>3, <1>4 DEF ServerStep

LEMMA CommandTypes ==
  ASSUME TypeOK, NEW a \in AttemptIds, ExitCommand(a) \/ RecoverAttempt(a)
  PROVE  TypeOK'
<1> USE DEF TypeOK, UnfinishedAttempt, FinishedAttempt, AttemptStatus,
            rows, jobPolls, attPolls, commands, world
<1>1. CASE ExitCommand(a)
  BY <1>1 DEF ExitCommand
<1>2. CASE RecoverAttempt(a)
  BY <1>2 DEF RecoverAttempt, KillOrphan, Killed
<1> QED
  BY <1>1, <1>2

\* Every row, every map and every counter keeps its type: TypeOK, through every
\* handler, crash and failed write.
THEOREM TypeCorrect == Spec => []TypeOK
<1>1. TypeOK /\ [Next]_vars => TypeOK'
  <2> SUFFICES ASSUME TypeOK, [Next]_vars PROVE TypeOK'
    OBVIOUS
  <2>1. CASE UNCHANGED vars
    BY <2>1 DEF TypeOK, vars, rows, jobPolls, attPolls, commands, world
  <2>2. ASSUME NEW r \in JobRuns,
               FrontendStep(r) \/ JobRunReleaserStep(r) \/ JobRunDispatcherStep(r) \/ SettleJobRun(r)
        PROVE  TypeOK'
    BY <2>2, FrontendTypes, ReleaserTypes, DispatcherTypes, JobRunMonitorTypes
  <2>3. CASE SelectScheduled
    BY <2>3 DEF SelectScheduled, ScheduledJobRuns, TypeOK, rows, attPolls, commands, world
  <2>4. ASSUME NEW tr \in TaskRuns,
               InsertTaskRun(tr) \/ TaskRunDispatcherStep(tr) \/ TaskRunMonitorStep(tr)
        PROVE  TypeOK'
    BY <2>4, TaskRunDispatcherTypes, TaskRunMonitorTypes
  <2>5. ASSUME NEW a \in AttemptIds,
               AttemptDispatcherStep(a) \/ AttemptMonitorStep(a) \/ ExitCommand(a) \/ RecoverAttempt(a)
        PROVE  TypeOK'
    BY <2>5, AttemptDispatcherTypes, AttemptMonitorTypes, CommandTypes
  <2>6. CASE WriteFails
    BY <2>6, WriteFailsTypes
  <2>7. CASE ServerStep
    BY <2>7, ServerTypes
  <2> QED
    BY <2>1, <2>2, <2>3, <2>4, <2>5, <2>6, <2>7 DEF Next
<1> QED
  BY InitTypes, <1>1, PTL DEF Spec

-----------------------------------------------------------------------------
(* The job runs of three pollers.                                          *)

\* What a poller remembers of a row between two writes is still true of it: the
\* rows the releaser holds have not started, the run the dispatcher holds is
\* still Queued, and there is still room for it.
ReleaserMemory ==
  /\ \A r \in releasing \cup cancelling : jobRun[r] \in {"Scheduled", "Deleted"}
  /\ releasing \cap cancelling = {}
DispatcherMemory ==
  /\ \A r \in starting \cup skipping : jobRun[r] = "Queued"
  /\ starting \cap skipping = {}
RoomToStart == \A r \in starting : ~IsJobAtMaxParallelRuns(JobOf[r])
PollerMemory == ReleaserMemory /\ DispatcherMemory /\ RoomToStart
JobRunInv == TypeOK /\ PollerMemory /\ ParallelRunsCap

\* The sets that max_parallel_runs counts are finite.
LEMMA RunningFinite ==
  ASSUME NEW j \in Jobs
  PROVE  /\ IsFiniteSet(RunningJobRuns(j))
         /\ Cardinality(RunningJobRuns(j)) \in Nat
<1>1. RunningJobRuns(j) \subseteq JobRuns
  BY DEF RunningJobRuns
<1> QED
  BY <1>1, FiniteAssumption, FS_Subset, FS_CardinalityType

\* As long as no run starts, the cap and the room to start another stay.
LEMMA NoRunStarts ==
  ASSUME TypeOK, ParallelRunsCap, RoomToStart, starting' \subseteq starting,
         \A r \in JobRuns : jobRun'[r] = "Running" => jobRun[r] = "Running"
  PROVE  ParallelRunsCap' /\ RoomToStart'
<1>1. ASSUME NEW j \in Jobs
      PROVE  /\ Cardinality(RunningJobRuns(j)') \in Nat
             /\ Cardinality(RunningJobRuns(j)') <= Cardinality(RunningJobRuns(j))
  <2>1. RunningJobRuns(j)' \subseteq RunningJobRuns(j)
    BY DEF RunningJobRuns
  <2> QED
    BY <2>1, RunningFinite, FS_Subset, FS_CardinalityType
<1>2. ParallelRunsCap'
  <2> SUFFICES ASSUME NEW j \in Jobs, MaxParallelRuns[j] # 0
               PROVE  Cardinality(RunningJobRuns(j)') <= MaxParallelRuns[j]
    BY DEF ParallelRunsCap
  <2>1. Cardinality(RunningJobRuns(j)) <= MaxParallelRuns[j]
    BY DEF ParallelRunsCap
  <2> QED
    BY <1>1, <2>1, RunningFinite, ConfigAssumption
<1>3. RoomToStart'
  <2> SUFFICES ASSUME NEW r \in starting' PROVE ~IsJobAtMaxParallelRuns(JobOf[r])'
    BY DEF RoomToStart
  <2>1. JobOf[r] \in Jobs /\ ~IsJobAtMaxParallelRuns(JobOf[r])
    BY RowAssumption DEF RoomToStart, TypeOK
  <2> QED
    BY <2>1, <1>1, RunningFinite, ConfigAssumption DEF IsJobAtMaxParallelRuns
<1> QED
  BY <1>2, <1>3

\* The run JobRunDispatcher starts is the only one that joins the Running ones,
\* and the room it found is still there.
LEMMA ARunStarts ==
  ASSUME JobRunInv, NEW r \in JobRuns, SetJobRunRunning(r)
  PROVE  ParallelRunsCap'
<1> SUFFICES ASSUME NEW j \in Jobs, MaxParallelRuns[j] # 0
             PROVE  Cardinality(RunningJobRuns(j)') <= MaxParallelRuns[j]
  BY DEF ParallelRunsCap
<1>1. CASE JobOf[r] # j
  <2>1. RunningJobRuns(j)' = RunningJobRuns(j)
    BY <1>1 DEF RunningJobRuns, SetJobRunRunning, JobRunInv, TypeOK
  <2> QED
    BY <2>1 DEF JobRunInv, ParallelRunsCap
<1>2. CASE JobOf[r] = j
  <2>1. RunningJobRuns(j)' = RunningJobRuns(j) \cup {r} /\ r \notin RunningJobRuns(j)
    BY <1>2 DEF RunningJobRuns, SetJobRunRunning, JobRunInv, PollerMemory, DispatcherMemory, TypeOK
  <2>2. Cardinality(RunningJobRuns(j)') = Cardinality(RunningJobRuns(j)) + 1
    BY <2>1, RunningFinite, FS_AddElement
  <2>3. ~(Cardinality(RunningJobRuns(j)) >= MaxParallelRuns[j])
    BY <1>2 DEF SetJobRunRunning, JobRunInv, PollerMemory, RoomToStart, IsJobAtMaxParallelRuns
  <2> QED
    BY <2>2, <2>3, RunningFinite, ConfigAssumption
<1> QED
  BY <1>1, <1>2

-----------------------------------------------------------------------------
\* What every step must do: keep the pollers' memory and the cap, and leave the
\* runs that have settled alone.
SettledStay ==
  \A r \in JobRuns : jobRun[r] \in FinishedJobRun \ {"Deleted"} => jobRun'[r] = jobRun[r]
Preserved == PollerMemory' /\ ParallelRunsCap' /\ SettledStay

\* A step that touches neither the job runs nor the memory of their pollers.
LEMMA ElsewherePreserves ==
  ASSUME JobRunInv, UNCHANGED <<jobRun, jobPolls>>
  PROVE  Preserved
<1> QED
  BY NoRunStarts DEF Preserved, SettledStay, JobRunInv, PollerMemory, ReleaserMemory,
     DispatcherMemory, jobPolls

\* A step that moves the status of job runs, none to Running, and at most clears
\* the dispatcher's memory.
LEMMA NoStartPreserves ==
  ASSUME JobRunInv, ReleaserMemory', DispatcherMemory', SettledStay,
         starting' \subseteq starting,
         \A r \in JobRuns : jobRun'[r] = "Running" => jobRun[r] = "Running"
  PROVE  Preserved
<1> QED
  BY NoRunStarts DEF Preserved, JobRunInv, PollerMemory

LEMMA FrontendPreserves ==
  ASSUME JobRunInv, NEW r \in JobRuns, FrontendStep(r)
  PROVE  Preserved
<1> USE DEF JobRunInv, PollerMemory, ReleaserMemory, DispatcherMemory, SettledStay,
            FinishedJobRun, TypeOK, rows, jobPolls
<1>1. CASE Submit(r)
  BY <1>1, NoStartPreserves DEF Submit
<1>2. CASE StopJobRun(r)
  BY <1>2, ElsewherePreserves DEF StopJobRun
<1>3. CASE DeleteJobRun(r)
  BY <1>3, NoStartPreserves DEF DeleteJobRun, SkipTaskRunsOf
<1>4. CASE FallDue(r)
  BY <1>4, ElsewherePreserves DEF FallDue
<1> QED
  BY <1>1, <1>2, <1>3, <1>4 DEF FrontendStep

LEMMA ReleaserPreserves ==
  ASSUME JobRunInv, NEW r \in JobRuns, JobRunReleaserStep(r)
  PROVE  Preserved
<1> USE DEF JobRunInv, PollerMemory, ReleaserMemory, DispatcherMemory, SettledStay,
            FinishedJobRun, TypeOK, rows
<1>1. CASE ReleaseJobRun(r)
  BY <1>1, NoStartPreserves DEF ReleaseJobRun
<1>2. CASE LeaveScheduled(r)
  BY <1>2, NoStartPreserves DEF LeaveScheduled
<1>3. CASE CancelJobRun(r)
  BY <1>3, NoStartPreserves DEF CancelJobRun
<1>4. CASE FinishCancel(r)
  BY <1>4, NoStartPreserves DEF FinishCancel
<1> QED
  BY <1>1, <1>2, <1>3, <1>4 DEF JobRunReleaserStep

\* The releaser's pass remembers rows that are Scheduled when it selects them.
LEMMA SelectPreserves ==
  ASSUME JobRunInv, SelectScheduled
  PROVE  Preserved
<1> QED
  BY NoStartPreserves DEF SelectScheduled, ScheduledJobRuns, JobRunInv, PollerMemory,
     ReleaserMemory, DispatcherMemory, SettledStay, rows

LEMMA DispatcherPreserves ==
  ASSUME JobRunInv, NEW r \in JobRuns, JobRunDispatcherStep(r)
  PROVE  Preserved
<1> USE DEF JobRunInv, PollerMemory, ReleaserMemory, DispatcherMemory, SettledStay,
            FinishedJobRun, TypeOK, rows, IsQueued, JobRunDispatcherIdle
<1>1. CASE SkipQueued(r)
  BY <1>1, NoStartPreserves DEF SkipQueued
<1>2. CASE FinishSkip(r)
  BY <1>2, NoStartPreserves DEF FinishSkip
<1>3. CASE ReleaseTaskRuns(r)
  <2>1. ReleaserMemory' /\ DispatcherMemory' /\ SettledStay
    BY <1>3 DEF ReleaseTaskRuns
  <2>2. RoomToStart'
    BY <1>3 DEF ReleaseTaskRuns, RoomToStart, IsJobAtMaxParallelRuns, RunningJobRuns
  <2>3. ParallelRunsCap'
    BY <1>3 DEF ReleaseTaskRuns, ParallelRunsCap, RunningJobRuns
  <2> QED
    BY <2>1, <2>2, <2>3 DEF Preserved
<1>4. CASE SetJobRunRunning(r)
  <2>1. ReleaserMemory' /\ DispatcherMemory' /\ SettledStay /\ RoomToStart'
    BY <1>4 DEF SetJobRunRunning, RoomToStart
  <2> QED
    BY <2>1, <1>4, ARunStarts DEF Preserved
<1> QED
  BY <1>1, <1>2, <1>3, <1>4 DEF JobRunDispatcherStep

\* A verdict is never Running, and only a Running run gets one.
LEMMA JobRunMonitorPreserves ==
  ASSUME JobRunInv, NEW r \in JobRuns, SettleJobRun(r)
  PROVE  Preserved
<1>1. JobRunVerdict({taskRun[tr] : tr \in TaskRunRows(r)}) # "Running"
  BY DEF JobRunVerdict
<1> QED
  BY <1>1, NoStartPreserves DEF SettleJobRun, JobRunInv, PollerMemory, ReleaserMemory,
     DispatcherMemory, SettledStay, FinishedJobRun, TypeOK, jobPolls

\* A failed write or the end of the server loses memory, and no more than that.
LEMMA LossPreserves ==
  ASSUME JobRunInv, WriteFails \/ ServerStep
  PROVE  Preserved
<1> USE DEF JobRunInv, PollerMemory, ReleaserMemory, DispatcherMemory, SettledStay, rows, jobPolls
<1>1. CASE JobRunWriteFails
  BY <1>1, NoStartPreserves DEF JobRunWriteFails
<1>2. ASSUME NEW a \in AttemptIds, SpawnWriteFails(a) \/ MonitorWriteFails(a)
      PROVE  Preserved
  BY <1>2, ElsewherePreserves DEF SpawnWriteFails, MonitorWriteFails
<1>3. CASE Crash \/ Shutdown
  BY <1>3, NoStartPreserves DEF Crash, Shutdown, LoseMemory
<1>4. CASE Restart \/ FinishRecovery
  BY <1>4, ElsewherePreserves DEF Restart, FinishRecovery
<1> QED
  BY <1>1, <1>2, <1>3, <1>4 DEF WriteFails, ServerStep

\* No service of the task runs or the attempts writes a job run.
LEMMA TaskServicesElsewhere ==
  /\ \A tr \in TaskRuns :
       InsertTaskRun(tr) \/ TaskRunDispatcherStep(tr) \/ TaskRunMonitorStep(tr)
         => UNCHANGED <<jobRun, jobPolls>>
  /\ \A a \in AttemptIds :
       AttemptDispatcherStep(a) \/ AttemptMonitorStep(a) \/ ExitCommand(a) \/ RecoverAttempt(a)
         => UNCHANGED <<jobRun, jobPolls>>
<1>1. ASSUME NEW tr \in TaskRuns,
             InsertTaskRun(tr) \/ TaskRunDispatcherStep(tr) \/ TaskRunMonitorStep(tr)
      PROVE  UNCHANGED <<jobRun, jobPolls>>
  BY <1>1 DEF InsertTaskRun, TaskRunDispatcherStep, TaskRunMonitorStep, SkipTaskRun, StartTaskRun,
     StartFirstAttempt, RetryAttempt, SettleTaskRun, InsertAttempt
<1>2. ASSUME NEW a \in AttemptIds, AttemptDispatcherStep(a)
      PROVE  UNCHANGED <<jobRun, jobPolls>>
  BY <1>2 DEF AttemptDispatcherStep, InvalidateSpawned, SkipAttempt, BeginSpawn,
     SpawnCommand, SpawnFails, RecordRunning, rows
<1>3. ASSUME NEW a \in AttemptIds, AttemptMonitorStep(a)
      PROVE  UNCHANGED <<jobRun, jobPolls>>
  BY <1>3 DEF AttemptMonitorStep, InvalidateLost, SettleExited, TimeOutAttempt, AbortAttempt,
     EndTermination, BeginTermination, FinishAttempt, rows
<1>4. ASSUME NEW a \in AttemptIds, ExitCommand(a) \/ RecoverAttempt(a)
      PROVE  UNCHANGED <<jobRun, jobPolls>>
  BY <1>4 DEF ExitCommand, RecoverAttempt, rows
<1> QED
  BY <1>1, <1>2, <1>3, <1>4

LEMMA StepPreserves ==
  ASSUME JobRunInv, [Next]_vars
  PROVE  Preserved
<1>1. CASE UNCHANGED vars
  BY <1>1, ElsewherePreserves DEF vars, rows
<1>2. ASSUME NEW r \in JobRuns,
             FrontendStep(r) \/ JobRunReleaserStep(r) \/ JobRunDispatcherStep(r) \/ SettleJobRun(r)
      PROVE  Preserved
  BY <1>2, FrontendPreserves, ReleaserPreserves, DispatcherPreserves, JobRunMonitorPreserves
<1>3. CASE SelectScheduled
  BY <1>3, SelectPreserves
<1>4. ASSUME NEW tr \in TaskRuns,
             InsertTaskRun(tr) \/ TaskRunDispatcherStep(tr) \/ TaskRunMonitorStep(tr)
      PROVE  Preserved
  BY <1>4, TaskServicesElsewhere, ElsewherePreserves
<1>5. ASSUME NEW a \in AttemptIds,
             AttemptDispatcherStep(a) \/ AttemptMonitorStep(a) \/ ExitCommand(a) \/ RecoverAttempt(a)
      PROVE  Preserved
  BY <1>5, TaskServicesElsewhere, ElsewherePreserves
<1>6. CASE WriteFails \/ ServerStep
  BY <1>6, LossPreserves
<1> QED
  BY <1>1, <1>2, <1>3, <1>4, <1>5, <1>6 DEF Next

LEMMA InitJobRunInv == Init => PollerMemory /\ ParallelRunsCap
<1> SUFFICES ASSUME Init PROVE PollerMemory /\ ParallelRunsCap
  OBVIOUS
<1>1. PollerMemory
  BY DEF Init, PollerMemory, ReleaserMemory, DispatcherMemory, RoomToStart
<1>2. ASSUME NEW j \in Jobs, MaxParallelRuns[j] # 0
      PROVE  Cardinality(RunningJobRuns(j)) <= MaxParallelRuns[j]
  <2>1. RunningJobRuns(j) = {}
    BY DEF Init, RunningJobRuns
  <2> QED
    BY <2>1, FS_EmptySet, ConfigAssumption
<1> QED
  BY <1>1, <1>2 DEF ParallelRunsCap

LEMMA JobRunInvariant == Spec => []JobRunInv
<1>1. Init => JobRunInv
  BY InitTypes, InitJobRunInv DEF JobRunInv
<1>2. JobRunInv /\ TypeOK' /\ [Next]_vars => JobRunInv'
  BY StepPreserves DEF JobRunInv, Preserved
<1> QED
  BY <1>1, <1>2, TypeCorrect, PTL DEF Spec

\* However many runs of a job are released, stopped or forgotten by a crash
\* between the two writes of set_to_running, no more of them are Running than
\* its max_parallel_runs.
THEOREM ParallelRunsCapped == Spec => []ParallelRunsCap
<1>1. JobRunInv => ParallelRunsCap
  BY DEF JobRunInv
<1> QED
  BY <1>1, JobRunInvariant, PTL

\* No service and no frontend writes a run that has settled, other than by a
\* delete, whatever rows the passes under way selected before it did.
THEOREM SettledForGood == Spec => SettledJobRunsKeepTheirStatus
<1>1. JobRunInv /\ [Next]_vars =>
        [\A r \in JobRuns : jobRun[r] \in FinishedJobRun \ {"Deleted"} => jobRun'[r] = jobRun[r]]_vars
  BY StepPreserves DEF Preserved, SettledStay
<1> QED
  BY <1>1, JobRunInvariant, PTL DEF Spec, SettledJobRunsKeepTheirStatus

==============================================================================
