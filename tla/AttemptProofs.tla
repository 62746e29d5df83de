----------------------------- MODULE AttemptProofs -----------------------------
(***************************************************************************)
(* What TaskRunMonitor, TaskRunAttemptDispatcher, TaskRunAttemptMonitor    *)
(* and the recovery make of the attempts together, for every database,     *)
(* configuration, bound and number of crashes and failed writes: retries,  *)
(* spawns, concurrency limits and commands.                                *)
(***************************************************************************)
EXTENDS JobRunProofs

\* What TaskRunAttemptDispatcher remembers between started_at, the spawn and the
\* row is still true of the row, and started_at tells of every spawn there was.
SpawnMemory ==
  /\ \A a \in spawning \cup launched : attempt[a] = "Queued" /\ a \in started
  /\ \A a \in spawning : spawns[a] = 0
  /\ \A a \in launched : spawns[a] = 1
  /\ \A a, b \in spawning \cup launched : a = b
  /\ \A a \in AttemptIds : spawns[a] > 0 => a \in started
\* The slots it found free are still free.
RoomToSpawn == \A a \in spawning \cup launched : ~ShouldStayQueued(a[1])
AttemptInv ==
  TypeOK /\ SpawnMemory /\ RoomToSpawn /\ SpawnedOnce /\ SlotsRespected /\ AttemptLadder

-----------------------------------------------------------------------------
(* Counting.                                                               *)

LEMMA AttemptsFinite == IsFiniteSet(AttemptIds)
<1>1. IsFiniteSet(AttemptNumbers)
  BY BoundAssumption, FS_Interval DEF AttemptNumbers
<1> QED
  BY <1>1, FiniteAssumption, FS_Product DEF AttemptIds

LEMMA RunningAttemptsFinite ==
  /\ IsFiniteSet(RunningAttempts)
  /\ Cardinality(RunningAttempts) \in Nat
  /\ \A l \in Limits : IsFiniteSet(ClaimedSlots(l)) /\ Cardinality(ClaimedSlots(l)) \in Nat
<1>1. RunningAttempts \subseteq AttemptIds
  BY DEF RunningAttempts
<1>2. \A l \in Limits : ClaimedSlots(l) \subseteq RunningAttempts
  BY DEF ClaimedSlots
<1>3. IsFiniteSet(RunningAttempts)
  BY <1>1, AttemptsFinite, FS_Subset
<1>4. \A l \in Limits : IsFiniteSet(ClaimedSlots(l))
  BY <1>2, <1>3, FS_Subset
<1> QED
  BY <1>3, <1>4, FS_CardinalityType

\* As long as no attempt joins the Running ones, every count goes down.
LEMMA CountsGoDown ==
  ASSUME RunningAttempts' \subseteq RunningAttempts
  PROVE  /\ Cardinality(RunningAttempts') \in Nat
         /\ Cardinality(RunningAttempts') <= Cardinality(RunningAttempts)
         /\ \A l \in Limits :
              /\ Cardinality(ClaimedSlots(l)') \in Nat
              /\ Cardinality(ClaimedSlots(l)') <= Cardinality(ClaimedSlots(l))
<1>1. /\ Cardinality(RunningAttempts') \in Nat
      /\ Cardinality(RunningAttempts') <= Cardinality(RunningAttempts)
  BY RunningAttemptsFinite, FS_Subset, FS_CardinalityType
<1>2. ASSUME NEW l \in Limits
      PROVE  /\ Cardinality(ClaimedSlots(l)') \in Nat
             /\ Cardinality(ClaimedSlots(l)') <= Cardinality(ClaimedSlots(l))
  <2>1. ClaimedSlots(l)' \subseteq ClaimedSlots(l)
    BY DEF ClaimedSlots
  <2> QED
    BY <2>1, RunningAttemptsFinite, FS_Subset, FS_CardinalityType
<1> QED
  BY <1>1, <1>2

\* So limits and the room under them stay.
LEMMA NoAttemptStarts ==
  ASSUME TypeOK, SlotsRespected, RoomToSpawn, RunningAttempts' \subseteq RunningAttempts,
         spawning' \cup launched' \subseteq spawning \cup launched
  PROVE  SlotsRespected' /\ RoomToSpawn'
<1>1. SlotsRespected'
  <2>1. MaxRunningAttempts # 0 => Cardinality(RunningAttempts') <= MaxRunningAttempts
    BY CountsGoDown, RunningAttemptsFinite, ConfigAssumption DEF SlotsRespected
  <2>2. ASSUME NEW l \in Limits, ConcurrencyLimits[l] # 0
        PROVE  Cardinality(ClaimedSlots(l)') <= ConcurrencyLimits[l]
    <3>1. Cardinality(ClaimedSlots(l)) <= ConcurrencyLimits[l]
      BY <2>2 DEF SlotsRespected
    <3> QED
      BY <3>1, CountsGoDown, RunningAttemptsFinite, ConfigAssumption
  <2> QED
    BY <2>1, <2>2 DEF SlotsRespected
<1>2. RoomToSpawn'
  <2> SUFFICES ASSUME NEW a \in spawning' \cup launched' PROVE ~ShouldStayQueued(a[1])'
    BY DEF RoomToSpawn
  <2>1. ~ShouldStayQueued(a[1]) /\ Claims[a[1]] \subseteq Limits
    BY RowAssumption DEF RoomToSpawn, TypeOK, AttemptIds
  <2>2. ~(MaxRunningAttempts # 0 /\ Cardinality(RunningAttempts') >= MaxRunningAttempts)
    BY <2>1, CountsGoDown, RunningAttemptsFinite, ConfigAssumption DEF ShouldStayQueued
  <2>3. ASSUME NEW l \in Claims[a[1]], ConcurrencyLimits[l] # 0
        PROVE  ~(Cardinality(ClaimedSlots(l)') >= ConcurrencyLimits[l])
    <3>1. ~(Cardinality(ClaimedSlots(l)) >= ConcurrencyLimits[l]) /\ l \in Limits
      BY <2>1, <2>3 DEF ShouldStayQueued, AClaimedLimitIsFull
    <3> QED
      BY <3>1, CountsGoDown, RunningAttemptsFinite, ConfigAssumption
  <2> QED
    BY <2>2, <2>3 DEF ShouldStayQueued, AClaimedLimitIsFull
<1> QED
  BY <1>1, <1>2

\* The attempt whose spawn is recorded is the only one that joins the Running
\* ones, and the slots found free for it still are.
LEMMA AnAttemptStarts ==
  ASSUME AttemptInv, NEW a \in AttemptIds, RecordRunning(a)
  PROVE  SlotsRespected' /\ RoomToSpawn'
<1>1. /\ RunningAttempts' = RunningAttempts \cup {a}
      /\ a \notin RunningAttempts
      /\ ~ShouldStayQueued(a[1])
      /\ Claims[a[1]] \subseteq Limits
  BY RowAssumption DEF RunningAttempts, RecordRunning, AttemptInv, SpawnMemory, RoomToSpawn,
     TypeOK, AttemptIds
<1>2. MaxRunningAttempts # 0 => Cardinality(RunningAttempts') <= MaxRunningAttempts
  <2>1. Cardinality(RunningAttempts') = Cardinality(RunningAttempts) + 1
    BY <1>1, RunningAttemptsFinite, FS_AddElement
  <2> QED
    BY <1>1, <2>1, RunningAttemptsFinite, ConfigAssumption DEF ShouldStayQueued
<1>3. ASSUME NEW l \in Limits, ConcurrencyLimits[l] # 0
      PROVE  Cardinality(ClaimedSlots(l)') <= ConcurrencyLimits[l]
  <2>1. CASE l \notin Claims[a[1]]
    <3>1. ClaimedSlots(l)' = ClaimedSlots(l)
      BY <1>1, <2>1 DEF ClaimedSlots
    <3> QED
      BY <3>1, <1>3 DEF AttemptInv, SlotsRespected
  <2>2. CASE l \in Claims[a[1]]
    <3>1. ClaimedSlots(l)' = ClaimedSlots(l) \cup {a} /\ a \notin ClaimedSlots(l)
      BY <1>1, <2>2 DEF ClaimedSlots
    <3>2. Cardinality(ClaimedSlots(l)') = Cardinality(ClaimedSlots(l)) + 1
      BY <3>1, RunningAttemptsFinite, FS_AddElement
    <3>3. ~(Cardinality(ClaimedSlots(l)) >= ConcurrencyLimits[l])
      BY <1>1, <1>3, <2>2 DEF ShouldStayQueued, AClaimedLimitIsFull
    <3> QED
      BY <3>2, <3>3, RunningAttemptsFinite, ConfigAssumption
  <2> QED
    BY <2>1, <2>2
<1>4. RoomToSpawn'
  BY DEF RoomToSpawn, RecordRunning, AttemptInv, SpawnMemory
<1> QED
  BY <1>2, <1>3, <1>4 DEF SlotsRespected

-----------------------------------------------------------------------------
(* The ladder of retries.                                                  *)

\* Only an attempt that has yet to finish changes its status.
OnlyUnfinishedChange ==
  \A a \in AttemptIds : attempt'[a] # attempt[a] => attempt[a] \in UnfinishedAttempt

LEMMA LadderKept ==
  ASSUME TypeOK, AttemptLadder, OnlyUnfinishedChange
  PROVE  AttemptLadder'
<1> SUFFICES ASSUME NEW tr \in TaskRuns, NEW n \in AttemptNumbers, attempt'[<<tr, n>>] # "None"
             PROVE  /\ n <= MaxRetries[tr] + 1
                    /\ \A m \in 1..(n - 1) : attempt'[<<tr, m>>] = "Failed"
  BY DEF AttemptLadder
<1>1. <<tr, n>> \in AttemptIds /\ attempt[<<tr, n>>] # "None"
  BY DEF OnlyUnfinishedChange, UnfinishedAttempt, AttemptIds
<1>2. /\ n <= MaxRetries[tr] + 1
      /\ \A m \in 1..(n - 1) : attempt[<<tr, m>>] = "Failed"
  BY <1>1 DEF AttemptLadder
<1>3. \A m \in 1..(n - 1) : <<tr, m>> \in AttemptIds
  BY BoundAssumption DEF AttemptIds, AttemptNumbers
<1> QED
  BY <1>2, <1>3 DEF OnlyUnfinishedChange, UnfinishedAttempt

\* TaskRunMonitor inserts the attempt after the last, and only after a failure.
LEMMA LadderClimbed ==
  ASSUME TypeOK, AttemptLadder, NEW tr \in TaskRuns, TaskRunMonitorStep(tr)
  PROVE  AttemptLadder'
<1>1. CASE StartFirstAttempt(tr)
  <2>1. attempt' = [attempt EXCEPT ![<<tr, 1>>] = "Queued"]
    BY <1>1 DEF StartFirstAttempt, InsertAttempt
  <2>2. \A n \in AttemptNumbers : attempt[<<tr, n>>] = "None"
    BY <1>1 DEF StartFirstAttempt
  <2>3. MaxRetries[tr] \in Nat
    BY RowAssumption
  <2> SUFFICES ASSUME NEW t \in TaskRuns, NEW k \in AttemptNumbers, attempt'[<<t, k>>] # "None"
               PROVE  /\ k <= MaxRetries[t] + 1
                      /\ \A m \in 1..(k - 1) : attempt'[<<t, m>>] = "Failed"
    BY DEF AttemptLadder
  <2>4. CASE t = tr
    <3>1. k = 1
      BY <2>1, <2>2, <2>4 DEF TypeOK, AttemptIds
    <3> QED
      BY <3>1, <2>3, <2>4
  <2>5. CASE t # tr
    <3>1. \A m \in AttemptNumbers : attempt'[<<t, m>>] = attempt[<<t, m>>]
      BY <2>1, <2>5 DEF TypeOK, AttemptIds
    <3>2. \A m \in 1..(k - 1) : m \in AttemptNumbers
      BY BoundAssumption DEF AttemptNumbers
    <3> QED
      BY <3>1, <3>2 DEF AttemptLadder
  <2> QED
    BY <2>4, <2>5
<1>2. CASE RetryAttempt(tr)
  <2>1. PICK n \in AttemptNumbers :
          /\ IsLastAttempt(tr, n) /\ HasRetriesLeft(tr, n)
          /\ n + 1 \in AttemptNumbers
          /\ attempt' = [attempt EXCEPT ![<<tr, n + 1>>] = "Queued"]
    BY <1>2 DEF RetryAttempt, InsertAttempt
  <2>2. n \in Nat /\ MaxRetries[tr] \in Nat
    BY RowAssumption DEF AttemptNumbers
  <2> SUFFICES ASSUME NEW t \in TaskRuns, NEW k \in AttemptNumbers, attempt'[<<t, k>>] # "None"
               PROVE  /\ k <= MaxRetries[t] + 1
                      /\ \A m \in 1..(k - 1) : attempt'[<<t, m>>] = "Failed"
    BY DEF AttemptLadder
  <2>3. CASE t = tr
    <3>1. \A m \in AttemptNumbers : m # n + 1 => attempt'[<<tr, m>>] = attempt[<<tr, m>>]
      BY <2>1 DEF TypeOK, AttemptIds
    <3>2. /\ attempt[<<tr, n>>] = "Failed" /\ n < MaxRetries[tr] + 1
          /\ \A m \in 1..(n - 1) : attempt[<<tr, m>>] = "Failed"
      BY <2>1 DEF HasRetriesLeft, AttemptLadder
    <3>3. k \in Nat /\ k <= n + 1
      BY <2>1, <2>3, <3>1 DEF IsLastAttempt, AttemptNumbers
    <3>4. \A m \in 1..n : m \in AttemptNumbers /\ attempt'[<<tr, m>>] = "Failed"
      BY <3>1, <3>2, <2>2, BoundAssumption DEF AttemptNumbers
    <3> QED
      BY <2>2, <2>3, <3>2, <3>3, <3>4
  <2>4. CASE t # tr
    <3>1. \A m \in AttemptNumbers : attempt'[<<t, m>>] = attempt[<<t, m>>]
      BY <2>1, <2>4 DEF TypeOK, AttemptIds
    <3>2. \A m \in 1..(k - 1) : m \in AttemptNumbers
      BY BoundAssumption DEF AttemptNumbers
    <3> QED
      BY <3>1, <3>2 DEF AttemptLadder
  <2> QED
    BY <2>3, <2>4
<1>3. CASE SettleTaskRun(tr)
  BY <1>3 DEF SettleTaskRun, AttemptLadder
<1> QED
  BY <1>1, <1>2, <1>3 DEF TaskRunMonitorStep

-----------------------------------------------------------------------------
(* One lemma for each part of Next.                                        *)

Kept == SpawnMemory' /\ RoomToSpawn' /\ SpawnedOnce' /\ SlotsRespected' /\ AttemptLadder'

\* A step that neither spawns nor records a spawn, and settles attempts at most.
LEMMA NoSpawnKeeps ==
  ASSUME AttemptInv, SpawnMemory', UNCHANGED spawns, OnlyUnfinishedChange,
         \A a \in AttemptIds : attempt'[a] = "Running" => attempt[a] = "Running",
         spawning' \cup launched' \subseteq spawning \cup launched
  PROVE  Kept
<1>1. RunningAttempts' \subseteq RunningAttempts
  BY DEF RunningAttempts
<1> QED
  BY <1>1, NoAttemptStarts, LadderKept DEF Kept, AttemptInv, SpawnedOnce

\* A step that touches neither the attempts nor what the dispatcher holds.
LEMMA ElsewhereKeeps ==
  ASSUME AttemptInv, UNCHANGED <<attempt, started, spawning, launched, spawns>>
  PROVE  Kept
<1> QED
  BY NoSpawnKeeps DEF AttemptInv, SpawnMemory, OnlyUnfinishedChange

\* Neither the frontends nor a service of the job runs or the task runs does,
\* TaskRunMonitor's inserts apart.
LEMMA JobServicesElsewhere ==
  /\ \A r \in JobRuns :
       FrontendStep(r) \/ JobRunReleaserStep(r) \/ JobRunDispatcherStep(r) \/ SettleJobRun(r)
         => UNCHANGED <<attempt, started, spawning, launched, spawns>>
  /\ SelectScheduled => UNCHANGED <<attempt, started, spawning, launched, spawns>>
  /\ \A tr \in TaskRuns :
       InsertTaskRun(tr) \/ TaskRunDispatcherStep(tr)
         => UNCHANGED <<attempt, started, spawning, launched, spawns>>
<1> USE DEF rows, attPolls, commands
<1>1. ASSUME NEW r \in JobRuns, FrontendStep(r) \/ SettleJobRun(r)
      PROVE  UNCHANGED <<attempt, started, spawning, launched, spawns>>
  BY <1>1 DEF FrontendStep, Submit, StopJobRun, DeleteJobRun, SkipTaskRunsOf, FallDue, SettleJobRun
<1>2. ASSUME NEW r \in JobRuns, JobRunReleaserStep(r)
      PROVE  UNCHANGED <<attempt, started, spawning, launched, spawns>>
  BY <1>2 DEF JobRunReleaserStep, ReleaseJobRun, LeaveScheduled, CancelJobRun, FinishCancel
<1>3. ASSUME NEW r \in JobRuns, JobRunDispatcherStep(r)
      PROVE  UNCHANGED <<attempt, started, spawning, launched, spawns>>
  BY <1>3 DEF JobRunDispatcherStep, SkipQueued, FinishSkip, ReleaseTaskRuns, SetJobRunRunning
<1>4. ASSUME NEW tr \in TaskRuns, InsertTaskRun(tr) \/ TaskRunDispatcherStep(tr)
      PROVE  UNCHANGED <<attempt, started, spawning, launched, spawns>>
  BY <1>4 DEF InsertTaskRun, TaskRunDispatcherStep, SkipTaskRun, StartTaskRun
<1> QED
  BY <1>1, <1>2, <1>3, <1>4 DEF SelectScheduled

LEMMA TaskRunMonitorKeeps ==
  ASSUME AttemptInv, NEW tr \in TaskRuns, TaskRunMonitorStep(tr)
  PROVE  Kept
<1>1. CASE SettleTaskRun(tr)
  BY <1>1, ElsewhereKeeps DEF SettleTaskRun, attPolls, commands
<1>2. ASSUME NEW a \in AttemptIds, attempt[a] = "None", InsertAttempt(a)
      PROVE  SpawnMemory' /\ RoomToSpawn' /\ SpawnedOnce' /\ SlotsRespected'
  <2>1. SpawnMemory'
    BY <1>2 DEF InsertAttempt, AttemptInv, SpawnMemory, TypeOK, attPolls, commands
  <2>2. RunningAttempts' \subseteq RunningAttempts
    BY <1>2 DEF InsertAttempt, RunningAttempts, AttemptInv, TypeOK
  <2> QED
    BY <2>1, <2>2, <1>2, NoAttemptStarts
    DEF InsertAttempt, AttemptInv, SpawnedOnce, attPolls, commands
<1>3. CASE StartFirstAttempt(tr)
  <2>1. 1 \in AttemptNumbers
    BY BoundAssumption, RowAssumption DEF AttemptNumbers
  <2> QED
    BY <1>2, <1>3, <2>1, LadderClimbed
    DEF StartFirstAttempt, AttemptInv, AttemptIds, Kept, TaskRunMonitorStep
<1>4. CASE RetryAttempt(tr)
  <2>1. PICK n \in AttemptNumbers :
          IsLastAttempt(tr, n) /\ n + 1 \in AttemptNumbers /\ InsertAttempt(<<tr, n + 1>>)
    BY <1>4 DEF RetryAttempt
  <2>2. attempt[<<tr, n + 1>>] = "None"
    BY <2>1 DEF IsLastAttempt, AttemptNumbers
  <2> QED
    BY <1>2, <1>4, <2>1, <2>2, LadderClimbed
    DEF AttemptInv, AttemptIds, Kept, TaskRunMonitorStep
<1> QED
  BY <1>1, <1>3, <1>4 DEF TaskRunMonitorStep

LEMMA AttemptDispatcherKeeps ==
  ASSUME AttemptInv, NEW a \in AttemptIds, AttemptDispatcherStep(a)
  PROVE  Kept
<1> USE DEF AttemptInv, SpawnMemory, TypeOK, OnlyUnfinishedChange, UnfinishedAttempt,
            AttemptDispatcherIdle, AlreadySpawned, rows, commands
<1>1. CASE InvalidateSpawned(a)
  BY <1>1, NoSpawnKeeps DEF InvalidateSpawned, attPolls
<1>2. CASE SkipAttempt(a)
  BY <1>2, NoSpawnKeeps DEF SkipAttempt, attPolls
<1>3. CASE BeginSpawn(a)
  <2>1. SpawnMemory' /\ SpawnedOnce' /\ OnlyUnfinishedChange
    BY <1>3 DEF BeginSpawn, SpawnedOnce
  <2>2. RunningAttempts' = RunningAttempts /\ \A l \in Limits : ClaimedSlots(l)' = ClaimedSlots(l)
    BY <1>3 DEF BeginSpawn, RunningAttempts, ClaimedSlots
  <2>3. SlotsRespected'
    BY <2>2 DEF SlotsRespected
  <2>4. ~ShouldStayQueued(a[1])'
    BY <1>3, <2>2, RowAssumption
    DEF BeginSpawn, ShouldStayQueued, AClaimedLimitIsFull, AttemptIds
  <2>5. RoomToSpawn'
    BY <1>3, <2>4 DEF BeginSpawn, RoomToSpawn
  <2> QED
    BY <2>1, <2>3, <2>5, LadderKept DEF Kept
<1>4. CASE SpawnCommand(a)
  <2>1. SpawnMemory' /\ SpawnedOnce' /\ OnlyUnfinishedChange
    BY <1>4 DEF SpawnCommand, SpawnedOnce
  <2>2. RunningAttempts' = RunningAttempts
    BY <1>4 DEF SpawnCommand, RunningAttempts
  <2>3. spawning' \cup launched' \subseteq spawning \cup launched
    BY <1>4 DEF SpawnCommand
  <2> QED
    BY <2>1, <2>2, <2>3, NoAttemptStarts, LadderKept DEF Kept
<1>5. CASE SpawnFails(a)
  BY <1>5, NoSpawnKeeps DEF SpawnFails
<1>6. CASE RecordRunning(a)
  <2>1. SpawnMemory' /\ SpawnedOnce' /\ OnlyUnfinishedChange
    BY <1>6 DEF RecordRunning, SpawnedOnce
  <2> QED
    BY <2>1, <1>6, AnAttemptStarts, LadderKept DEF Kept
<1> QED
  BY <1>1, <1>2, <1>3, <1>4, <1>5, <1>6 DEF AttemptDispatcherStep

\* TaskRunAttemptMonitor settles Running attempts only, and so does the recovery.
LEMMA RunningSettles ==
  ASSUME AttemptInv, NEW a \in AttemptIds, attempt[a] = "Running",
         NEW s \in FinishedAttempt, attempt' = [attempt EXCEPT ![a] = s],
         UNCHANGED <<started, spawning, launched, spawns>>
  PROVE  Kept
<1>1. SpawnMemory' /\ OnlyUnfinishedChange
  BY DEF AttemptInv, SpawnMemory, TypeOK, OnlyUnfinishedChange, UnfinishedAttempt
<1>2. \A b \in AttemptIds : attempt'[b] = "Running" => attempt[b] = "Running"
  BY DEF AttemptInv, TypeOK, FinishedAttempt
<1> QED
  BY <1>1, <1>2, NoSpawnKeeps

LEMMA AttemptMonitorKeeps ==
  ASSUME AttemptInv, NEW a \in AttemptIds, AttemptMonitorStep(a)
  PROVE  Kept
<1> USE DEF FinishAttempt, FinishedAttempt
<1>1. CASE InvalidateLost(a)
  BY <1>1, RunningSettles DEF InvalidateLost
<1>2. CASE SettleExited(a)
  BY <1>2, RunningSettles DEF SettleExited
<1>3. ASSUME NEW s \in {"TimedOut", "Aborted"}, attempt[a] = "Running", BeginTermination(a, s)
      PROVE  Kept
  BY <1>3, RunningSettles, ElsewhereKeeps DEF BeginTermination, rows, commands
<1>4. CASE TimeOutAttempt(a)
  BY <1>3, <1>4 DEF TimeOutAttempt
<1>5. CASE AbortAttempt(a)
  BY <1>3, <1>5 DEF AbortAttempt
<1>6. CASE EndTermination(a)
  BY <1>6, RunningSettles DEF EndTermination
<1> QED
  BY <1>1, <1>2, <1>4, <1>5, <1>6 DEF AttemptMonitorStep

LEMMA WorldKeeps ==
  ASSUME AttemptInv, WriteFails \/ ServerStep
  PROVE  Kept
<1> USE DEF AttemptInv, SpawnMemory, OnlyUnfinishedChange, rows, attPolls, commands
<1>1. CASE JobRunWriteFails
  BY <1>1, ElsewhereKeeps DEF JobRunWriteFails
<1>2. ASSUME NEW a \in AttemptIds, SpawnWriteFails(a)
      PROVE  Kept
  BY <1>2, NoSpawnKeeps DEF SpawnWriteFails
<1>3. ASSUME NEW a \in AttemptIds, MonitorWriteFails(a)
      PROVE  Kept
  BY <1>3, ElsewhereKeeps DEF MonitorWriteFails
<1>4. CASE Crash \/ Shutdown
  BY <1>4, NoSpawnKeeps DEF Crash, Shutdown, LoseMemory
<1>5. CASE Restart \/ FinishRecovery
  BY <1>5, ElsewhereKeeps DEF Restart, FinishRecovery
<1> QED
  BY <1>1, <1>2, <1>3, <1>4, <1>5 DEF WriteFails, ServerStep

LEMMA CommandKeeps ==
  ASSUME AttemptInv, NEW a \in AttemptIds, ExitCommand(a) \/ RecoverAttempt(a)
  PROVE  Kept
<1>1. CASE ExitCommand(a)
  BY <1>1, ElsewhereKeeps DEF ExitCommand, rows, attPolls
<1>2. CASE RecoverAttempt(a)
  BY <1>2, RunningSettles DEF RecoverAttempt, FinishedAttempt, attPolls
<1> QED
  BY <1>1, <1>2

LEMMA StepKeeps ==
  ASSUME AttemptInv, [Next]_vars
  PROVE  Kept
<1>1. CASE UNCHANGED vars
  BY <1>1, ElsewhereKeeps DEF vars, rows, attPolls, commands
<1>2. ASSUME NEW r \in JobRuns,
             FrontendStep(r) \/ JobRunReleaserStep(r) \/ JobRunDispatcherStep(r) \/ SettleJobRun(r)
      PROVE  Kept
  BY <1>2, JobServicesElsewhere, ElsewhereKeeps
<1>3. CASE SelectScheduled
  BY <1>3, JobServicesElsewhere, ElsewhereKeeps
<1>4. ASSUME NEW tr \in TaskRuns,
             InsertTaskRun(tr) \/ TaskRunDispatcherStep(tr) \/ TaskRunMonitorStep(tr)
      PROVE  Kept
  BY <1>4, JobServicesElsewhere, ElsewhereKeeps, TaskRunMonitorKeeps
<1>5. ASSUME NEW a \in AttemptIds,
             AttemptDispatcherStep(a) \/ AttemptMonitorStep(a) \/ ExitCommand(a) \/ RecoverAttempt(a)
      PROVE  Kept
  BY <1>5, AttemptDispatcherKeeps, AttemptMonitorKeeps, CommandKeeps
<1>6. CASE WriteFails \/ ServerStep
  BY <1>6, WorldKeeps
<1> QED
  BY <1>1, <1>2, <1>3, <1>4, <1>5, <1>6 DEF Next

-----------------------------------------------------------------------------
LEMMA InitAttemptInv == Init => AttemptInv
<1> SUFFICES ASSUME Init PROVE AttemptInv
  OBVIOUS
<1>1. SpawnMemory /\ RoomToSpawn /\ SpawnedOnce
  BY DEF Init, SpawnMemory, RoomToSpawn, SpawnedOnce
<1>2. AttemptLadder
  BY DEF Init, AttemptLadder, AttemptIds
<1>3. RunningAttempts = {} /\ \A l \in Limits : ClaimedSlots(l) = {}
  BY DEF Init, RunningAttempts, ClaimedSlots
<1>4. SlotsRespected
  BY <1>3, FS_EmptySet, ConfigAssumption DEF SlotsRespected
<1> QED
  BY <1>1, <1>2, <1>4, InitTypes DEF AttemptInv

LEMMA AttemptInvariant == Spec => []AttemptInv
<1>1. AttemptInv /\ TypeOK' /\ [Next]_vars => AttemptInv'
  BY StepKeeps DEF AttemptInv, Kept
<1> QED
  BY InitAttemptInv, <1>1, TypeCorrect, PTL DEF Spec

\* A crash or a failed write anywhere around the spawn never has the command of
\* an attempt spawned a second time.
THEOREM SpawnsAreOnce == Spec => []SpawnedOnce
<1>1. AttemptInv => SpawnedOnce
  BY DEF AttemptInv
<1> QED
  BY <1>1, AttemptInvariant, PTL

\* The Running attempts stay within max_running_attempts and within every limit
\* they claim, with any number of runs contending.
THEOREM SlotsAreRespected == Spec => []SlotsRespected
<1>1. AttemptInv => SlotsRespected
  BY DEF AttemptInv
<1> QED
  BY <1>1, AttemptInvariant, PTL

\* A task run has at most max_retries + 1 attempts, numbered without a gap, each
\* but the last of them Failed.
THEOREM AttemptsFormALadder == Spec => []AttemptLadder
<1>1. AttemptInv => AttemptLadder
  BY DEF AttemptInv
<1> QED
  BY <1>1, AttemptInvariant, PTL

-----------------------------------------------------------------------------
(* The commands as the operating system has them, against what the rows    *)
(* and the memory of the server say of them.                               *)

\* What a row tells of its command: a failure is one the monitor saw exit, a row
\* that is not there was never spawned, and a group is recorded with Running.
RowsTell ==
  \A a \in AttemptIds :
    /\ attempt[a] = "Failed" => process[a] # "running"
    /\ process[a] # "none" => attempt[a] # "None"
    /\ a \in group => attempt[a] \notin {"None", "Queued"}
\* A command that was spawned is in the map before its row says so.
LaunchedIsHeld == \A a \in launched : children[a] # "absent"
CommandInv == RowsTell /\ LaunchedIsHeld /\ RunningHasCommand /\ SettledIsDead

\* All that CommandInv looks at.
seen == <<attempt, group, launched, children, process, server, errors>>

-----------------------------------------------------------------------------
LEMMA SeenElsewhere ==
  /\ \A r \in JobRuns :
       FrontendStep(r) \/ JobRunReleaserStep(r) \/ JobRunDispatcherStep(r) \/ SettleJobRun(r)
         => UNCHANGED seen
  /\ SelectScheduled => UNCHANGED seen
  /\ \A tr \in TaskRuns :
       InsertTaskRun(tr) \/ TaskRunDispatcherStep(tr) \/ SettleTaskRun(tr) => UNCHANGED seen
<1> USE DEF seen, rows, attPolls, commands, world
<1>1. ASSUME NEW r \in JobRuns, FrontendStep(r) \/ SettleJobRun(r) PROVE UNCHANGED seen
  BY <1>1 DEF FrontendStep, Submit, StopJobRun, DeleteJobRun, SkipTaskRunsOf, FallDue, SettleJobRun
<1>2. ASSUME NEW r \in JobRuns, JobRunReleaserStep(r) PROVE UNCHANGED seen
  BY <1>2 DEF JobRunReleaserStep, ReleaseJobRun, LeaveScheduled, CancelJobRun, FinishCancel
<1>3. ASSUME NEW r \in JobRuns, JobRunDispatcherStep(r) PROVE UNCHANGED seen
  BY <1>3 DEF JobRunDispatcherStep, SkipQueued, FinishSkip, ReleaseTaskRuns, SetJobRunRunning
<1>4. ASSUME NEW tr \in TaskRuns, InsertTaskRun(tr) \/ TaskRunDispatcherStep(tr) \/ SettleTaskRun(tr)
      PROVE  UNCHANGED seen
  BY <1>4 DEF InsertTaskRun, TaskRunDispatcherStep, SkipTaskRun, StartTaskRun, SettleTaskRun
<1> QED
  BY <1>1, <1>2, <1>3, <1>4 DEF SelectScheduled

LEMMA SeenKeeps ==
  ASSUME CommandInv, UNCHANGED seen
  PROVE  CommandInv'
BY DEF CommandInv, RowsTell, LaunchedIsHeld, RunningHasCommand, SettledIsDead, seen

\* An attempt that is inserted has no command yet.
LEMMA InsertKeepsCommands ==
  ASSUME TypeOK, CommandInv, NEW tr \in TaskRuns, StartFirstAttempt(tr) \/ RetryAttempt(tr)
  PROVE  CommandInv'
<1>1. PICK a \in AttemptIds :
        /\ attempt[a] = "None" /\ attempt' = [attempt EXCEPT ![a] = "Queued"]
        /\ UNCHANGED <<group, launched, children, process, server, errors>>
  <2>1. 1 \in AttemptNumbers
    BY BoundAssumption, RowAssumption DEF AttemptNumbers
  <2>2. CASE StartFirstAttempt(tr)
    BY <2>1, <2>2 DEF StartFirstAttempt, InsertAttempt, AttemptIds, attPolls, commands, world
  <2>3. CASE RetryAttempt(tr)
    <3>1. PICK n \in AttemptNumbers :
            IsLastAttempt(tr, n) /\ n + 1 \in AttemptNumbers /\ InsertAttempt(<<tr, n + 1>>)
      BY <2>3 DEF RetryAttempt
    <3>2. attempt[<<tr, n + 1>>] = "None"
      BY <3>1 DEF IsLastAttempt, AttemptNumbers
    <3> QED
      BY <3>1, <3>2 DEF InsertAttempt, AttemptIds, attPolls, commands, world
  <2> QED
    BY <2>2, <2>3
<1>2. \A b \in AttemptIds \ {a} : attempt'[b] = attempt[b]
  BY <1>1 DEF TypeOK
<1>3. attempt'[a] = "Queued" /\ a \notin group
  BY <1>1 DEF TypeOK, CommandInv, RowsTell
<1> QED
  BY <1>1, <1>2, <1>3 DEF CommandInv, RowsTell, LaunchedIsHeld, RunningHasCommand, SettledIsDead,
     TypeOK, FinishedAttempt

LEMMA DispatcherKeepsCommands ==
  ASSUME AttemptInv, CommandInv, NEW a \in AttemptIds, AttemptDispatcherStep(a)
  PROVE  CommandInv'
<1> USE DEF AttemptInv, SpawnMemory, TypeOK, CommandInv, RowsTell, LaunchedIsHeld, RunningHasCommand,
            SettledIsDead, FinishedAttempt, attPolls, commands, world, rows
<1>1. CASE InvalidateSpawned(a) \/ SkipAttempt(a)
  BY <1>1 DEF InvalidateSpawned, SkipAttempt, AttemptDispatcherIdle
<1>2. CASE BeginSpawn(a) \/ SpawnFails(a)
  <2>1. UNCHANGED seen
    BY <1>2 DEF BeginSpawn, SpawnFails, seen
  <2> QED
    BY <2>1, SeenKeeps
<1>3. CASE SpawnCommand(a)
  BY <1>3 DEF SpawnCommand
<1>4. CASE RecordRunning(a)
  BY <1>4 DEF RecordRunning
<1> QED
  BY <1>1, <1>2, <1>3, <1>4 DEF AttemptDispatcherStep

\* The monitor settles a Running attempt whose command it has seen end or has killed,
\* unless it has lost it to a failed write.
LEMMA SettlesDead ==
  ASSUME AttemptInv, CommandInv, NEW a \in AttemptIds, attempt[a] = "Running",
         NEW s \in FinishedAttempt, FinishAttempt(a, s),
         Killed(a) \/ UNCHANGED process,
         process'[a] # "running" \/ (s = "Invalid" /\ children[a] = "absent" /\ server = "up")
  PROVE  CommandInv'
<1>1. /\ \A b \in AttemptIds \ {a} : attempt'[b] = attempt[b] /\ process'[b] = process[b]
                                     /\ children'[b] = children[b]
      /\ attempt'[a] = s /\ UNCHANGED <<group, launched, server, errors>>
  BY DEF FinishAttempt, Killed, AttemptInv, TypeOK, world
<1>2. s \notin {"None", "Queued", "Running"} /\ (s = "Failed" => process'[a] # "running")
  BY DEF FinishedAttempt
<1>3. a \notin launched
  BY DEF AttemptInv, SpawnMemory
<1>4. errors = 0 => process'[a] # "running"
  BY DEF CommandInv, RunningHasCommand
<1> QED
  BY <1>1, <1>2, <1>3, <1>4 DEF CommandInv, RowsTell, LaunchedIsHeld, RunningHasCommand,
     SettledIsDead, AttemptInv, TypeOK

LEMMA MonitorKeepsCommands ==
  ASSUME AttemptInv, CommandInv, NEW a \in AttemptIds, AttemptMonitorStep(a)
  PROVE  CommandInv'
<1> USE DEF FinishedAttempt
<1>1. Killed(a) => process'[a] # "running"
  BY DEF Killed, AttemptInv, TypeOK
<1>2. CASE InvalidateLost(a)
  BY <1>2, SettlesDead DEF InvalidateLost
<1>3. CASE SettleExited(a)
  BY <1>3, SettlesDead DEF SettleExited
<1>4. ASSUME NEW s \in {"TimedOut", "Aborted"}, attempt[a] = "Running", children[a] = "held",
             BeginTermination(a, s)
      PROVE  CommandInv'
  <2>1. CASE KillGrace
    BY <1>4, <2>1 DEF BeginTermination, AttemptInv, TypeOK, CommandInv, RowsTell, LaunchedIsHeld,
       RunningHasCommand, SettledIsDead, rows, commands, world
  <2>2. CASE ~KillGrace
    BY <1>1, <1>4, <2>2, SettlesDead DEF BeginTermination
  <2> QED
    BY <2>1, <2>2
<1>5. CASE TimeOutAttempt(a) \/ AbortAttempt(a)
  BY <1>4, <1>5 DEF TimeOutAttempt, AbortAttempt
<1>6. CASE EndTermination(a)
  BY <1>1, <1>6, SettlesDead DEF EndTermination
<1> QED
  BY <1>2, <1>3, <1>5, <1>6 DEF AttemptMonitorStep

LEMMA ProcessKeepsCommands ==
  ASSUME AttemptInv, CommandInv, NEW a \in AttemptIds, ExitCommand(a) \/ RecoverAttempt(a)
  PROVE  CommandInv'
<1> USE DEF AttemptInv, TypeOK, CommandInv, RowsTell, LaunchedIsHeld, RunningHasCommand,
            SettledIsDead, rows, attPolls, world
<1>1. CASE ExitCommand(a)
  BY <1>1 DEF ExitCommand
<1>2. CASE RecoverAttempt(a)
  BY <1>2 DEF RecoverAttempt, KillOrphan, Killed, SpawnMemory, FinishedAttempt
<1> QED
  BY <1>1, <1>2

LEMMA WorldKeepsCommands ==
  ASSUME AttemptInv, CommandInv, WriteFails \/ ServerStep
  PROVE  CommandInv'
<1> USE DEF AttemptInv, TypeOK, CommandInv, RowsTell, LaunchedIsHeld, RunningHasCommand,
            SettledIsDead, rows, attPolls, commands
<1>1. ASSUME CountError PROVE errors' # 0
  BY <1>1, BoundAssumption DEF CountError
<1>2. CASE JobRunWriteFails
  BY <1>1, <1>2 DEF JobRunWriteFails
<1>3. ASSUME NEW a \in AttemptIds, SpawnWriteFails(a) PROVE CommandInv'
  BY <1>1, <1>3 DEF SpawnWriteFails
<1>4. ASSUME NEW a \in AttemptIds, MonitorWriteFails(a) PROVE CommandInv'
  BY <1>1, <1>4 DEF MonitorWriteFails, Killed, SpawnMemory
<1>5. CASE Crash \/ Shutdown
  BY <1>5 DEF Crash, Shutdown, LoseMemory
<1>6. CASE Restart \/ FinishRecovery
  BY <1>6 DEF Restart, FinishRecovery, RecoveryIsDone, RunningAttempts
<1> QED
  BY <1>2, <1>3, <1>4, <1>5, <1>6 DEF WriteFails, ServerStep

LEMMA CommandInvariant == Spec => []CommandInv
<1>1. Init => CommandInv
  BY DEF Init, CommandInv, RowsTell, LaunchedIsHeld, RunningHasCommand, SettledIsDead
<1>2. AttemptInv /\ CommandInv /\ [Next]_vars => CommandInv'
  <2> SUFFICES ASSUME AttemptInv, CommandInv, [Next]_vars PROVE CommandInv'
    OBVIOUS
  <2>1. CASE UNCHANGED vars
    BY <2>1, SeenKeeps DEF vars, seen, rows, attPolls, commands, world
  <2>2. ASSUME NEW tr \in TaskRuns, TaskRunMonitorStep(tr) PROVE CommandInv'
    BY <2>2, InsertKeepsCommands, SeenElsewhere, SeenKeeps DEF TaskRunMonitorStep, AttemptInv
  <2> QED
    BY <2>1, <2>2, SeenElsewhere, SeenKeeps, DispatcherKeepsCommands, MonitorKeepsCommands,
       ProcessKeepsCommands, WorldKeepsCommands DEF Next
<1> QED
  BY <1>1, <1>2, AttemptInvariant, PTL DEF Spec

-----------------------------------------------------------------------------
\* Two commands of a task run never run at once: an attempt after another is there
\* because the one before it was seen to fail, which takes an exit.
THEOREM OneCommandAtATime == Spec => []OneCommandPerTask
<1>1. AttemptInv /\ CommandInv => OneCommandPerTask
  <2> SUFFICES ASSUME AttemptInv, CommandInv,
                      NEW tr \in TaskRuns, NEW m \in AttemptNumbers, NEW n \in AttemptNumbers,
                      process[<<tr, m>>] = "running", process[<<tr, n>>] = "running"
               PROVE  m = n
    BY DEF OneCommandPerTask
  <2>1. /\ m \in Nat /\ n \in Nat /\ m > 0 /\ n > 0
        /\ <<tr, m>> \in AttemptIds /\ <<tr, n>> \in AttemptIds
    BY BoundAssumption DEF AttemptNumbers, AttemptIds
  <2>2. /\ attempt[<<tr, m>>] \notin {"None", "Failed"}
        /\ attempt[<<tr, n>>] \notin {"None", "Failed"}
    BY <2>1 DEF CommandInv, RowsTell
  <2>3. ~(m < n) /\ ~(n < m)
    BY <2>1, <2>2 DEF AttemptInv, AttemptLadder
  <2> QED
    BY <2>1, <2>3
<1> QED
  BY <1>1, AttemptInvariant, CommandInvariant, PTL

\* Unless a write failed, a server that is up holds the child of every Running
\* attempt, through any crash and recovery.
THEOREM RunningIsHeld == Spec => []RunningHasCommand
<1>1. CommandInv => RunningHasCommand
  BY DEF CommandInv
<1> QED
  BY <1>1, CommandInvariant, PTL

\* Unless a write failed or the boot time is unreadable, no attempt whose group was
\* recorded is finished with its command still running.
THEOREM SettledCommandsAreDead == Spec => []SettledIsDead
<1>1. CommandInv => SettledIsDead
  BY DEF CommandInv
<1> QED
  BY <1>1, CommandInvariant, PTL

==============================================================================
