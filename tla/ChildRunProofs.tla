---------------------------- MODULE ChildRunProofs ----------------------------
(***************************************************************************)
(* What holds of the runs tasks submit and of the slots they lend, for     *)
(* families of any shape and any number of stops, crashes and failed       *)
(* cascades.                                                               *)
(***************************************************************************)
EXTENDS ChildRuns, FiniteSetTheorems, TLAPS

Bad == {"Failed", "Aborted", "TimedOut", "Invalid"}

\* A row that has not begun tells of nothing having happened to it: a run before its
\* start has no attempts, one that is not there has no parent, an attempt whose
\* started_at is not set has no command and no children.
Unbegun ==
  /\ \A a \in Attempts : jobRun[a[1]] \in {"None", "Scheduled"} => attempt[a] = "None"
  /\ \A c \in JobRuns : jobRun[c] = "None" => parent[c] = NoAttempt
  /\ \A a \in Attempts : process[a] # "none" => a \in begun
  /\ submitting \subseteq begun
  /\ \A c \in JobRuns : parent[c] # NoAttempt => parent[c] \in begun

\* What the server has in memory agrees with the rows, and recovery starts empty.
Memory ==
  /\ \A a \in launching : attempt[a] = "Queued"
  /\ recovering => held = {} /\ launching = {}
  /\ settling # NoSettling =>
       /\ settling.attempt \in Attempts /\ settling.status \in Bad
       /\ attempt[settling.attempt] = "Running" /\ settling.attempt \notin held
       /\ \A c \in settling.children : parent[c] = settling.attempt

\* An attempt being settled has every child that must be stopped on its list.
Listed ==
  \A c \in JobRuns \ escaped :
    settling # NoSettling /\ parent[c] = settling.attempt /\ ~Finished(c)
      => c \in settling.children \cup stopRow

\* The attempt of a cascade has been let go and can no longer succeed.
Doomed ==
  \A c \in cascaded :
    /\ parent[c] \in Attempts /\ parent[c] \notin held
    /\ attempt[parent[c]] \in Bad \cup {"Running"}

Fate ==
  \A c \in JobRuns \ escaped :
    parent[c] # NoAttempt /\ EndedBadly(parent[c]) /\ ~Finished(c) => c \in stopRow

FamilyInv == TypeOK /\ Unbegun /\ Memory /\ Listed /\ Doomed /\ Fate

-----------------------------------------------------------------------------
(* The types.                                                              *)

LEMMA NoAttemptIsNone == NoAttempt \notin Attempts
BY ChildRunsAssumption DEF NoAttempt, Attempts, JobRuns

LEMMA ConfigTypes ==
  ASSUME config \in Configs
  PROVE  /\ config.stops \in Nat /\ config.faults \in Nat
         /\ config.maxRetries \in [JobRuns -> 0..(MaxAttempts - 1)]
BY ChildRunsAssumption

LEMMA InitFamily == Init => FamilyInv
<1> SUFFICES ASSUME Init PROVE FamilyInv
  OBVIOUS
<1>1. TypeOK
  <2>1. stops \in 0..config.stops /\ faults \in 0..config.faults
    BY ConfigTypes DEF Init
  <2> QED
    BY <2>1 DEF Init, TypeOK, NoSettling, JobRunStatus, UnfinishedJobRun
<1>2. Unbegun /\ Memory /\ Doomed /\ Listed /\ Fate
  BY DEF Init, Unbegun, Memory, Doomed, Listed, Fate
<1> QED
  BY <1>1, <1>2 DEF FamilyInv

LEMMA RunTypes ==
  ASSUME TypeOK, NEW r \in JobRuns, RunStep(r) \/ StopJobRun(r)
  PROVE  TypeOK'
<1> USE DEF TypeOK, runs, attempts, memory, commands, bounds, history, pipeline
<1>1. CASE StartRun(r)
  BY <1>1 DEF StartRun, JobRunStatus, UnfinishedJobRun, AttemptStatus, UnfinishedAttempt
<1>2. CASE SkipRun(r)
  BY <1>2 DEF SkipRun, JobRunStatus, FinishedJobRun
<1>3. CASE StopJobRun(r)
  BY <1>3, ConfigTypes DEF StopJobRun
<1> QED
  BY <1>1, <1>2, <1>3 DEF RunStep

LEMMA VerdictTypes == \A s : JobRunVerdict(s) \in JobRunStatus
BY DEF JobRunVerdict, JobRunStatus, FinishedJobRun

LEMMA AttemptTypes ==
  ASSUME TypeOK, NEW a \in Attempts, AttemptStep(a)
  PROVE  TypeOK'
<1> USE DEF TypeOK, runs, attempts, memory, commands, bounds, history, pipeline
<1>1. CASE Retry(a)
  BY <1>1 DEF Retry, AttemptStatus, UnfinishedAttempt
<1>2. CASE SettleRun(a)
  BY <1>2, VerdictTypes DEF SettleRun
<1>3. CASE BeginSpawn(a)
  BY <1>3 DEF BeginSpawn
<1>4. CASE RecordRunning(a)
  BY <1>4 DEF RecordRunning, AttemptStatus, UnfinishedAttempt
<1>5. CASE SetToInvalidAlreadySpawned(a) \/ SkipAttempt(a)
  BY <1>5 DEF SetToInvalidAlreadySpawned, SkipAttempt, Children, AttemptStatus, FinishedAttempt
<1>6. CASE Succeed(a)
  BY <1>6 DEF Succeed, AttemptStatus, FinishedAttempt
<1>7. ASSUME Kill(a) \/ UNCHANGED commands
      PROVE  /\ process' \in [Attempts -> {"none", "running", "zero", "nonzero", "killed"}]
             /\ submitting' \subseteq Attempts
             /\ waitsFor' \in [Attempts -> {0} \cup JobRuns]
  BY <1>7 DEF Kill
<1>8. ASSUME NEW status \in Bad, BeginSettling(a, status)
      PROVE  settling' \in [attempt : Attempts \cup {NoAttempt},
                            status : {"None", "Failed", "Aborted", "TimedOut", "Invalid"},
                            children : SUBSET JobRuns]
  BY <1>8 DEF BeginSettling, UnfinishedChildren, Children, Bad
<1>9. CASE BeginBadEnding(a)
  <2>1. BadEnding(a) \subseteq Bad
    BY DEF BadEnding, Bad
  <2> QED
    BY <1>7, <1>8, <1>9, <2>1 DEF BeginBadEnding
<1>10. CASE Recover(a)
  BY <1>7, <1>8, <1>10 DEF Recover, Bad
<1> QED
  BY <1>1, <1>2, <1>3, <1>4, <1>5, <1>6, <1>9, <1>10 DEF AttemptStep

LEMMA CommandTypes ==
  ASSUME TypeOK, NEW a \in Attempts, CommandStep(a)
  PROVE  TypeOK'
<1> USE DEF TypeOK, runs, attempts, memory, commands, bounds, history
<1>1. CASE ExitCommand(a) \/ CheckParent(a) \/ CancelWait(a)
  BY <1>1 DEF ExitCommand, CheckParent, CancelWait
<1>2. CASE InsertChild(a)
  BY <1>2 DEF InsertChild, JobRunStatus, UnfinishedJobRun
<1>3. CASE WaitStep(a)
  BY <1>3 DEF WaitStep, StampWait, EndWait, SetWaiting
<1> QED
  BY <1>1, <1>2, <1>3 DEF CommandStep

LEMMA SettlingTypes ==
  ASSUME TypeOK, SettlingStep \/ Crash \/ CascadeFails
  PROVE  TypeOK'
<1> USE DEF TypeOK, runs, attempts, memory, commands, bounds, history
<1>1. ASSUME NEW c \in JobRuns, StopChild(c) PROVE TypeOK'
  BY <1>1 DEF StopChild
<1>2. CASE FinishAttempt
  <2>1. attempt' \in [Attempts -> AttemptStatus \cup {"None"}]
    BY <1>2 DEF FinishAttempt, AttemptStatus, FinishedAttempt
  <2> QED
    BY <1>2, <2>1 DEF FinishAttempt, NoSettling
<1>3. CASE FinishRecovery
  BY <1>3 DEF FinishRecovery
<1>4. CASE Crash \/ CascadeFails
  <2>1. config' = config /\ faults' \in 0..config.faults
    BY <1>4, ConfigTypes DEF Crash, CascadeFails, Fault
  <2>2. CASE Crash
    BY <2>1, <2>2 DEF Crash, NoSettling
  <2>3. CASE CascadeFails
    BY <2>1, <2>3 DEF CascadeFails, NoSettling
  <2> QED
    BY <1>4, <2>2, <2>3
<1> QED
  BY <1>1, <1>2, <1>3, <1>4 DEF SettlingStep

LEMMA TypesStep == TypeOK /\ [Next]_vars => TypeOK'
<1>1. TypeOK /\ UNCHANGED vars => TypeOK'
  BY DEF TypeOK, vars, runs, attempts, memory, commands, bounds, history
<1> QED
  BY <1>1, RunTypes, AttemptTypes, CommandTypes, SettlingTypes DEF Next

-----------------------------------------------------------------------------
(* What has not begun.                                                     *)
LEMMA UnbegunStep == FamilyInv /\ TypeOK' /\ [Next]_vars => Unbegun'
<1> SUFFICES ASSUME FamilyInv, TypeOK', [Next]_vars PROVE Unbegun'
  OBVIOUS
<1> USE NoAttemptIsNone DEF FamilyInv, TypeOK, Unbegun
<1>1. ASSUME NEW r \in JobRuns, RunStep(r) \/ StopJobRun(r) PROVE Unbegun'
  BY <1>1 DEF RunStep, StartRun, SkipRun, StopJobRun, pipeline, commands, attempts, Attempts
<1>2. ASSUME NEW a \in Attempts, Retry(a) \/ SettleRun(a) PROVE Unbegun'
  <2>1. jobRun[a[1]] = "Running" /\ UNCHANGED <<parent, begun, process, submitting>>
    BY <1>2 DEF Retry, SettleRun, pipeline, commands
  <2>2. CASE Retry(a)
    BY <2>1, <2>2 DEF Retry, Attempts
  <2>3. CASE SettleRun(a)
    BY <2>1, <2>3, VerdictTypes DEF SettleRun, JobRunVerdict
  <2> QED
    BY <1>2, <2>2, <2>3
<1>3. ASSUME NEW a \in Attempts,
             BeginSpawn(a) \/ RecordRunning(a) \/ SetToInvalidAlreadySpawned(a) \/ SkipAttempt(a)
               \/ Succeed(a)
      PROVE  Unbegun'
  <2>1. attempt[a] \in {"Queued", "Running"}
    BY <1>3 DEF BeginSpawn, RecordRunning, SetToInvalidAlreadySpawned, SkipAttempt, Succeed, Memory
  <2> QED
    BY <1>3, <2>1 DEF BeginSpawn, RecordRunning, SetToInvalidAlreadySpawned, SkipAttempt,
       Succeed, runs, commands
<1>4. ASSUME NEW a \in Attempts, BeginBadEnding(a) \/ Recover(a) PROVE Unbegun'
  BY <1>4 DEF BeginBadEnding, Recover, Kill, runs, commands, attempts
<1>5. ASSUME NEW a \in Attempts, CommandStep(a) PROVE Unbegun'
  <2>1. CASE InsertChild(a)
    BY <2>1 DEF InsertChild, attempts
  <2>2. CASE ExitCommand(a) \/ CheckParent(a)
    BY <2>2 DEF ExitCommand, CheckParent, runs, attempts
  <2>3. CASE WaitStep(a) \/ CancelWait(a)
    BY <2>3 DEF WaitStep, StampWait, EndWait, CancelWait, runs, attempts, commands
  <2> QED
    BY <1>5, <2>1, <2>2, <2>3 DEF CommandStep
<1>6. CASE FinishAttempt
  BY <1>6 DEF FinishAttempt, Memory, runs, commands
<1>7. CASE FinishRecovery \/ (\E c \in JobRuns : StopChild(c)) \/ Crash \/ CascadeFails
           \/ UNCHANGED vars
  BY <1>7 DEF FinishRecovery, StopChild, Crash, CascadeFails, vars, runs, attempts, commands
<1> QED
  BY <1>1, <1>2, <1>3, <1>4, <1>5, <1>6, <1>7 DEF Next, AttemptStep, SettlingStep

-----------------------------------------------------------------------------
(* Memory.                                                                 *)
LEMMA MemoryStep == FamilyInv /\ TypeOK' /\ [Next]_vars => Memory'
<1> SUFFICES ASSUME FamilyInv, TypeOK', [Next]_vars PROVE Memory'
  OBVIOUS
<1> USE NoAttemptIsNone DEF FamilyInv, TypeOK, Memory
<1>1. ASSUME NEW r \in JobRuns, StartRun(r) PROVE Memory'
  BY <1>1 DEF StartRun, Unbegun, Attempts, pipeline, memory
<1>2. ASSUME NEW a \in Attempts, Retry(a) PROVE Memory'
  <2>1. \A b \in Attempts : attempt'[b] = attempt[b] \/ attempt[b] = "None"
    BY <1>2 DEF Retry, IsLast, Attempts
  <2> QED
    BY <1>2, <2>1 DEF Retry, pipeline, memory
<1>3. ASSUME NEW a \in Attempts,
             BeginSpawn(a) \/ RecordRunning(a) \/ SetToInvalidAlreadySpawned(a) \/ SkipAttempt(a)
      PROVE  Memory'
  BY <1>3 DEF BeginSpawn, RecordRunning, SetToInvalidAlreadySpawned, SkipAttempt, DispatcherIdle,
     runs, memory
<1>4. ASSUME NEW a \in Attempts, Succeed(a) PROVE Memory'
  BY <1>4 DEF Succeed, Idle, runs
<1>5. ASSUME NEW a \in Attempts, NEW status \in Bad, BeginSettling(a, status),
             attempt[a] = "Running", held' = held \ {a},
             UNCHANGED <<runs, attempt, launching, recovering>>
      PROVE  Memory'
  BY <1>5 DEF BeginSettling, UnfinishedChildren, Children, runs
<1>6. ASSUME NEW a \in Attempts, BeginBadEnding(a) PROVE Memory'
  <2>1. BadEnding(a) \subseteq Bad
    BY DEF BadEnding, Bad
  <2> QED
    BY <1>5, <1>6, <2>1 DEF BeginBadEnding, attempts
<1>7. ASSUME NEW a \in Attempts, Recover(a) PROVE Memory'
  <2>1. held' = held \ {a}
    BY <1>7 DEF Recover
  <2> QED
    BY <1>5, <1>7, <2>1 DEF Recover, Bad, attempts
<1>8. ASSUME NEW a \in Attempts, InsertChild(a) PROVE Memory'
  BY <1>8 DEF InsertChild, Unbegun, memory, attempts
<1>9. ASSUME NEW c \in JobRuns, StopChild(c) PROVE Memory'
  <2>1. settling # NoSettling
    BY <1>9 DEF StopChild, NoSettling
  <2>2. /\ settling'.attempt = settling.attempt /\ settling'.status = settling.status
        /\ settling'.children \subseteq settling.children
    BY <1>9 DEF StopChild
  <2> QED
    BY <1>9, <2>1, <2>2 DEF StopChild, attempts
<1>10. CASE FinishAttempt
  BY <1>10 DEF FinishAttempt, NoSettling, Bad, runs
<1>15. CASE Crash \/ CascadeFails
  BY <1>15 DEF Crash, CascadeFails, attempts, runs
<1>11. CASE UNCHANGED <<parent, attempt, launching, held, settling>> /\ recovering' \in {recovering, FALSE}
  BY <1>11
<1>12. ASSUME NEW a \in Attempts,
              SettleRun(a) \/ ExitCommand(a) \/ CheckParent(a) \/ WaitStep(a) \/ CancelWait(a)
       PROVE  UNCHANGED <<parent, attempt, memory, recovering>>
  BY <1>12 DEF SettleRun, pipeline, ExitCommand, CheckParent, WaitStep, StampWait, EndWait,
     CancelWait, runs, attempts
<1>13. ASSUME NEW r \in JobRuns, SkipRun(r) \/ StopJobRun(r)
       PROVE  UNCHANGED <<parent, attempt, memory, recovering>>
  BY <1>13 DEF SkipRun, StopJobRun, pipeline, attempts
<1>14. FinishRecovery \/ UNCHANGED vars =>
         UNCHANGED <<parent, attempt, memory>> /\ recovering' \in {recovering, FALSE}
  BY DEF FinishRecovery, vars, runs, attempts
<1> QED
  BY <1>1, <1>2, <1>3, <1>4, <1>6, <1>7, <1>8, <1>9, <1>10, <1>11, <1>12, <1>13, <1>14, <1>15
     DEF Next, AttemptStep, SettlingStep, RunStep, CommandStep, memory

-----------------------------------------------------------------------------
(* The children of an attempt that is being settled.                       *)

\* A run once settled stays so, and keeps the parent it was inserted with.
LEMMA RunsGoForward ==
  ASSUME FamilyInv, [Next]_vars, NEW c \in JobRuns
  PROVE  /\ Finished(c) => Finished(c)'
         /\ jobRun[c] # "None" => parent'[c] = parent[c]
         /\ stopRow \subseteq stopRow' /\ escaped \subseteq escaped'
<1> USE DEF FamilyInv, TypeOK, Finished, FinishedJobRun, runs, attempts, memory, commands, history,
            pipeline
<1>1. ASSUME NEW r \in JobRuns, RunStep(r) \/ StopJobRun(r)
      PROVE  /\ Finished(c) => Finished(c)'
             /\ parent' = parent /\ stopRow \subseteq stopRow' /\ escaped' = escaped
  BY <1>1 DEF RunStep, StartRun, SkipRun, StopJobRun
<1>2. ASSUME NEW a \in Attempts, AttemptStep(a)
      PROVE  /\ Finished(c) => Finished(c)'
             /\ parent' = parent /\ stopRow' = stopRow /\ escaped \subseteq escaped'
  <2>1. CASE SettleRun(a)
    BY <2>1 DEF SettleRun, Unbegun
  <2>2. CASE Retry(a) \/ BeginSpawn(a) \/ RecordRunning(a) \/ SetToInvalidAlreadySpawned(a)
             \/ SkipAttempt(a) \/ Succeed(a) \/ BeginBadEnding(a) \/ Recover(a)
    BY <2>2 DEF Retry, BeginSpawn, RecordRunning, SetToInvalidAlreadySpawned, SkipAttempt,
       Succeed, BeginBadEnding, Recover
  <2> QED
    BY <1>2, <2>1, <2>2 DEF AttemptStep
<1>3. ASSUME NEW a \in Attempts, CommandStep(a)
      PROVE  /\ Finished(c) => Finished(c)'
             /\ jobRun[c] # "None" => parent'[c] = parent[c]
             /\ stopRow' = stopRow /\ escaped \subseteq escaped'
  BY <1>3 DEF CommandStep, ExitCommand, CheckParent, InsertChild, WaitStep, StampWait, EndWait,
     CancelWait
<1>4. ASSUME SettlingStep \/ Crash \/ CascadeFails \/ UNCHANGED vars
      PROVE  /\ Finished(c) => Finished(c)'
             /\ parent' = parent /\ stopRow \subseteq stopRow' /\ escaped' = escaped
  BY <1>4 DEF SettlingStep, FinishAttempt, FinishRecovery, StopChild, Crash, CascadeFails, vars
<1> QED
  BY <1>1, <1>2, <1>3, <1>4 DEF Next

\* A child inserted after its parent's list was read has escaped.
LEMMA InsertedChild ==
  ASSUME FamilyInv, NEW a \in Attempts, InsertChild(a)
  PROVE  /\ UNCHANGED <<attempt, settling, cascaded, stopRow, held>>
         /\ \E n \in JobRuns :
              /\ jobRun[n] = "None" /\ parent[n] = NoAttempt
              /\ parent' = [parent EXCEPT ![n] = a]
              /\ jobRun' = [jobRun EXCEPT ![n] = "Scheduled"]
              /\ ListRead(a) => n \in escaped'
BY DEF InsertChild, FamilyInv, Unbegun, attempts, memory

LEMMA ListedStep == FamilyInv /\ TypeOK' /\ [Next]_vars => Listed'
<1> SUFFICES ASSUME FamilyInv, TypeOK', [Next]_vars PROVE Listed'
  OBVIOUS
<1> USE NoAttemptIsNone DEF FamilyInv, TypeOK, Listed
<1>1. ASSUME NEW a \in Attempts, InsertChild(a) PROVE Listed'
  BY <1>1, InsertedChild, RunsGoForward DEF ListRead, Finished
<1>2. CASE settling' = settling /\ parent' = parent
  BY <1>2, RunsGoForward
<1>3. CASE settling' = NoSettling
  BY <1>3
<1>4. ASSUME NEW a \in Attempts, NEW status, BeginSettling(a, status),
             UNCHANGED <<runs, history>>
      PROVE  Listed'
  BY <1>4 DEF BeginSettling, UnfinishedChildren, Children, Finished, runs, history
<1>5. ASSUME NEW a \in Attempts, BeginBadEnding(a) \/ Recover(a) PROVE Listed'
  BY <1>4, <1>5 DEF BeginBadEnding, Recover
<1>6. ASSUME NEW c \in JobRuns, StopChild(c) PROVE Listed'
  <2>1. settling # NoSettling
    BY <1>6 DEF StopChild, NoSettling
  <2>2. /\ settling'.attempt = settling.attempt
        /\ settling'.children = settling.children \ {c} /\ stopRow' = stopRow \cup {c}
        /\ UNCHANGED <<jobRun, parent, escaped>>
    BY <1>6 DEF StopChild
  <2> QED
    BY <2>1, <2>2 DEF Finished
<1>7. ASSUME NEW a \in Attempts,
             AttemptStep(a) \/ CommandStep(a), ~BeginBadEnding(a), ~Recover(a), ~InsertChild(a)
      PROVE  settling' = settling /\ parent' = parent
  BY <1>7 DEF AttemptStep, Retry, SettleRun, BeginSpawn,
   RecordRunning, SetToInvalidAlreadySpawned, SkipAttempt, Succeed,
   CommandStep, ExitCommand, CheckParent, WaitStep, StampWait, EndWait, CancelWait,
   runs, pipeline, memory
<1>8. ASSUME NEW r \in JobRuns, RunStep(r) \/ StopJobRun(r)
      PROVE  settling' = settling /\ parent' = parent
  BY <1>8 DEF RunStep, StartRun, SkipRun, StopJobRun, pipeline, memory
<1>9. FinishAttempt \/ Crash \/ CascadeFails => settling' = NoSettling
  BY DEF FinishAttempt, Crash, CascadeFails
<1>10. FinishRecovery \/ UNCHANGED vars => settling' = settling /\ parent' = parent
  BY DEF FinishRecovery, vars, runs, memory
<1> QED
  BY <1>1, <1>2, <1>3, <1>5, <1>6, <1>7, <1>8, <1>9, <1>10 DEF Next, SettlingStep

-----------------------------------------------------------------------------
(* The attempts of a cascade, and those that have ended.                   *)

\* An attempt that ends badly now is the one being settled, one whose started_at
\* a crash left behind, or one that was skipped; and one let go cannot succeed.
LEMMA AttemptsGoForward ==
  ASSUME FamilyInv, [Next]_vars, NEW b \in Attempts
  PROVE  /\ EndedBadly(b)' => \/ EndedBadly(b)
                              \/ FinishAttempt /\ b = settling.attempt
                              \/ SetToInvalidAlreadySpawned(b)
                              \/ SkipAttempt(b)
         /\ attempt[b] \in Bad \cup {"Running"} /\ b \notin held =>
              attempt'[b] \in Bad \cup {"Running"} /\ b \notin held'
<1> USE DEF FamilyInv, TypeOK, EndedBadly, Ended, FinishedAttempt, attempts, memory, pipeline
<1> DEFINE Goal ==
       /\ EndedBadly(b)' => \/ EndedBadly(b)
                            \/ FinishAttempt /\ b = settling.attempt
                            \/ SetToInvalidAlreadySpawned(b)
                            \/ SkipAttempt(b)
       /\ attempt[b] \in Bad \cup {"Running"} /\ b \notin held =>
            attempt'[b] \in Bad \cup {"Running"} /\ b \notin held'
<1>1. ASSUME UNCHANGED attempt, held' \subseteq held PROVE Goal
  BY <1>1
<1>2. ASSUME NEW r \in JobRuns, StartRun(r) PROVE Goal
  <2>1. <<r, 1>> \in Attempts => attempt[<<r, 1>>] = "None"
    BY <1>2 DEF StartRun, Unbegun
  <2> QED
    BY <1>2, <2>1 DEF StartRun, Bad
<1>3. ASSUME NEW a \in Attempts, Retry(a) PROVE Goal
  <2>1. <<a[1], a[2] + 1>> \in Attempts => attempt[<<a[1], a[2] + 1>>] = "None"
    BY <1>3 DEF Retry, IsLast, Attempts
  <2> QED
    BY <1>3, <2>1 DEF Retry, Bad
<1>4. ASSUME NEW a \in Attempts, RecordRunning(a) PROVE Goal
  BY <1>4 DEF RecordRunning, Memory, Bad
<1>5. ASSUME NEW a \in Attempts, SetToInvalidAlreadySpawned(a) \/ SkipAttempt(a) PROVE Goal
  BY <1>5 DEF SetToInvalidAlreadySpawned, SkipAttempt, Bad
<1>6. ASSUME NEW a \in Attempts, Succeed(a) PROVE Goal
  BY <1>6 DEF Succeed, Bad
<1>7. CASE FinishAttempt
  BY <1>7 DEF FinishAttempt, Memory, Bad
<1>8. ASSUME NEW a \in Attempts,
             \/ SettleRun(a) \/ BeginSpawn(a) \/ BeginBadEnding(a) \/ Recover(a)
             \/ CommandStep(a)
      PROVE  UNCHANGED attempt /\ held' \subseteq held
  BY <1>8 DEF SettleRun, BeginSpawn, BeginBadEnding, Recover, CommandStep, ExitCommand,
     CheckParent, InsertChild, WaitStep, StampWait, EndWait, CancelWait
<1>9. ASSUME NEW r \in JobRuns, SkipRun(r) \/ StopJobRun(r) \/ StopChild(r)
      PROVE  UNCHANGED attempt /\ held' \subseteq held
  BY <1>9 DEF SkipRun, StopJobRun, StopChild
<1>10. FinishRecovery \/ Crash \/ CascadeFails \/ UNCHANGED vars =>
         UNCHANGED attempt /\ held' \subseteq held
  BY DEF FinishRecovery, Crash, CascadeFails, vars
<1>11. Goal
  BY <1>1, <1>2, <1>3, <1>4, <1>5, <1>6, <1>7, <1>8, <1>9, <1>10
     DEF Next, AttemptStep, SettlingStep, RunStep
<1> QED
  BY <1>11

\* A cascade reaches the children of the attempt being settled and no others.
LEMMA CascadesAreOfTheSettling ==
  ASSUME FamilyInv, [Next]_vars, NEW c \in cascaded' \ cascaded
  PROVE  c \in settling.children /\ settling # NoSettling /\ parent' = parent
<1>1. StopChild(c)
  BY DEF FamilyInv, TypeOK, Next, RunStep, StartRun, SkipRun, StopJobRun, AttemptStep, Retry,
     SettleRun, BeginSpawn, RecordRunning, SetToInvalidAlreadySpawned, SkipAttempt, Succeed,
     BeginBadEnding, Recover, CommandStep, ExitCommand, CheckParent, InsertChild, WaitStep,
     StampWait, EndWait, CancelWait, SettlingStep, FinishAttempt, FinishRecovery, StopChild,
     Crash, CascadeFails, vars, pipeline, history
<1> QED
  BY <1>1 DEF StopChild, NoSettling

LEMMA DoomedStep == FamilyInv /\ TypeOK' /\ [Next]_vars => Doomed'
<1> SUFFICES ASSUME FamilyInv, TypeOK', [Next]_vars, NEW c \in cascaded'
             PROVE  /\ parent'[c] \in Attempts /\ parent'[c] \notin held'
                    /\ attempt'[parent'[c]] \in Bad \cup {"Running"}
  BY DEF Doomed
<1> USE NoAttemptIsNone DEF FamilyInv, TypeOK
<1>1. /\ c \in JobRuns /\ parent'[c] = parent[c]
      /\ parent[c] \in Attempts /\ parent[c] \notin held
      /\ attempt[parent[c]] \in Bad \cup {"Running"}
  <2>1. CASE c \in cascaded
    BY <2>1, RunsGoForward DEF Doomed, Unbegun
  <2>2. CASE c \notin cascaded
    BY <2>2, CascadesAreOfTheSettling DEF Memory
  <2> QED
    BY <2>1, <2>2
<1> QED
  BY <1>1, AttemptsGoForward

LEMMA FateStep == FamilyInv /\ TypeOK' /\ [Next]_vars => Fate'
<1> SUFFICES ASSUME FamilyInv, TypeOK', [Next]_vars,
                    NEW c \in JobRuns \ escaped', NEW a \in Attempts,
                    parent'[c] = a, EndedBadly(a)', ~Finished(c)'
             PROVE  c \in stopRow'
  BY DEF Fate, EndedBadly, Ended, TypeOK
<1> USE NoAttemptIsNone DEF FamilyInv, TypeOK
<1>1. CASE \E b \in Attempts : InsertChild(b)
  <2>1. PICK b \in Attempts : InsertChild(b)
    BY <1>1
  <2>2. PICK n \in JobRuns :
          /\ jobRun[n] = "None" /\ parent' = [parent EXCEPT ![n] = b]
          /\ jobRun' = [jobRun EXCEPT ![n] = "Scheduled"]
          /\ ListRead(b) => n \in escaped'
    BY <2>1, InsertedChild
  <2>3. UNCHANGED <<attempt, stopRow>> /\ escaped \subseteq escaped'
    BY <2>1, InsertedChild, RunsGoForward
  <2>4. EndedBadly(a)
    BY <2>3 DEF EndedBadly, Ended
  <2>5. CASE c = n
    BY <2>2, <2>4, <2>5 DEF ListRead
  <2>6. CASE c # n
    BY <2>2, <2>3, <2>4, <2>6 DEF Fate, Finished
  <2> QED
    BY <2>5, <2>6
<1>2. CASE parent'[c] = parent[c]
  <2>1. parent[c] = a /\ c \notin escaped /\ ~Finished(c) /\ stopRow \subseteq stopRow'
    BY <1>2, RunsGoForward
  <2>2. CASE EndedBadly(a)
    BY <2>1, <2>2 DEF Fate
  <2>3. CASE FinishAttempt /\ a = settling.attempt
    BY <2>1, <2>3 DEF FinishAttempt, Listed
  <2>4. CASE SetToInvalidAlreadySpawned(a)
    BY <2>1, <2>4 DEF SetToInvalidAlreadySpawned, Children
  <2>5. CASE SkipAttempt(a)
    BY <2>1, <2>5 DEF SkipAttempt, Unbegun
  <2> QED
    BY <2>2, <2>3, <2>4, <2>5, AttemptsGoForward
<1>3. (\A b \in Attempts : ~InsertChild(b)) => parent'[c] = parent[c]
  BY DEF Next, RunStep, StartRun, SkipRun, StopJobRun, AttemptStep, Retry, SettleRun, BeginSpawn,
     RecordRunning, SetToInvalidAlreadySpawned, SkipAttempt, Succeed, BeginBadEnding, Recover,
     CommandStep, ExitCommand, CheckParent, WaitStep, StampWait, EndWait, CancelWait,
     SettlingStep, FinishAttempt, FinishRecovery, StopChild, Crash, CascadeFails, vars, runs,
     pipeline
<1> QED
  BY <1>1, <1>2, <1>3

LEMMA FamilyInvariant == Spec => []FamilyInv
<1>1. FamilyInv /\ [Next]_vars => FamilyInv'
  <2> SUFFICES ASSUME FamilyInv, [Next]_vars PROVE FamilyInv'
    OBVIOUS
  <2>1. TypeOK'
    BY TypesStep DEF FamilyInv
  <2> QED
    BY <2>1, UnbegunStep, MemoryStep, ListedStep, DoomedStep, FateStep DEF FamilyInv
<1> QED
  BY <1>1, InitFamily, PTL DEF Spec

-----------------------------------------------------------------------------
(* The slots.                                                              *)

\* The attempts that count for the cap and have never waited.
Occupying == {a \in Attempts : attempt[a] = "Running" /\ a \notin lent}

SlotInv ==
  /\ waiting \subseteq lent
  /\ Cardinality(Occupying) <= MaxRunningAttempts
  /\ launching # {} => Cardinality(Occupying) < MaxRunningAttempts

LEMMA AttemptsAreFinite == IsFiniteSet(Attempts)
<1>1. IsFiniteSet(JobRuns) /\ IsFiniteSet(1..MaxAttempts)
  BY FS_Interval, ChildRunsAssumption DEF JobRuns
<1> QED
  BY <1>1, FS_Product DEF Attempts

LEMMA SubsetsAreSmaller ==
  ASSUME NEW S \in SUBSET Attempts, NEW T \in SUBSET S
  PROVE  /\ IsFiniteSet(S) /\ IsFiniteSet(T)
         /\ Cardinality(S) \in Nat /\ Cardinality(T) \in Nat
         /\ Cardinality(T) <= Cardinality(S)
<1>1. IsFiniteSet(S) /\ IsFiniteSet(T)
  BY AttemptsAreFinite, FS_Subset
<1> QED
  BY <1>1, FS_Subset, FS_CardinalityType

LEMMA SlotStep == FamilyInv /\ SlotInv /\ TypeOK' /\ [Next]_vars => SlotInv'
<1> SUFFICES ASSUME FamilyInv, SlotInv, TypeOK', [Next]_vars PROVE SlotInv'
  OBVIOUS
<1> USE ChildRunsAssumption DEF FamilyInv, TypeOK, SlotInv, attempts, memory, pipeline, history
<1>1. ASSUME Occupying' \subseteq Occupying, waiting' \subseteq lent', launching' \subseteq launching
      PROVE  SlotInv'
  <2>1. /\ Cardinality(Occupying) \in Nat /\ Cardinality(Occupying') \in Nat
        /\ Cardinality(Occupying') <= Cardinality(Occupying)
    BY <1>1, SubsetsAreSmaller DEF Occupying
  <2> QED
    BY <1>1, <2>1
<1>2. ASSUME NEW a \in Attempts, BeginSpawn(a) PROVE SlotInv'
  <2>1. Occupying' = Occupying /\ waiting' = waiting /\ lent' = lent
    BY <1>2 DEF BeginSpawn, Occupying
  <2>2. Occupying \subseteq {x \in Attempts : attempt[x] = "Running" /\ x \notin waiting}
    BY DEF Occupying
  <2>3. /\ Cardinality(Occupying) \in Nat /\ CountRunningAttempts \in Nat
        /\ Cardinality(Occupying) <= CountRunningAttempts
    BY <2>2, SubsetsAreSmaller DEF CountRunningAttempts
  <2>4. CountRunningAttempts < MaxRunningAttempts
    BY <1>2 DEF BeginSpawn
  <2> QED
    BY <2>1, <2>3, <2>4
<1>3. ASSUME NEW a \in Attempts, RecordRunning(a) PROVE SlotInv'
  <2>1. launching # {} /\ launching' = {} /\ waiting' = waiting /\ lent' = lent
    BY <1>3 DEF RecordRunning
  <2>2. Occupying' \subseteq Occupying \cup {a}
    BY <1>3 DEF RecordRunning, Occupying
  <2>3. IsFiniteSet(Occupying) /\ Cardinality(Occupying) \in Nat
    BY SubsetsAreSmaller DEF Occupying
  <2>4. Cardinality(Occupying \cup {a}) \in {Cardinality(Occupying), Cardinality(Occupying) + 1}
    BY <2>3, FS_AddElement
  <2>5. /\ Cardinality(Occupying') \in Nat /\ Cardinality(Occupying \cup {a}) \in Nat
        /\ Cardinality(Occupying') <= Cardinality(Occupying \cup {a})
    <3>1. Occupying \cup {a} \subseteq Attempts
      BY DEF Occupying
    <3> QED
      BY <2>2, <3>1, SubsetsAreSmaller
  <2> QED
    BY <2>1, <2>3, <2>4, <2>5
<1>4. ASSUME NEW a \in Attempts,
             \/ Retry(a) \/ SettleRun(a) \/ SetToInvalidAlreadySpawned(a) \/ SkipAttempt(a)
             \/ Succeed(a) \/ BeginBadEnding(a) \/ Recover(a)
      PROVE  Occupying' \subseteq Occupying /\ waiting' = waiting /\ lent' = lent /\ launching' = launching
  BY <1>4 DEF Retry, SettleRun, SetToInvalidAlreadySpawned, SkipAttempt, Succeed, BeginBadEnding,
     Recover, Occupying
<1>5. ASSUME NEW a \in Attempts, CommandStep(a)
      PROVE  Occupying' \subseteq Occupying /\ waiting' \subseteq lent' /\ launching' = launching
  BY <1>5 DEF CommandStep, ExitCommand, CheckParent, InsertChild, WaitStep, StampWait, EndWait,
     SetWaiting, CancelWait, Occupying
<1>6. ASSUME NEW r \in JobRuns, RunStep(r) \/ StopJobRun(r) \/ StopChild(r)
      PROVE  Occupying' \subseteq Occupying /\ waiting' = waiting /\ lent' = lent /\ launching' = launching
  BY <1>6 DEF RunStep, StartRun, SkipRun, StopJobRun, StopChild, Occupying
<1>7. FinishAttempt =>
        Occupying' \subseteq Occupying /\ waiting' = waiting /\ lent' = lent /\ launching' = launching
  BY DEF FinishAttempt, Occupying, Memory, Bad
<1>8. FinishRecovery \/ Crash \/ CascadeFails \/ UNCHANGED vars =>
        /\ Occupying' \subseteq Occupying /\ waiting' = waiting /\ lent' = lent
        /\ launching' \subseteq launching
  BY DEF FinishRecovery, Crash, CascadeFails, vars, Occupying
<1> QED
  BY <1>1, <1>2, <1>3, <1>4, <1>5, <1>6, <1>7, <1>8
     DEF Next, AttemptStep, SettlingStep

-----------------------------------------------------------------------------
\* The rows, the server's memory and the commands keep their types, for a family of any
\* depth: a child's parent is an attempt, and a settling writes a verdict of its own.
THEOREM FamiliesKeepTheirTypes == Spec => []TypeOK
<1>1. FamilyInv => TypeOK
  BY DEF FamilyInv
<1> QED
  BY <1>1, FamilyInvariant, PTL

\* When an attempt has ended without succeeding, the runs it submitted are over or
\* have a stop row, but for those the cascade did not reach, and nobody but a user
\* stops what one that succeeded left behind: finish_task_run_attempt, recover.
THEOREM ChildrenShareTheirFate == Spec => []ChildrenShareItsFate
<1>1. FamilyInv => ChildrenShareItsFate
  BY NoAttemptIsNone DEF FamilyInv, Fate, Doomed, Bad, ChildrenShareItsFate
<1> QED
  BY <1>1, FamilyInvariant, PTL

\* Attempts that never waited fit under max_running_attempts, however many came
\* back from a wait unasked: count_running_attempts.
THEOREM WaitersAloneExceedTheCap == Spec => []OnlyWaitersExceedTheCap
<1>1. Init => SlotInv
  <2> SUFFICES ASSUME Init PROVE SlotInv
    OBVIOUS
  <2>1. Occupying = {}
    BY DEF Init, Occupying
  <2> QED
    BY <2>1, FS_EmptySet, ChildRunsAssumption DEF Init, SlotInv
<1>2. FamilyInv /\ FamilyInv' /\ SlotInv /\ [Next]_vars => SlotInv'
  BY SlotStep DEF FamilyInv
<1>3. SlotInv => OnlyWaitersExceedTheCap
  BY DEF SlotInv, Occupying, OnlyWaitersExceedTheCap
<1> QED
  BY <1>1, <1>2, <1>3, FamilyInvariant, PTL DEF Spec

=============================================================================
