---------------------------- MODULE ServicesProofs ----------------------------
(***************************************************************************)
(* The scheduler, the notifications and the retention beside each other:   *)
(* one run per occurrence, a message once for each fault that struck it,   *)
(* and a reap that takes settled families, owes nothing, keeps to its      *)
(* budget and leaves the newest runs of a job.                             *)
(***************************************************************************)
EXTENDS Services, InductionLemmas

\* A run that holds the instant it was scheduled for.
Stands(r) == Exists(r) /\ jobRun[r].scheduled /\ jobRun[r].status # "Deleted"

RowTypes ==
  /\ config \in Configs /\ now \in Instants
  /\ jobRun \in [JobRuns -> Row \cup {NoRow}]
  /\ lastId \in 0..MaxRuns
  /\ desired \subseteq Occurrences /\ missing \subseteq Occurrences
  /\ rerunning \subseteq [run : JobRuns, job : Jobs, at : Instants]

\* An id past the counter has no row; and the pair the scheduler is submitting has
\* no run yet, which is what its look found and nobody has changed since.
ScheduleInv ==
  /\ RowTypes
  /\ \A r \in JobRuns : r > lastId => ~Exists(r)
  /\ \A o \in missing, r \in JobRuns :
       ~(Stands(r) /\ jobRun[r].job = o[1] /\ jobRun[r].at = o[2])
  /\ OneRunPerOccurrence

\* A step after which no run stands that did not, for the same instant.
NothingStandsAnew ==
  \A r \in JobRuns : Stands(r)' => /\ Stands(r)
                                   /\ jobRun'[r].job = jobRun[r].job
                                   /\ jobRun'[r].at = jobRun[r].at

\* A step that writes no new row, whatever it does to those there are.
NoNewRow == \A r \in JobRuns : Exists(r)' => Exists(r)

Quiet ==
  RowTypes' /\ NothingStandsAnew /\ NoNewRow /\ lastId' = lastId /\ missing' \subseteq missing

-----------------------------------------------------------------------------
LEMMA InitSchedule == Init => ScheduleInv
<1> SUFFICES ASSUME Init PROVE ScheduleInv
  OBVIOUS
<1> USE TableAssumption DEF Init, TableInit, SchedulerInit
<1>1. \A r \in JobRuns : ~Exists(r)
  BY DEF Exists
<1>2. RowTypes
  BY DEF RowTypes, Instants
<1> QED
  BY <1>1, <1>2 DEF ScheduleInv, Stands, OneRunPerOccurrence

\* A step that lets nothing stand anew keeps the invariant.
LEMMA QuietStep == ScheduleInv /\ Quiet => ScheduleInv'
<1> SUFFICES ASSUME ScheduleInv, Quiet PROVE ScheduleInv'
  OBVIOUS
<1> USE DEF ScheduleInv, Quiet
<1>1. \A r \in JobRuns : r > lastId' => ~Exists(r)'
  BY DEF NoNewRow
<1>2. \A o \in missing', r \in JobRuns :
        ~(Stands(r)' /\ jobRun'[r].job = o[1] /\ jobRun'[r].at = o[2])
  BY DEF NothingStandsAnew
<1>3. OneRunPerOccurrence'
  BY DEF NothingStandsAnew, OneRunPerOccurrence, Stands
<1> QED
  BY <1>1, <1>2, <1>3

\* A status written over one that is neither "None" nor "Deleted".
LEMMA StatusStep ==
  ASSUME RowTypes, NEW r \in JobRuns, NEW s \in JobRunStatus, SetStatus(r, s),
         jobRun[r].status \in UnfinishedJobRun,
         UNCHANGED <<config, now, lastId, desired, missing, rerunning>>
  PROVE  Quiet
<1> USE DEF RowTypes, SetStatus
<1>1. jobRun[r] \in Row
  BY DEF NoRow, UnfinishedJobRun
<1>2. /\ jobRun'[r] = [jobRun[r] EXCEPT !.status = s]
      /\ \A x \in JobRuns \ {r} : jobRun'[x] = jobRun[x]
  OBVIOUS
<1>3. jobRun'[r] \in Row
  BY <1>1, <1>2 DEF Row
<1>4. RowTypes'
  BY <1>3
<1>5. Stands(r)' => Stands(r)
  BY <1>1, <1>2 DEF Stands, Exists, Row, NoRow, UnfinishedJobRun
<1>6. jobRun'[r].job = jobRun[r].job /\ jobRun'[r].at = jobRun[r].at
  BY <1>1, <1>2 DEF Row
<1>7. Exists(r)
  BY DEF Exists, NoRow, UnfinishedJobRun
<1>8. NothingStandsAnew
  BY <1>2, <1>5, <1>6 DEF NothingStandsAnew, Stands, Exists
<1>9. NoNewRow
  BY <1>2, <1>7 DEF NoNewRow, Exists
<1> QED
  BY <1>4, <1>8, <1>9 DEF Quiet

\* The rows of a run and its descendants removed.
LEMMA DeleteStep ==
  ASSUME RowTypes, NEW r, DeleteJobRunsWithChildren(r),
         UNCHANGED <<config, now, desired, missing, rerunning>>
  PROVE  Quiet
<1> USE DEF RowTypes, DeleteJobRunsWithChildren
<1>1. \A x \in JobRuns : jobRun'[x] = NoRow \/ jobRun'[x] = jobRun[x]
  OBVIOUS
<1>2. RowTypes'
  BY <1>1
<1> QED
  BY <1>1, <1>2 DEF Quiet, NothingStandsAnew, NoNewRow, Stands, Exists

\* No row touched, and the scheduler in the middle of nothing new.
LEMMA IdleStep ==
  ASSUME RowTypes, RowTypes', UNCHANGED <<jobRun, lastId>>, missing' \subseteq missing
  PROVE  Quiet
BY DEF Quiet, NothingStandsAnew, NoNewRow, Stands, Exists

\* An insert that nobody scheduled, or for the pair the scheduler has in hand.
LEMMA InsertStep ==
  ASSUME ScheduleInv, RowTypes',
         NEW j \in Jobs, NEW at \in Instants, NEW scheduled \in BOOLEAN,
         NEW p \in {None} \cup JobRuns, NEW tasks \in BOOLEAN, NEW ons,
         InsertJobRun(j, at, scheduled, p, tasks, ons),
         IF scheduled THEN <<j, at>> \in missing /\ missing' = {} ELSE missing' = missing
  PROVE  ScheduleInv'
<1> DEFINE row == [job |-> j, at |-> at, scheduled |-> scheduled, parent |-> p,
                   tasks |-> tasks, status |-> "Scheduled"]
<1> USE DEF ScheduleInv
<1>1. PICK id \in JobRuns : lastId \in Nat /\ lastId' = id /\ id = lastId + 1
  BY TableAssumption DEF RowTypes, InsertJobRun, Room, JobRuns
<1>2. jobRun'[id] = row /\ \A r \in JobRuns \ {id} : jobRun'[r] = jobRun[r]
  BY <1>1 DEF InsertJobRun, RowTypes
<1>3. \A r \in JobRuns : r > lastId' => ~Exists(r)'
  BY <1>1, <1>2 DEF Exists, JobRuns
<1>4. \A r \in JobRuns \ {id} : Stands(r)' => Stands(r) /\ jobRun'[r] = jobRun[r]
  BY <1>2 DEF Stands, Exists
<1>5. Stands(id)' => scheduled
  BY <1>2 DEF Stands
<1>6. jobRun'[id].job = j /\ jobRun'[id].at = at
  BY <1>2
<1>7. \A o \in missing', r \in JobRuns :
        ~(Stands(r)' /\ jobRun'[r].job = o[1] /\ jobRun'[r].at = o[2])
  BY <1>4, <1>5
<1>8. OneRunPerOccurrence'
  <2>1. scheduled => \A r \in JobRuns :
          ~(Stands(r) /\ jobRun[r].job = j /\ jobRun[r].at = at)
    OBVIOUS
  <2>2. ASSUME NEW r \in JobRuns, NEW s \in JobRuns, Stands(r)', Stands(s)',
               jobRun'[r].job = jobRun'[s].job, jobRun'[r].at = jobRun'[s].at
        PROVE  r = s
    <3>1. CASE r = id \/ s = id
      BY <2>1, <2>2, <3>1, <1>4, <1>5, <1>6
    <3>2. CASE r # id /\ s # id
      BY <2>2, <3>2, <1>4 DEF OneRunPerOccurrence, Stands
    <3> QED
      BY <3>1, <3>2
  <2> QED
    BY <2>2 DEF OneRunPerOccurrence, Stands
<1> QED
  BY <1>3, <1>7, <1>8

\* And such an insert writes a row of the right type.
LEMMA InsertTypes ==
  ASSUME RowTypes,
         NEW j \in Jobs, NEW at \in Instants, NEW scheduled \in BOOLEAN,
         NEW p \in {None} \cup JobRuns, NEW tasks \in BOOLEAN, NEW ons,
         InsertJobRun(j, at, scheduled, p, tasks, ons),
         UNCHANGED <<config, now, desired>>, missing' \subseteq missing,
         rerunning' \subseteq rerunning
  PROVE  RowTypes'
<1>1. [job |-> j, at |-> at, scheduled |-> scheduled, parent |-> p,
       tasks |-> tasks, status |-> "Scheduled"] \in Row
  BY DEF Row, JobRunStatus, UnfinishedJobRun
<1>2. lastId' \in 0..MaxRuns
  BY TableAssumption DEF InsertJobRun, Room, RowTypes
<1> QED
  BY <1>1, <1>2 DEF RowTypes, InsertJobRun

-----------------------------------------------------------------------------
(* The steps.                                                              *)
LEMMA SchedulerKeeps == ScheduleInv /\ SchedulerStep => ScheduleInv'
<1> SUFFICES ASSUME ScheduleInv, SchedulerStep PROVE ScheduleInv'
  OBVIOUS
<1> USE DEF ScheduleInv, SchedulerStep, setting, table, asking
<1>1. CASE StartPass
  <2>1. ScheduleJobs \X GetNextRuns(config.submitAhead) \subseteq Occurrences
    BY DEF GetNextRuns, Occurrences
  <2>2. RowTypes'
    BY <1>1, <2>1 DEF StartPass, RowTypes
  <2> QED
    BY <1>1, <2>2, IdleStep, QuietStep DEF StartPass
<1>2. ASSUME NEW o \in Occurrences, SubmitIfMissing(o) PROVE ScheduleInv'
  <2>1. RowTypes'
    BY <1>2 DEF SubmitIfMissing, RowTypes
  <2>2. CASE Occupied(o)
    BY <1>2, <2>1, <2>2, IdleStep, QuietStep DEF SubmitIfMissing
  <2>3. CASE ~Occupied(o)
    <3>1. \A r \in JobRuns : ~(Stands(r) /\ jobRun[r].job = o[1] /\ jobRun[r].at = o[2])
      BY <2>3 DEF Occupied, RunsOf, StandsFor, Tombstone, Stands
    <3>2. missing' = {o} /\ UNCHANGED <<jobRun, lastId>>
      BY <1>2, <2>3 DEF SubmitIfMissing
    <3> QED
      BY <2>1, <3>1, <3>2 DEF Stands, Exists, OneRunPerOccurrence
  <2> QED
    BY <2>2, <2>3
<1>3. ASSUME NEW o \in Occurrences, SubmitOccurrence(o) PROVE ScheduleInv'
  <2>1. o = <<o[1], o[2]>> /\ o[1] \in Jobs /\ o[2] \in Instants
    BY ScheduleAssumption DEF Occurrences
  <2>2. InsertJobRun(o[1], o[2], TRUE, None, TRUE, NotifyOn[o[1]])
    BY <1>3 DEF SubmitOccurrence
  <2>3. RowTypes'
    BY <1>3, <2>1, <2>2, InsertTypes DEF SubmitOccurrence
  <2> QED
    BY <1>3, <2>1, <2>2, <2>3, InsertStep DEF SubmitOccurrence
<1> QED
  BY <1>1, <1>2, <1>3 DEF SchedulerNext

LEMMA ServicesKeep == ScheduleInv /\ (NotificationStep \/ RetentionStep) => ScheduleInv'
<1> SUFFICES ASSUME ScheduleInv, NotificationStep \/ RetentionStep PROVE ScheduleInv'
  OBVIOUS
<1> USE DEF ScheduleInv, setting, table, asking, scheduling
<1>1. CASE NotificationStep
  <2>1. UNCHANGED <<jobRun, lastId, config, now, desired, missing, rerunning>>
    BY <1>1 DEF NotificationStep, NotificationsNext, CloseNotification,
       SendNotification, RecordDelivery
  <2>2. RowTypes'
    BY <2>1 DEF RowTypes
  <2> QED
    BY <2>1, <2>2, IdleStep, QuietStep
<1>2. CASE RetentionStep
  <2>1. UNCHANGED <<config, now, desired, missing, rerunning>>
    BY <1>2 DEF RetentionStep, RetentionNext, StartReaping, LookAtDescendants, Reap
  <2>2. CASE Reap
    BY <2>1, <2>2, DeleteStep, QuietStep DEF Reap
  <2>3. CASE UNCHANGED table
    BY <2>1, <2>3, IdleStep, QuietStep DEF RowTypes
  <2> QED
    BY <1>2, <2>2, <2>3 DEF RetentionStep, RetentionNext, StartReaping, LookAtDescendants
<1> QED
  BY <1>1, <1>2

LEMMA OrchestratorKeeps == ScheduleInv /\ OrchestratorStep => ScheduleInv'
<1> SUFFICES ASSUME ScheduleInv, NEW r \in JobRuns, StartRun(r) \/ SkipRun(r) \/ SettleRun(r)
             PROVE  ScheduleInv'
  BY DEF OrchestratorStep
<1>1. /\ UNCHANGED <<config, now, lastId, desired, missing, rerunning>>
      /\ jobRun[r].status \in UnfinishedJobRun
      /\ \E s \in JobRunStatus : SetStatus(r, s)
  BY ServicesAssumption DEF StartRun, SkipRun, SettleRun, others, setting, asking, scheduling,
     UnfinishedJobRun, FinishedJobRun, JobRunStatus
<1> QED
  BY <1>1, StatusStep, QuietStep DEF ScheduleInv

LEMMA UsersKeep == ScheduleInv /\ UserStep => ScheduleInv'
<1> SUFFICES ASSUME ScheduleInv, UserStep PROVE ScheduleInv'
  OBVIOUS
<1> USE DEF ScheduleInv, elsewhere, setting, scheduling
<1>1. CASE Rerun
  <2>1. PICK source \in rerunning :
          /\ rerunning' = {}
          /\ InsertJobRun(source.job, source.at, FALSE, None,
               Exists(source.run) /\ jobRun[source.run].tasks,
               {e \in Endings : notification[<<source.run, e>>] # "None"})
          /\ UNCHANGED <<requests, elsewhere>>
    BY <1>1 DEF Rerun
  <2>2. /\ source.job \in Jobs /\ source.at \in Instants /\ source.run \in JobRuns
        /\ (Exists(source.run) /\ jobRun[source.run].tasks) \in BOOLEAN
    <3>1. source.job \in Jobs /\ source.at \in Instants /\ source.run \in JobRuns
      BY <2>1 DEF RowTypes
    <3>2. jobRun[source.run] \in Row \cup {NoRow}
      BY <3>1 DEF RowTypes
    <3>3. Exists(source.run) => jobRun[source.run].tasks \in BOOLEAN
      BY <3>2 DEF Exists, Row
    <3> QED
      BY <3>1, <3>3
  <2>3. RowTypes'
    BY <2>1, <2>2, InsertTypes
  <2> QED
    BY <2>1, <2>2, <2>3, InsertStep
<1>2. ASSUME NEW j \in Jobs, Submit(j) PROVE ScheduleInv'
  <2>1. /\ InsertJobRun(j, now, FALSE, None, TRUE, NotifyOn[j]) /\ now \in Instants
        /\ UNCHANGED <<config, now, desired, missing, rerunning>>
    BY <1>2 DEF Submit, RowTypes
  <2>2. RowTypes'
    BY <2>1, InsertTypes
  <2> QED
    BY <2>1, <2>2, InsertStep
<1>3. ASSUME NEW r \in JobRuns, SubmitChild(r) PROVE ScheduleInv'
  <2>1. /\ InsertJobRun(ChildJob, now, FALSE, r, TRUE, NotifyOn[ChildJob]) /\ now \in Instants
        /\ UNCHANGED <<config, now, desired, missing, rerunning>>
    BY <1>3 DEF SubmitChild, RowTypes
  <2>2. RowTypes'
    BY <2>1, ServicesAssumption, InsertTypes
  <2> QED
    BY <2>1, <2>2, ServicesAssumption, InsertStep
<1>4. ASSUME NEW r \in JobRuns, Delete(r) PROVE ScheduleInv'
  BY <1>4, StatusStep, QuietStep DEF Delete, UnfinishedJobRun, FinishedJobRun, JobRunStatus
<1>5. ASSUME NEW r \in JobRuns, Stop(r) \/ BeginRerun(r) PROVE ScheduleInv'
  <2>1. UNCHANGED <<jobRun, lastId, config, now, desired, missing>>
    BY <1>5 DEF Stop, BeginRerun, table
  <2>2. rerunning' \subseteq [run : JobRuns, job : Jobs, at : Instants]
    <3>1. CASE Stop(r)
      BY <3>1 DEF Stop, RowTypes
    <3>2. CASE BeginRerun(r)
      <4>1. jobRun[r] \in Row
        BY <3>2 DEF BeginRerun, RowTypes, Exists
      <4> QED
        BY <3>2, <4>1 DEF BeginRerun, Row
    <3> QED
      BY <1>5, <3>1, <3>2
  <2>3. RowTypes'
    BY <2>1, <2>2 DEF RowTypes
  <2> QED
    BY <2>1, <2>3, IdleStep, QuietStep
<1> QED
  BY <1>1, <1>2, <1>3, <1>4, <1>5 DEF UserStep

LEMMA WorldKeeps == ScheduleInv /\ (Tick \/ Crash \/ LoseRecord) => ScheduleInv'
<1> SUFFICES ASSUME ScheduleInv, Tick \/ Crash \/ LoseRecord PROVE ScheduleInv'
  OBVIOUS
<1> USE DEF ScheduleInv, setting, table, asking, scheduling
<1>1. UNCHANGED <<jobRun, lastId, config, rerunning>> /\ missing' \subseteq missing
      /\ desired' \subseteq desired
  BY DEF Tick, Crash, LoseRecord, RecordFails
<1>2. now' \in Instants
  <2>1. CASE Tick
    <3>1. config.until \in Instants
      BY TableAssumption DEF RowTypes
    <3> QED
      BY <2>1, <3>1, TableAssumption DEF Tick, Instants, RowTypes
  <2>2. CASE Crash \/ LoseRecord
    BY <2>2 DEF Crash, LoseRecord, RecordFails, RowTypes
  <2> QED
    BY <2>1, <2>2
<1>3. RowTypes'
  BY <1>1, <1>2 DEF RowTypes
<1> QED
  BY <1>1, <1>3, IdleStep, QuietStep

LEMMA ScheduleInvariant == Spec => []ScheduleInv
<1>1. ScheduleInv /\ [Next]_vars => ScheduleInv'
  <2> SUFFICES ASSUME ScheduleInv, [Next]_vars PROVE ScheduleInv'
    OBVIOUS
  <2>1. CASE UNCHANGED vars
    <3>1. UNCHANGED <<jobRun, lastId, config, now, desired, missing, rerunning>>
      BY <2>1 DEF vars, table, setting, scheduling, asking
    <3>2. RowTypes'
      BY <3>1 DEF RowTypes, ScheduleInv
    <3> QED
      BY <3>1, <3>2, IdleStep, QuietStep DEF ScheduleInv
  <2> QED
    BY <2>1, SchedulerKeeps, ServicesKeep, OrchestratorKeeps, UsersKeep, WorldKeeps DEF Next
<1> QED
  BY <1>1, InitSchedule, PTL DEF Spec

-----------------------------------------------------------------------------
\* At most one run stands for a job's occurrence, whatever passes, deletes, reruns
\* and restarts do to it: submit_if_missing.
THEOREM OccurrencesHaveOneRun == Spec => []OneRunPerOccurrence
<1>1. ScheduleInv => OneRunPerOccurrence
  BY DEF ScheduleInv
<1> QED
  BY <1>1, ScheduleInvariant, PTL

-----------------------------------------------------------------------------
(* The table: its types, and that no row is of a run that is not there.    *)

\* The rows that hang off a run, and the run it is a child of, go with it; a run is
\* submitted after the one whose task submits it, and is of the job tasks submit; and
\* what a schedule submitted is one of its occurrences.
Linked ==
  /\ notification \in [JobRuns \X Endings -> {"None", "Pending", "Sent", "Failed", "Skipped"}]
  /\ stopRow \subseteq JobRuns
  /\ \A r \in JobRuns : ~Exists(r) =>
       /\ r \notin stopRow
       /\ \A e \in Endings : notification[<<r, e>>] = "None"
       /\ \A c \in JobRuns : Exists(c) => jobRun[c].parent # r
  /\ \A r \in JobRuns : Exists(r) =>
       /\ jobRun[r].parent < r
       /\ jobRun[r].parent # None => jobRun[r].job = ChildJob
       /\ jobRun[r].scheduled => <<jobRun[r].job, jobRun[r].at>> \in Occurrences

\* What the services and the users have in hand.
InHand ==
  /\ NotificationsTypeOK /\ RetentionTypeOK
  /\ requests \in 0..config.requests
  /\ faults \in 0..config.faults
  /\ cancelled \subseteq Occurrences
  /\ family # NoFamily => family.root \in JobRuns

TableInv == Linked /\ InHand

LEMMA TypesOfTheParts == RowTypes /\ TableInv => TypeOK
BY DEF RowTypes, TableInv, Linked, InHand, TypeOK, TableTypeOK, SchedulerTypeOK, Exists

\* A run has ids below its own above it, so the recursion ends.
LEMMA AncestorsEquation ==
  ASSUME RowTypes, Linked
  PROVE  Ancestors = [x \in JobRuns |->
           IF ~Exists(x) \/ jobRun[x].parent = None THEN {}
           ELSE {jobRun[x].parent} \cup Ancestors[jobRun[x].parent]]
<1> DEFINE Ids == 0..MaxRuns
           Top(x) == x = 0 \/ ~Exists(x) \/ jobRun[x].parent = None
           Rec == [x \in Ids |-> [g \in [Ids -> SUBSET Ids] |->
                     IF Top(x) THEN {} ELSE {jobRun[x].parent} \cup g[jobRun[x].parent]]]
<1>1. \A x \in Ids : ~Top(x) => x \in JobRuns /\ jobRun[x].parent \in 0..(x - 1) /\ jobRun[x].parent \in JobRuns
  <2> SUFFICES ASSUME NEW x \in Ids, ~Top(x)
               PROVE  x \in JobRuns /\ jobRun[x].parent \in 0..(x - 1) /\ jobRun[x].parent \in JobRuns
    OBVIOUS
  <2>1. x \in JobRuns /\ Exists(x)
    BY TableAssumption DEF JobRuns
  <2>2. jobRun[x] \in Row
    BY <2>1 DEF RowTypes, Exists
  <2>3. jobRun[x].parent \in JobRuns /\ jobRun[x].parent < x
    BY <2>1, <2>2 DEF Row, Linked
  <2> QED
    BY <2>1, <2>3, TableAssumption DEF JobRuns
<1>2. Rec \in [Ids -> [[Ids -> SUBSET Ids] -> SUBSET Ids]]
  <2> HIDE DEF Top
  <2> SUFFICES ASSUME NEW x \in Ids, NEW g \in [Ids -> SUBSET Ids]
               PROVE  (IF Top(x) THEN {} ELSE {jobRun[x].parent} \cup g[jobRun[x].parent]) \in SUBSET Ids
    OBVIOUS
  <2>1. CASE Top(x)
    BY <2>1
  <2>2. CASE ~Top(x)
    <3>1. jobRun[x].parent \in Ids
      BY <1>1, <2>2, TableAssumption DEF JobRuns
    <3> QED
      BY <2>2, <3>1
  <2> QED
    BY <2>1, <2>2
<1>3. ASSUME NEW n \in Ids, NEW g \in [Ids -> SUBSET Ids], NEW h \in [Ids -> SUBSET Ids],
             \A i \in 0..(n - 1) : g[i] = h[i]
      PROVE  Rec[n][g] = Rec[n][h]
  <2> HIDE DEF Top
  <2>1. Rec[n][g] = (IF Top(n) THEN {} ELSE {jobRun[n].parent} \cup g[jobRun[n].parent])
    OBVIOUS
  <2>2. Rec[n][h] = (IF Top(n) THEN {} ELSE {jobRun[n].parent} \cup h[jobRun[n].parent])
    OBVIOUS
  <2>3. ~Top(n) => g[jobRun[n].parent] = h[jobRun[n].parent]
    BY <1>1, <1>3
  <2> QED
    BY <2>1, <2>2, <2>3
<1>4. PICK g \in [Ids -> SUBSET Ids] : DefinedBy(g, Rec, MaxRuns)
  <2> HIDE DEF Rec
  <2>1. MaxRuns \in Nat /\ SUBSET Ids # {}
    BY TableAssumption
  <2>2. AsksOnlyBelow(Rec, MaxRuns, SUBSET Ids)
    BY <1>3 DEF AsksOnlyBelow
  <2> QED
    BY <1>2, <2>1, <2>2, Recursion
<1> DEFINE above == [x \in JobRuns |-> g[x]]
<1>5. above = [x \in JobRuns |->
        IF ~Exists(x) \/ jobRun[x].parent = None THEN {}
        ELSE {jobRun[x].parent} \cup above[jobRun[x].parent]]
  <2> SUFFICES ASSUME NEW x \in JobRuns
               PROVE  g[x] = IF ~Exists(x) \/ jobRun[x].parent = None THEN {}
                             ELSE {jobRun[x].parent} \cup above[jobRun[x].parent]
    OBVIOUS
  <2>1. x \in Ids /\ x # 0
    BY TableAssumption DEF JobRuns
  <2>2. g[x] = IF Top(x) THEN {} ELSE {jobRun[x].parent} \cup g[jobRun[x].parent]
    <3> HIDE DEF Top
    <3> QED
      BY <1>4, <2>1 DEF DefinedBy
  <2>3. CASE Top(x)
    BY <2>1, <2>2, <2>3
  <2>4. CASE ~Top(x)
    <3>1. jobRun[x].parent \in JobRuns
      BY <1>1, <2>1, <2>4
    <3> QED
      BY <2>1, <2>2, <2>4, <3>1
  <2> QED
    BY <2>3, <2>4
<1> HIDE DEF above
<1> QED
  BY <1>5 DEF Ancestors

\* The descendants of a run are children of it or of each other, and hold every
\* child they have.
LEMMA DescendantsAreFamily ==
  ASSUME RowTypes, Linked, NEW r \in JobRuns, NEW c \in JobRuns
  PROVE  /\ c \in Descendants(r) => Exists(c) /\ jobRun[c].parent # None
         /\ Exists(c) /\ jobRun[c].parent \in {r} \cup Descendants(r) => c \in Descendants(r)
<1>1. Ancestors[c] = IF ~Exists(c) \/ jobRun[c].parent = None THEN {}
                     ELSE {jobRun[c].parent} \cup Ancestors[jobRun[c].parent]
  BY AncestorsEquation
<1>2. None \notin JobRuns
  BY DEF None, JobRuns
<1> QED
  BY <1>1, <1>2 DEF Descendants

\* A step that leaves the rows of runs there, their links as they are and changes
\* only statuses.
LEMMA StatusLinks ==
  ASSUME RowTypes, Linked, NEW r \in JobRuns, NEW s, SetStatus(r, s),
         jobRun[r].status \in UnfinishedJobRun, UNCHANGED <<notification, stopRow>>
  PROVE  Linked'
<1>1. jobRun[r] \in Row
  BY DEF RowTypes, NoRow, UnfinishedJobRun
<1>2. /\ jobRun'[r] = [jobRun[r] EXCEPT !.status = s]
      /\ \A x \in JobRuns \ {r} : jobRun'[x] = jobRun[x]
  BY DEF RowTypes, SetStatus
<1>3. /\ Exists(r) /\ Exists(r)'
      /\ jobRun'[r].parent = jobRun[r].parent /\ jobRun'[r].scheduled = jobRun[r].scheduled
      /\ jobRun'[r].job = jobRun[r].job /\ jobRun'[r].at = jobRun[r].at
  BY <1>1, <1>2 DEF Row, Exists, NoRow, UnfinishedJobRun
<1>4. \A x \in JobRuns :
        /\ Exists(x)' <=> Exists(x)
        /\ jobRun'[x].parent = jobRun[x].parent /\ jobRun'[x].scheduled = jobRun[x].scheduled
        /\ jobRun'[x].job = jobRun[x].job /\ jobRun'[x].at = jobRun[x].at
  BY <1>2, <1>3 DEF Exists
<1> QED
  BY <1>4 DEF Linked, Occurrences

\* A new row, of nobody's child or of a child of a run that is there.
LEMMA InsertLinks ==
  ASSUME ScheduleInv, Linked,
         NEW j \in Jobs, NEW at \in Instants, NEW scheduled \in BOOLEAN,
         NEW p \in {None} \cup JobRuns, NEW tasks \in BOOLEAN, NEW ons,
         InsertJobRun(j, at, scheduled, p, tasks, ons),
         p = None \/ (Exists(p) /\ j = ChildJob), scheduled => <<j, at>> \in Occurrences
  PROVE  Linked'
<1> DEFINE row == [job |-> j, at |-> at, scheduled |-> scheduled, parent |-> p,
                   tasks |-> tasks, status |-> "Scheduled"]
<1>1. PICK id \in JobRuns : lastId \in Nat /\ id = lastId + 1
  BY TableAssumption DEF ScheduleInv, RowTypes, InsertJobRun, Room, JobRuns
<1>2. jobRun'[id] = row /\ \A x \in JobRuns \ {id} : jobRun'[x] = jobRun[x]
  BY <1>1 DEF InsertJobRun, ScheduleInv, RowTypes
<1>3. row # NoRow
  BY DEF NoRow
<1>4. /\ \A x \in JobRuns : Exists(x)' <=> (x = id \/ Exists(x))
      /\ ~Exists(id)
  <2>1. id > lastId
    BY <1>1
  <2> QED
    BY <1>2, <1>3, <2>1 DEF Exists, ScheduleInv
<1>5. p < id /\ p # id
  <2>1. CASE p = None
    BY <1>1, <2>1 DEF None
  <2>2. CASE p \in JobRuns /\ Exists(p)
    <3>1. ~(p > lastId)
      BY <2>2 DEF ScheduleInv
    <3> QED
      BY <1>1, <2>2, <3>1, TableAssumption DEF JobRuns
  <2> QED
    BY <2>1, <2>2 DEF None, JobRuns
<1>6. notification' \in [JobRuns \X Endings -> {"None", "Pending", "Sent", "Failed", "Skipped"}]
  BY DEF InsertJobRun, Linked
<1>7. \A x \in JobRuns, e \in Endings : x # id => notification'[<<x, e>>] = notification[<<x, e>>]
  BY <1>1 DEF InsertJobRun
<1>8. stopRow' = stopRow
  BY DEF InsertJobRun
<1>9. ASSUME NEW x \in JobRuns, ~Exists(x)'
      PROVE  /\ x \notin stopRow'
             /\ \A e \in Endings : notification'[<<x, e>>] = "None"
             /\ \A c \in JobRuns : Exists(c)' => jobRun'[c].parent # x
  <2>1. x # id /\ ~Exists(x)
    BY <1>4, <1>9
  <2>2. jobRun'[id].parent # x
    <3>1. jobRun'[id].parent = p
      BY <1>2
    <3> QED
      BY <2>1, <3>1 DEF None, JobRuns
  <2> QED
    BY <1>2, <1>4, <1>7, <1>8, <2>1, <2>2 DEF Linked
<1>10. ASSUME NEW x \in JobRuns, Exists(x)'
       PROVE  /\ jobRun'[x].parent < x
              /\ jobRun'[x].parent # None => jobRun'[x].job = ChildJob
              /\ jobRun'[x].scheduled => <<jobRun'[x].job, jobRun'[x].at>> \in Occurrences
  BY <1>2, <1>4, <1>5, <1>10 DEF Linked
<1> QED
  BY <1>6, <1>8, <1>9, <1>10 DEF Linked, Exists, Occurrences

\* A run and its descendants gone: no child is left of any of them.
LEMMA DeleteLinks ==
  ASSUME RowTypes, Linked, NEW r \in JobRuns, DeleteJobRunsWithChildren(r)
  PROVE  Linked'
<1> DEFINE gone == IF Exists(r) THEN {r} \cup Descendants(r) ELSE {}
<1>1. /\ jobRun' = [x \in JobRuns |-> IF x \in gone THEN NoRow ELSE jobRun[x]]
      /\ notification' = [n \in JobRuns \X Endings |->
                            IF n[1] \in gone THEN "None" ELSE notification[n]]
      /\ stopRow' = stopRow \ gone
  BY DEF DeleteJobRunsWithChildren
<1>2. \A c \in JobRuns : Exists(c) /\ jobRun[c].parent \in gone => c \in gone
  BY DescendantsAreFamily
<1> HIDE DEF gone
<1>3. \A x \in JobRuns : /\ Exists(x)' <=> (x \notin gone /\ Exists(x))
                         /\ Exists(x)' => jobRun'[x] = jobRun[x]
  BY <1>1 DEF Exists
<1>4. ASSUME NEW x \in JobRuns, ~Exists(x)'
      PROVE  /\ x \notin stopRow'
             /\ \A e \in Endings : notification'[<<x, e>>] = "None"
             /\ \A c \in JobRuns : Exists(c)' => jobRun'[c].parent # x
  <2>1. CASE x \in gone
    BY <1>1, <1>2, <1>3, <2>1
  <2>2. CASE ~Exists(x)
    BY <1>1, <1>3, <2>2 DEF Linked
  <2> QED
    BY <1>3, <1>4, <2>1, <2>2
<1>5. notification' \in [JobRuns \X Endings -> {"None", "Pending", "Sent", "Failed", "Skipped"}]
  BY <1>1 DEF Linked
<1> QED
  BY <1>1, <1>3, <1>4, <1>5 DEF Linked, Exists, Occurrences

\* A notification of a run that is there, moved on.
LEMMA NotifyLinks ==
  ASSUME Linked, NEW n \in AllNotifications, notification[n] # "None",
         NEW v \in {"Sent", "Failed", "Skipped"},
         notification' = [notification EXCEPT ![n] = v], UNCHANGED <<jobRun, stopRow>>
  PROVE  Linked'
<1>1. \A m \in JobRuns \X Endings : notification'[m] = IF m = n THEN v ELSE notification[m]
  BY DEF Linked, AllNotifications
<1>2. n = <<n[1], n[2]>> /\ n[1] \in JobRuns /\ n[2] \in Endings
  BY DEF AllNotifications
<1>3. Exists(n[1])
  BY <1>2 DEF Linked
<1> QED
  BY <1>1, <1>2, <1>3 DEF Linked, Exists, AllNotifications, Occurrences

\* No row of the tables touched.
LEMMA TableIdle == Linked /\ UNCHANGED <<jobRun, notification, stopRow>> => Linked'
BY DEF Linked, Exists, Occurrences

-----------------------------------------------------------------------------
(* What a retention pass picks.                                            *)

LEMMA SubsetsAreFinite ==
  ASSUME NEW s \in SUBSET JobRuns
  PROVE  /\ IsFiniteSet(s) /\ Cardinality(s) \in Nat
         /\ \A t \in SUBSET s : IsFiniteSet(t) /\ Cardinality(t) \in Nat
                                /\ Cardinality(t) <= Cardinality(s)
<1>1. IsFiniteSet(JobRuns)
  BY TableAssumption, FS_Interval DEF JobRuns
<1>2. IsFiniteSet(s)
  BY <1>1, FS_Subset
<1>3. \A t \in SUBSET s : IsFiniteSet(t) /\ Cardinality(t) <= Cardinality(s)
  BY <1>2, FS_Subset
<1> QED
  BY <1>2, <1>3, FS_CardinalityType

LEMMA UnionsCount ==
  ASSUME NEW s \in SUBSET JobRuns, NEW t \in SUBSET JobRuns
  PROVE  Cardinality(s \cup t) <= Cardinality(s) + Cardinality(t)
<1>1. IsFiniteSet(s) /\ IsFiniteSet(t) /\ Cardinality(s) \in Nat /\ Cardinality(t) \in Nat
  BY SubsetsAreFinite
<1>2. Cardinality(s \cap t) \in Nat
  <2>1. s \cap t \in SUBSET s
    OBVIOUS
  <2> QED
    BY <2>1, SubsetsAreFinite
<1>3. Cardinality(s \cup t) = Cardinality(s) + Cardinality(t) - Cardinality(s \cap t)
  BY <1>1, FS_Union
<1> QED
  BY <1>1, <1>2, <1>3

\* ORDER BY id LIMIT k gives at most k runs, each older than all it leaves, and more
\* with a larger limit.
LEMMA SmallestFacts ==
  ASSUME NEW s \in SUBSET JobRuns, NEW k \in Nat
  PROVE  /\ Smallest(s, k) \subseteq s
         /\ Cardinality(Smallest(s, k)) <= k
         /\ \A x \in Smallest(s, k), y \in s \ Smallest(s, k) : x < y
         /\ \A l \in Nat : l <= k => Smallest(s, l) \subseteq Smallest(s, k)
<1> DEFINE T == Smallest(s, k)
           Below(x) == {z \in s : z < x}
<1>1. \A x : Below(x) \in SUBSET s /\ Cardinality(Below(x)) \in Nat
  BY SubsetsAreFinite
<1>2. T = {x \in s : Cardinality(Below(x)) < k}
  BY DEF Smallest
<1>3. Cardinality(T) <= k
  <2>1. CASE T = {}
    BY <2>1, FS_EmptySet
  <2>2. CASE T # {}
    <3>1. T \subseteq 0..MaxRuns /\ MaxRuns \in Nat
      <4>1. T \subseteq JobRuns
        BY <1>2
      <4> HIDE DEF T
      <4> QED
        BY <4>1, TableAssumption DEF JobRuns
    <3>2. PICK m \in T : \A x \in T : x <= m
      <4> HIDE DEF T
      <4> QED
        BY <2>2, <3>1, GreatestElement
    <3>3. T \subseteq Below(m) \cup {m}
      <4> SUFFICES ASSUME NEW x \in T, x # m PROVE x \in s /\ x < m
        OBVIOUS
      <4>1. x \in s /\ x \in JobRuns /\ m \in JobRuns /\ x <= m
        BY <1>2, <3>2
      <4> QED
        BY <4>1 DEF JobRuns
    <3>4. Cardinality(Below(m) \cup {m}) <= Cardinality(Below(m)) + 1
      <4>1. IsFiniteSet(Below(m))
        BY <1>1, SubsetsAreFinite
      <4>2. Cardinality(Below(m)) \in Nat
        BY <1>1
      <4> HIDE DEF Below
      <4>3. Cardinality(Below(m) \cup {m}) = IF m \in Below(m) THEN Cardinality(Below(m))
                                              ELSE Cardinality(Below(m)) + 1
        BY <4>1, FS_AddElement
      <4> QED
        BY <4>2, <4>3
    <3>5. Cardinality(T) <= Cardinality(Below(m) \cup {m}) /\ Cardinality(T) \in Nat
      <4>1. Below(m) \cup {m} \in SUBSET JobRuns
        BY <1>2, <3>2
      <4> HIDE DEF Below, T
      <4> QED
        BY <3>3, <4>1, SubsetsAreFinite
    <3>6. Cardinality(Below(m)) < k /\ Cardinality(Below(m)) \in Nat
      BY <1>1, <1>2, <3>2
    <3>7. Cardinality(Below(m) \cup {m}) \in Nat
      <4>1. Below(m) \cup {m} \in SUBSET JobRuns
        BY <1>2, <3>2
      <4> HIDE DEF Below
      <4> QED
        BY <4>1, SubsetsAreFinite
    <3> HIDE DEF Below, T
    <3> QED
      BY <3>4, <3>5, <3>6, <3>7
  <2> QED
    BY <2>1, <2>2
<1>4. ASSUME NEW x \in T, NEW y \in s \ T PROVE x < y
  <2>1. x \in JobRuns /\ y \in JobRuns /\ x \in s /\ y \in s
    BY <1>2
  <2>2. y <= x => Below(y) \in SUBSET Below(x)
    <3> SUFFICES ASSUME y <= x, NEW z \in s, z < y PROVE z < x
      OBVIOUS
    <3>1. x \in Nat /\ y \in Nat /\ z \in Nat
      BY <2>1, TableAssumption DEF JobRuns
    <3> QED
      BY <3>1
  <2>3. y <= x => Cardinality(Below(y)) <= Cardinality(Below(x))
    <3>1. Below(x) \in SUBSET JobRuns
      OBVIOUS
    <3> HIDE DEF Below
    <3> QED
      BY <2>2, <3>1, SubsetsAreFinite
  <2>4. Cardinality(Below(x)) < k /\ ~(Cardinality(Below(y)) < k)
    BY <1>2, <2>1
  <2>5. Cardinality(Below(x)) \in Nat /\ Cardinality(Below(y)) \in Nat
    BY <1>1
  <2>6. ~(y <= x)
    <3> HIDE DEF Below
    <3> QED
      BY <2>3, <2>4, <2>5
  <2> QED
    BY <2>1, <2>6 DEF JobRuns
<1>5. ASSUME NEW l \in Nat, l <= k PROVE Smallest(s, l) \subseteq T
  <2>1. Smallest(s, l) = {x \in s : Cardinality(Below(x)) < l}
    BY DEF Smallest
  <2>2. \A x \in s : Cardinality(Below(x)) < l => Cardinality(Below(x)) < k
    <3> HIDE DEF Below
    <3> QED
      BY <1>1, <1>5
  <2> QED
    BY <1>2, <2>1, <2>2
<1> QED
  BY <1>2, <1>3, <1>4, <1>5

\* A limit of the smaller of two.
LEMMA LimitFacts ==
  ASSUME NEW a \in Nat, NEW b \in Nat
  PROVE  /\ (IF a < b THEN a ELSE b) \in Nat
         /\ (IF a < b THEN a ELSE b) <= a /\ (IF a < b THEN a ELSE b) <= b
         /\ Minus(a, b) \in Nat
BY DEF Minus

\* The runs of a job that keep_runs lets go.
PastKeep(j) ==
  LET matched == Finished \cap RunsOf(j)
  IN  Smallest(matched, Minus(Cardinality(matched), config.keepRuns[j]))

\* The runs the per-job rule may pick.
Expendable ==
  {r \in Finished \ Owing : \E j \in Jobs : config.keepRuns[j] # 0 /\ r \in PastKeep(j)}

\* What the n-th job of the list gives, when the jobs before it gave before.
Given(n, before) ==
  LET keep == config.keepRuns[JobOrder[n]]
  IN  IF keep = 0 THEN {}
      ELSE PastKeepRuns(JobOrder[n], keep, RemainingBudget(Cardinality(before)))

LEMMA BudgetFacts ==
  ASSUME config \in Configs, NEW selected \in Nat
  PROVE  /\ RemainingBudget(selected) \in Nat
         /\ config.maxDeletes # 0 /\ selected <= config.maxDeletes
              => selected + RemainingBudget(selected) <= config.maxDeletes
<1>1. config.maxDeletes \in Nat /\ MaxRuns \in Nat
  BY TableAssumption
<1> QED
  BY <1>1 DEF RemainingBudget, Minus

LEMMA GivenFacts ==
  ASSUME config \in Configs, NEW n \in 1..Len(JobOrder), NEW before \in SUBSET JobRuns
  PROVE  /\ Given(n, before) \subseteq Expendable
         /\ Given(n, before) \in SUBSET JobRuns
         /\ config.maxDeletes # 0 /\ Cardinality(before) <= config.maxDeletes
              => Cardinality(before \cup Given(n, before)) <= config.maxDeletes
<1> DEFINE j       == JobOrder[n]
           matched == Finished \cap RunsOf(j)
           keep    == config.keepRuns[j]
           past    == Minus(Cardinality(matched), keep)
           budget  == RemainingBudget(Cardinality(before))
           limit   == IF past < budget THEN past ELSE budget
           picked  == Smallest(matched, limit) \ Owing
<1>1. j \in Jobs /\ keep \in Nat /\ config.maxDeletes \in Nat
  <2>1. j \in Jobs
    BY RetentionAssumption
  <2> QED
    BY <2>1, TableAssumption
<1>2. matched \in SUBSET JobRuns /\ Cardinality(matched) \in Nat /\ Cardinality(before) \in Nat
  <2>1. matched \in SUBSET JobRuns
    BY DEF Finished
  <2> QED
    BY <2>1, SubsetsAreFinite
<1>3. past \in Nat /\ budget \in Nat
  BY <1>1, <1>2, LimitFacts, BudgetFacts
<1>4. limit \in Nat /\ limit <= past /\ limit <= budget
  BY <1>3
<1>5. Given(n, before) = IF keep = 0 THEN {} ELSE picked
  BY DEF Given, PastKeepRuns
<1>6. PastKeep(j) = Smallest(matched, past)
  BY DEF PastKeep
<1>7. /\ Smallest(matched, limit) \subseteq Smallest(matched, past)
      /\ Smallest(matched, limit) \subseteq matched
      /\ Cardinality(Smallest(matched, limit)) <= limit
  <2> HIDE DEF matched, limit, past, budget
  <2> QED
    BY <1>2, <1>3, <1>4, SmallestFacts
<1>8. Given(n, before) \subseteq Expendable
  <2>1. matched \subseteq Finished
    OBVIOUS
  <2> HIDE DEF matched, limit, past, budget, keep
  <2>2. keep # 0 => \A r \in picked : r \in Expendable
    BY <1>1, <1>6, <1>7, <2>1 DEF Expendable, keep
  <2> QED
    BY <1>5, <2>2
<1>9. picked \in SUBSET JobRuns /\ Cardinality(picked) \in Nat /\ Cardinality(picked) <= budget
  <2>1. Smallest(matched, limit) \in SUBSET JobRuns
    <3> HIDE DEF matched, limit
    <3> QED
      BY <1>2, <1>7
  <2>2. picked \in SUBSET Smallest(matched, limit)
    <3> HIDE DEF matched, limit
    <3> QED
      OBVIOUS
  <2>3. Cardinality(picked) \in Nat /\ Cardinality(picked) <= Cardinality(Smallest(matched, limit))
        /\ Cardinality(Smallest(matched, limit)) \in Nat
    <3> HIDE DEF matched, limit, picked
    <3> QED
      BY <2>1, <2>2, SubsetsAreFinite
  <2> HIDE DEF matched, limit, budget, picked
  <2>4. picked \in SUBSET JobRuns
    BY <2>1, <2>2
  <2> QED
    BY <1>3, <1>4, <1>7, <2>3, <2>4
<1>10. Given(n, before) \in SUBSET JobRuns
  BY <1>5, <1>9
<1>11. ASSUME config.maxDeletes # 0, Cardinality(before) <= config.maxDeletes
       PROVE  Cardinality(before \cup Given(n, before)) <= config.maxDeletes
  <2>1. Cardinality(before) + budget <= config.maxDeletes
    BY <1>2, <1>11, BudgetFacts
  <2> HIDE DEF matched, limit, budget, picked, keep
  <2>2. CASE keep = 0
    <3>1. before \cup Given(n, before) = before
      BY <1>5, <2>2
    <3> QED
      BY <1>11, <3>1
  <2>3. CASE keep # 0
    <3>1. Given(n, before) = picked
      BY <1>5, <2>3
    <3>2. Cardinality(before \cup picked) <= Cardinality(before) + Cardinality(picked)
      BY <1>9, UnionsCount
    <3>3. Cardinality(before \cup picked) \in Nat
      <4>1. before \cup picked \in SUBSET JobRuns
        BY <1>9
      <4> QED
        BY <4>1, SubsetsAreFinite
    <3> QED
      BY <1>1, <1>2, <1>3, <1>9, <2>1, <3>1, <3>2, <3>3
  <2> QED
    BY <2>2, <2>3
<1> QED
  BY <1>8, <1>10, <1>11

\* The per-job rule's recursion over the list of jobs.
LEMMA PerJobEquation ==
  ASSUME config \in Configs
  PROVE  PerJobCandidates = [n \in 0..Len(JobOrder) |->
           IF n = 0 THEN {}
           ELSE PerJobCandidates[n - 1] \cup Given(n, PerJobCandidates[n - 1])]
<1> DEFINE N == Len(JobOrder)
           S == SUBSET JobRuns
           Rec == [n \in 0..N |-> [g \in [0..N -> S] |->
                     IF n = 0 THEN {} ELSE g[n - 1] \cup Given(n, g[n - 1])]]
<1>1. N \in Nat
  BY RetentionAssumption
<1>2. \A n \in 1..N, before \in S : Given(n, before) \in S
  BY GivenFacts
<1> HIDE DEF N
<1>3. Rec \in [0..N -> [[0..N -> S] -> S]]
  <2> SUFFICES ASSUME NEW n \in 0..N, NEW g \in [0..N -> S]
               PROVE  (IF n = 0 THEN {} ELSE g[n - 1] \cup Given(n, g[n - 1])) \in S
    OBVIOUS
  <2>1. n # 0 => n \in 1..N /\ n - 1 \in 0..N
    BY <1>1
  <2> QED
    BY <1>2, <2>1
<1>4. AsksOnlyBelow(Rec, N, S)
  <2> SUFFICES ASSUME NEW n \in 0..N, NEW g \in [0..N -> S], NEW h \in [0..N -> S],
                      \A i \in 0..(n - 1) : g[i] = h[i]
               PROVE  Rec[n][g] = Rec[n][h]
    BY DEF AsksOnlyBelow
  <2>1. n # 0 => g[n - 1] = h[n - 1]
    BY <1>1
  <2> QED
    BY <2>1
<1>5. PICK g \in [0..N -> S] : DefinedBy(g, Rec, N)
  <2>1. S # {}
    OBVIOUS
  <2> HIDE DEF Rec, S
  <2> QED
    BY <1>1, <1>3, <1>4, <2>1, Recursion
<1>6. g = [n \in 0..N |-> IF n = 0 THEN {} ELSE g[n - 1] \cup Given(n, g[n - 1])]
  BY <1>5 DEF DefinedBy
<1>7. g = [n \in 0..N |->
        IF n = 0 THEN {}
        ELSE LET before == g[n - 1]
                 keep   == config.keepRuns[JobOrder[n]]
             IN  before \cup
                 IF keep = 0 THEN {}
                 ELSE PastKeepRuns(JobOrder[n], keep, RemainingBudget(Cardinality(before)))]
  BY <1>6 DEF Given
<1>8. PerJobCandidates = [n \in 0..N |->
        IF n = 0 THEN {}
        ELSE LET before == PerJobCandidates[n - 1]
                 keep   == config.keepRuns[JobOrder[n]]
             IN  before \cup
                 IF keep = 0 THEN {}
                 ELSE PastKeepRuns(JobOrder[n], keep, RemainingBudget(Cardinality(before)))]
  BY <1>7 DEF PerJobCandidates, N
<1> QED
  BY <1>8 DEF Given, N

\* The per-job rule picks runs that keep_runs lets go and that owe nothing, and never
\* more than the pass may delete.
LEMMA PerJobFacts ==
  ASSUME config \in Configs
  PROVE  LET picked == PerJobCandidates[Len(JobOrder)]
         IN  /\ picked \subseteq Expendable
             /\ config.maxDeletes # 0 => Cardinality(picked) <= config.maxDeletes
<1> DEFINE N == Len(JobOrder)
           Fine(s) == /\ s \subseteq Expendable
                      /\ config.maxDeletes # 0 => Cardinality(s) <= config.maxDeletes
           Good == {n \in 0..N : Fine(PerJobCandidates[n])}
<1>1. N \in Nat /\ config.maxDeletes \in Nat
  BY RetentionAssumption, TableAssumption
<1>2. \A n \in 0..N : PerJobCandidates[n] =
        IF n = 0 THEN {} ELSE PerJobCandidates[n - 1] \cup Given(n, PerJobCandidates[n - 1])
  BY PerJobEquation
<1>3. Expendable \subseteq JobRuns
  BY DEF Expendable, Finished
<1>4. 0 \in Good
  <2> HIDE DEF N
  <2>1. 0 \in 0..N
    BY <1>1
  <2>2. PerJobCandidates[0] = {}
    BY <1>2, <2>1
  <2>3. Fine({})
    BY <1>1, FS_EmptySet
  <2> QED
    BY <2>1, <2>2, <2>3
<1>5. ASSUME NEW n \in 0..(N - 1), n \in Good PROVE n + 1 \in Good
  <2>1. n + 1 \in 1..N /\ n + 1 \in 0..N /\ (n + 1) - 1 = n /\ n + 1 # 0
    BY <1>1
  <2>2. PerJobCandidates[n + 1] = PerJobCandidates[n] \cup Given(n + 1, PerJobCandidates[n])
    BY <1>2, <2>1
  <2>3. Fine(PerJobCandidates[n]) /\ PerJobCandidates[n] \in SUBSET JobRuns
    BY <1>3, <1>5
  <2> HIDE DEF N
  <2>4. /\ Given(n + 1, PerJobCandidates[n]) \subseteq Expendable
        /\ config.maxDeletes # 0 /\ Cardinality(PerJobCandidates[n]) <= config.maxDeletes
             => Cardinality(PerJobCandidates[n] \cup Given(n + 1, PerJobCandidates[n]))
                  <= config.maxDeletes
    BY <2>1, <2>3, GivenFacts DEF N
  <2>5. Fine(PerJobCandidates[n + 1])
    BY <2>2, <2>3, <2>4
  <2> QED
    BY <2>1, <2>5
<1>6. 0..N \subseteq Good
  <2> HIDE DEF Good, N
  <2> QED
    BY <1>1, <1>4, <1>5, SetInduction
<1>7. N \in Good
  <2> HIDE DEF Good, N
  <2> QED
    BY <1>1, <1>6
<1> QED
  BY <1>7

\* A pass picks settled runs that owe nothing, never more than it may delete, and when
\* the global rule is off only those keep_runs lets go.
LEMMA PickedFacts ==
  ASSUME config \in Configs, StartReaping
  PROVE  /\ reaping' \subseteq Finished \ Owing
         /\ config.maxDeletes # 0 => Cardinality(reaping') <= config.maxDeletes
         /\ config.keepRunsTotal = 0 => reaping' \subseteq Expendable
<1> DEFINE perJob    == PerJobCandidates[Len(JobOrder)]
           overflow  == Minus(Cardinality(Finished), config.keepRunsTotal)
           remaining == RemainingBudget(Cardinality(perJob))
           limit     == IF overflow < remaining THEN overflow ELSE remaining
           global    == OverflowCandidates(perJob)
<1>1. /\ perJob \subseteq Expendable
      /\ config.maxDeletes # 0 => Cardinality(perJob) <= config.maxDeletes
  BY PerJobFacts
<1>2. reaping' = perJob \cup global
  BY DEF StartReaping
<1> HIDE DEF perJob
<1>3. config.maxDeletes \in Nat /\ config.keepRunsTotal \in Nat
  BY TableAssumption
<1>4. /\ perJob \in SUBSET JobRuns /\ Cardinality(perJob) \in Nat
      /\ Finished \in SUBSET JobRuns /\ Cardinality(Finished) \in Nat
  <2>1. perJob \in SUBSET JobRuns /\ Finished \in SUBSET JobRuns
    BY <1>1 DEF Expendable, Finished
  <2> QED
    BY <2>1, SubsetsAreFinite
<1>5. overflow \in Nat /\ remaining \in Nat
  BY <1>3, <1>4, LimitFacts, BudgetFacts
<1>6. limit \in Nat /\ limit <= remaining
  BY <1>5
<1>7. global = IF config.keepRunsTotal = 0 THEN {}
               ELSE Smallest(Finished, limit) \ (Owing \cup perJob)
  BY DEF OverflowCandidates
<1> HIDE DEF limit, remaining, overflow
<1>8. Smallest(Finished, limit) \subseteq Finished /\ Cardinality(Smallest(Finished, limit)) <= limit
  BY <1>4, <1>6, SmallestFacts
<1>9. /\ global \in SUBSET JobRuns /\ global \subseteq Finished \ Owing
      /\ Cardinality(global) \in Nat /\ Cardinality(global) <= remaining
  <2>1. Smallest(Finished, limit) \in SUBSET JobRuns /\ global \in SUBSET Smallest(Finished, limit)
    BY <1>4, <1>7, <1>8
  <2> HIDE DEF global
  <2>2. Cardinality(global) \in Nat /\ Cardinality(global) <= Cardinality(Smallest(Finished, limit))
        /\ Cardinality(Smallest(Finished, limit)) \in Nat
    BY <2>1, SubsetsAreFinite
  <2> QED
    BY <1>5, <1>6, <1>7, <1>8, <2>1, <2>2 DEF global
<1> HIDE DEF global
<1>10. config.maxDeletes # 0 => Cardinality(perJob \cup global) <= config.maxDeletes
  <2> SUFFICES ASSUME config.maxDeletes # 0
               PROVE  Cardinality(perJob \cup global) <= config.maxDeletes
    OBVIOUS
  <2>1. Cardinality(perJob) + remaining <= config.maxDeletes
    BY <1>1, <1>4, BudgetFacts DEF remaining
  <2>2. Cardinality(perJob \cup global) <= Cardinality(perJob) + Cardinality(global)
    BY <1>4, <1>9, UnionsCount
  <2>3. Cardinality(perJob \cup global) \in Nat
    <3>1. perJob \cup global \in SUBSET JobRuns
      BY <1>4, <1>9
    <3> QED
      BY <3>1, SubsetsAreFinite
  <2> QED
    BY <1>3, <1>4, <1>5, <1>9, <2>1, <2>2, <2>3
<1> QED
  BY <1>1, <1>2, <1>7, <1>9, <1>10 DEF Expendable

LEMMA InitTable == Init => TableInv
<1> SUFFICES ASSUME Init PROVE TableInv
  OBVIOUS
<1> USE DEF Init, TableInit, NotificationsInit, RetentionInit
<1>1. \A r \in JobRuns : ~Exists(r)
  BY DEF Exists
<1>2. Linked
  BY <1>1 DEF Linked
<1>3. config.requests \in Nat /\ config.faults \in Nat
  BY TableAssumption
<1>4. InHand
  BY <1>3 DEF InHand, NotificationsTypeOK, RetentionTypeOK, AllNotifications, NoFamily, None
<1> QED
  BY <1>2, <1>4 DEF TableInv

LEMMA SchedulerLinks == ScheduleInv /\ TableInv /\ SchedulerStep => TableInv'
<1> SUFFICES ASSUME ScheduleInv, TableInv, SchedulerStep PROVE TableInv'
  OBVIOUS
<1>1. InHand'
  <2>1. UNCHANGED <<recording, delivered, reaping, family, requests, faults, cancelled, config>>
    BY DEF SchedulerStep, SchedulerNext, StartPass, SubmitIfMissing, SubmitOccurrence,
       notifying, retaining, asking, setting
  <2> QED
    BY <2>1 DEF TableInv, InHand, NotificationsTypeOK, RetentionTypeOK
<1>2. ASSUME NEW o \in Occurrences, SubmitOccurrence(o) PROVE Linked'
  <2>1. o = <<o[1], o[2]>> /\ o[1] \in Jobs /\ o[2] \in Instants
    BY ScheduleAssumption DEF Occurrences
  <2> QED
    BY <1>2, <2>1, InsertLinks DEF SubmitOccurrence, TableInv
<1>3. CASE UNCHANGED table
  BY <1>1, <1>3, TableIdle DEF table, TableInv
<1> QED
  BY <1>1, <1>2, <1>3 DEF SchedulerStep, SchedulerNext, StartPass, SubmitIfMissing, TableInv

LEMMA NotificationLinks == TableInv /\ NotificationStep => TableInv'
<1> SUFFICES ASSUME TableInv, NEW n \in AllNotifications,
                    CloseNotification(n) \/ SendNotification(n) \/ RecordDelivery(n),
                    UNCHANGED <<scheduling, retaining, asking, faults, cancelled>>
             PROVE  TableInv'
  BY DEF NotificationStep, NotificationsNext
<1>1. InHand'
  <2>1. UNCHANGED <<reaping, family, requests, faults, cancelled, config>>
    BY DEF CloseNotification, SendNotification, RecordDelivery, retaining, asking, setting
  <2>2. delivered' \in [AllNotifications -> Nat]
    BY DEF CloseNotification, SendNotification, RecordDelivery, notifying, TableInv, InHand,
       NotificationsTypeOK
  <2>3. recording' \subseteq AllNotifications
    BY DEF CloseNotification, SendNotification, RecordDelivery, notifying, TableInv, InHand,
       NotificationsTypeOK
  <2> QED
    BY <2>1, <2>2, <2>3 DEF TableInv, InHand, NotificationsTypeOK, RetentionTypeOK
<1>2. Linked'
  <2>1. CASE CloseNotification(n)
    BY <2>1, NotifyLinks DEF CloseNotification, IsDue, TableInv
  <2>2. CASE SendNotification(n)
    BY <2>2, TableIdle DEF SendNotification, table, TableInv
  <2>3. CASE RecordDelivery(n)
    <3>1. CASE notification[n] = "None"
      BY <2>3, <3>1, TableIdle DEF RecordDelivery, TableInv
    <3>2. CASE notification[n] # "None"
      <4>1. PICK v \in {"Sent", "Failed"} : notification' = [notification EXCEPT ![n] = v]
        BY <2>3, <3>2 DEF RecordDelivery
      <4> QED
        BY <2>3, <3>2, <4>1, NotifyLinks DEF RecordDelivery, TableInv
    <3> QED
      BY <3>1, <3>2
  <2> QED
    BY <2>1, <2>2, <2>3
<1> QED
  BY <1>1, <1>2 DEF TableInv


LEMMA RetentionLinks == ScheduleInv /\ TableInv /\ RetentionStep => TableInv'
<1> SUFFICES ASSUME ScheduleInv, TableInv, RetentionStep PROVE TableInv'
  OBVIOUS
<1>1. UNCHANGED <<recording, delivered, requests, faults, cancelled, config>>
  BY DEF RetentionStep, RetentionNext, StartReaping, Reap, LookAtDescendants, notifying,
     asking, setting
<1>2. CASE StartReaping
  <2>1. InHand'
    BY <1>1, <1>2, PickedFacts DEF StartReaping, TableInv, InHand, NotificationsTypeOK, RetentionTypeOK, Finished, ScheduleInv, RowTypes
  <2> QED
    BY <1>2, <2>1, TableIdle DEF StartReaping, table, TableInv
<1>3. CASE Reap
  <2>1. InHand'
    BY <1>1, <1>3 DEF Reap, TableInv, InHand, NotificationsTypeOK, RetentionTypeOK, NoFamily, None
  <2>2. Linked'
    BY <1>3, DeleteLinks DEF Reap, TableInv, InHand, ScheduleInv
  <2> QED
    BY <2>1, <2>2 DEF TableInv
<1>4. ASSUME NEW r \in JobRuns, LookAtDescendants(r) PROVE TableInv'
  <2>1. Descendants(r) \subseteq JobRuns
    BY DEF Descendants
  <2>2. reaping' \subseteq JobRuns
    BY <1>4 DEF LookAtDescendants, TableInv, InHand, RetentionTypeOK
  <2>3. /\ family' \in [root : {None} \cup JobRuns, seen : SUBSET JobRuns]
        /\ family' # NoFamily => family'.root \in JobRuns
    BY <1>4, <2>1 DEF LookAtDescendants, NoFamily
  <2>4. InHand'
    BY <1>1, <2>2, <2>3 DEF TableInv, InHand, NotificationsTypeOK, RetentionTypeOK
  <2> QED
    BY <1>4, <2>4, TableIdle DEF LookAtDescendants, table, TableInv
<1> QED
  BY <1>2, <1>3, <1>4 DEF RetentionStep, RetentionNext

LEMMA OrchestratorLinks == ScheduleInv /\ TableInv /\ OrchestratorStep => TableInv'
<1> SUFFICES ASSUME ScheduleInv, TableInv, NEW r \in JobRuns,
                    StartRun(r) \/ SkipRun(r) \/ SettleRun(r)
             PROVE  TableInv'
  BY DEF OrchestratorStep
<1>1. /\ UNCHANGED <<notification, stopRow, recording, delivered, reaping, family, requests,
                     faults, config>>
      /\ jobRun[r].status \in UnfinishedJobRun
      /\ \E s : SetStatus(r, s)
  BY DEF StartRun, SkipRun, SettleRun, others, setting, asking, notifying, retaining,
     UnfinishedJobRun
<1>2. cancelled' \subseteq Occurrences
  <2>1. jobRun[r].scheduled => <<jobRun[r].job, jobRun[r].at>> \in Occurrences
    BY <1>1 DEF TableInv, Linked, Exists, NoRow, UnfinishedJobRun
  <2> QED
    BY <2>1 DEF StartRun, SkipRun, SettleRun, TableInv, InHand
<1>3. InHand'
  BY <1>1, <1>2 DEF TableInv, InHand, NotificationsTypeOK, RetentionTypeOK
<1>4. Linked'
  BY <1>1, StatusLinks DEF TableInv, ScheduleInv
<1> QED
  BY <1>3, <1>4 DEF TableInv

LEMMA UserLinks == ScheduleInv /\ TableInv /\ UserStep => TableInv'
<1> SUFFICES ASSUME ScheduleInv, TableInv, UserStep PROVE TableInv'
  OBVIOUS
<1>1. InHand'
  <2>1. UNCHANGED <<recording, delivered, reaping, family, faults, cancelled, config>>
    BY DEF UserStep, Rerun, Submit, Stop, Delete, BeginRerun, SubmitChild, elsewhere, setting,
       notifying, retaining
  <2>2. config.requests \in Nat
    BY TableAssumption DEF ScheduleInv, RowTypes
  <2>3. requests' = requests \/ (requests < config.requests /\ requests' = requests + 1)
    BY DEF UserStep, Rerun, Submit, Stop, Delete, BeginRerun, SubmitChild, Ask
  <2> QED
    BY <2>1, <2>2, <2>3 DEF TableInv, InHand, NotificationsTypeOK, RetentionTypeOK
<1>2. CASE Rerun
  <2>1. PICK source \in rerunning :
          InsertJobRun(source.job, source.at, FALSE, None,
            Exists(source.run) /\ jobRun[source.run].tasks,
            {e \in Endings : notification[<<source.run, e>>] # "None"})
    BY <1>2 DEF Rerun
  <2>2. source.job \in Jobs /\ source.at \in Instants /\ source.run \in JobRuns
    BY <2>1 DEF RowTypes, ScheduleInv
  <2>3. jobRun[source.run] \in Row \cup {NoRow}
    BY <2>2 DEF RowTypes, ScheduleInv
  <2>4. (Exists(source.run) /\ jobRun[source.run].tasks) \in BOOLEAN
    BY <2>3 DEF Exists, Row
  <2> QED
    BY <1>1, <2>1, <2>2, <2>4, InsertLinks DEF TableInv
<1>3. ASSUME NEW j \in Jobs, Submit(j) PROVE TableInv'
  <2>1. now \in Instants
    BY DEF ScheduleInv, RowTypes
  <2> QED
    BY <1>1, <1>3, <2>1, InsertLinks DEF Submit, TableInv
<1>4. ASSUME NEW r \in JobRuns, SubmitChild(r) PROVE TableInv'
  <2>1. now \in Instants /\ Exists(r)
    BY <1>4 DEF ScheduleInv, RowTypes, SubmitChild
  <2> QED
    BY <1>1, <1>4, <2>1, InsertLinks, ServicesAssumption DEF SubmitChild, TableInv
<1>5. ASSUME NEW r \in JobRuns, Delete(r) PROVE TableInv'
  BY <1>1, <1>5, StatusLinks DEF Delete, UnfinishedJobRun, TableInv, ScheduleInv
<1>6. ASSUME NEW r \in JobRuns, Stop(r) PROVE TableInv'
  <2>1. Exists(r)
    BY <1>6 DEF Stop, Exists, NoRow, UnfinishedJobRun
  <2> QED
    BY <1>1, <1>6, <2>1 DEF Stop, TableInv, Linked, Exists, Occurrences
<1>7. ASSUME NEW r \in JobRuns, BeginRerun(r) PROVE TableInv'
  BY <1>1, <1>7, TableIdle DEF BeginRerun, table, TableInv
<1> QED
  BY <1>2, <1>3, <1>4, <1>5, <1>6, <1>7 DEF UserStep

LEMMA WorldLinks == ScheduleInv /\ TableInv /\ (Tick \/ Crash \/ LoseRecord) => TableInv'
<1> SUFFICES ASSUME ScheduleInv, TableInv, Tick \/ Crash \/ LoseRecord PROVE TableInv'
  OBVIOUS
<1>1. Linked'
  BY TableIdle DEF Tick, Crash, LoseRecord, RecordFails, table, TableInv
<1>2. config.faults \in Nat
  BY TableAssumption DEF ScheduleInv, RowTypes
<1>3. /\ UNCHANGED <<delivered, requests, cancelled, config>>
      /\ recording' = recording \/ recording' = {}
      /\ reaping' = reaping \/ reaping' = {}
      /\ family' = family \/ family' = NoFamily
      /\ faults' = faults \/ (faults < config.faults /\ faults' = faults + 1)
  BY DEF Tick, Crash, LoseRecord, RecordFails, Fault, setting, notifying, retaining, asking
<1>4. InHand'
  BY <1>2, <1>3 DEF TableInv, InHand, NotificationsTypeOK, RetentionTypeOK, NoFamily, None
<1> QED
  BY <1>1, <1>4 DEF TableInv

LEMMA TableInvariant == Spec => []TableInv
<1>1. ScheduleInv /\ TableInv /\ [Next]_vars => TableInv'
  <2> SUFFICES ASSUME ScheduleInv, TableInv, [Next]_vars PROVE TableInv'
    OBVIOUS
  <2>1. CASE UNCHANGED vars
    BY <2>1, TableIdle DEF vars, table, setting, scheduling, notifying, retaining, asking,
       TableInv, InHand, NotificationsTypeOK, RetentionTypeOK
  <2> QED
    BY <2>1, SchedulerLinks, NotificationLinks, RetentionLinks, OrchestratorLinks, UserLinks,
       WorldLinks DEF Next
<1> QED
  BY <1>1, InitTable, ScheduleInvariant, PTL DEF Spec

-----------------------------------------------------------------------------
\* The rows, with their foreign keys, are always of runs that are there, and what the
\* services and the users hold in their hands is of the right type.
THEOREM RowsHaveTheirRuns == Spec => []TypeOK
<1>1. ScheduleInv /\ TableInv => TypeOK
  BY TypesOfTheParts DEF ScheduleInv
<1> QED
  BY <1>1, ScheduleInvariant, TableInvariant, PTL

-----------------------------------------------------------------------------
(* What is behind a run once it has settled.                               *)

\* No step brings a run back, changes one that has settled but for a reap's delete, or
\* opens a notification of a run that has been submitted.
PastIsPast ==
  /\ lastId <= lastId'
  /\ \A r \in JobRuns : r <= lastId =>
       /\ Exists(r)' => Exists(r)
       /\ IsFinished(r) => jobRun'[r] = jobRun[r] \/ (Reap /\ jobRun'[r] = NoRow)
       /\ \A e \in Endings :
            notification'[<<r, e>>] = "Pending" => notification[<<r, e>>] = "Pending"

LEMMA InsertIsNew ==
  ASSUME ScheduleInv, NEW j, NEW at, NEW scheduled, NEW p, NEW tasks, NEW ons,
         InsertJobRun(j, at, scheduled, p, tasks, ons)
  PROVE  PastIsPast
<1>1. lastId \in Nat /\ lastId' = lastId + 1
  BY TableAssumption DEF ScheduleInv, RowTypes, InsertJobRun
<1>2. \A r \in JobRuns : r <= lastId => r # lastId + 1
  BY <1>1 DEF JobRuns
<1>3. \A r \in JobRuns : r <= lastId => jobRun'[r] = jobRun[r]
  BY <1>2 DEF InsertJobRun, ScheduleInv, RowTypes
<1>4. \A r \in JobRuns, e \in Endings :
        r <= lastId => notification'[<<r, e>>] = notification[<<r, e>>]
  BY <1>2 DEF InsertJobRun
<1> QED
  BY <1>1, <1>3, <1>4 DEF PastIsPast, Exists

LEMMA StatusIsNew ==
  ASSUME ScheduleInv, NEW r \in JobRuns, NEW s, SetStatus(r, s),
         jobRun[r].status \in UnfinishedJobRun, UNCHANGED <<lastId, notification>>
  PROVE  PastIsPast
<1>1. \A x \in JobRuns : x # r => jobRun'[x] = jobRun[x]
  BY DEF ScheduleInv, RowTypes, SetStatus
<1>2. Exists(r) /\ ~IsFinished(r)
  BY DEF Exists, NoRow, IsFinished, UnfinishedJobRun, FinishedJobRun
<1>3. lastId <= lastId'
  BY DEF ScheduleInv, RowTypes
<1> QED
  BY <1>1, <1>2, <1>3 DEF PastIsPast, Exists

LEMMA NothingReturns == ScheduleInv /\ TableInv /\ [Next]_vars => PastIsPast
<1> SUFFICES ASSUME ScheduleInv, TableInv, [Next]_vars PROVE PastIsPast
  OBVIOUS
<1>1. lastId \in Int
  BY DEF ScheduleInv, RowTypes
<1>2. CASE UNCHANGED <<jobRun, lastId, notification>>
  BY <1>1, <1>2 DEF PastIsPast, Exists
<1>3. CASE UNCHANGED <<jobRun, lastId>>
           /\ \E n \in AllNotifications, v \in {"Sent", "Failed", "Skipped"} :
                notification' = [notification EXCEPT ![n] = v]
  <2>1. PICK n \in AllNotifications, v \in {"Sent", "Failed", "Skipped"} :
               notification' = [notification EXCEPT ![n] = v]
    BY <1>3
  <2>2. \A m \in JobRuns \X Endings : notification'[m] = IF m = n THEN v ELSE notification[m]
    BY <2>1 DEF TableInv, Linked, AllNotifications
  <2> QED
    BY <1>1, <1>3, <2>2 DEF PastIsPast, Exists
<1>4. ASSUME NEW r \in JobRuns, Reap, DeleteJobRunsWithChildren(r) PROVE PastIsPast
  BY <1>1, <1>4 DEF DeleteJobRunsWithChildren, PastIsPast, Exists
<1>5. CASE UNCHANGED vars
  BY <1>2, <1>5 DEF vars, table
<1>6. CASE SchedulerStep
  BY <1>2, <1>6, InsertIsNew DEF SchedulerStep, SchedulerNext, StartPass, SubmitIfMissing,
     SubmitOccurrence, table
<1>7. CASE NotificationStep
  BY <1>2, <1>3, <1>7 DEF NotificationStep, NotificationsNext, CloseNotification,
     SendNotification, RecordDelivery, table
<1>8. CASE RetentionStep
  BY <1>2, <1>4, <1>8 DEF RetentionStep, RetentionNext, StartReaping, LookAtDescendants, Reap,
     table, TableInv, InHand
<1>9. CASE OrchestratorStep
  <2>1. PICK r \in JobRuns : StartRun(r) \/ SkipRun(r) \/ SettleRun(r)
    BY <1>9 DEF OrchestratorStep
  <2>2. /\ UNCHANGED <<lastId, notification>> /\ jobRun[r].status \in UnfinishedJobRun
        /\ \E s : SetStatus(r, s)
    BY <2>1 DEF StartRun, SkipRun, SettleRun, others, UnfinishedJobRun
  <2> QED
    BY <2>2, StatusIsNew
<1>10. CASE UserStep
  <2>1. ASSUME NEW r \in JobRuns, Delete(r) PROVE PastIsPast
    BY <2>1, StatusIsNew DEF Delete, UnfinishedJobRun
  <2>2. ASSUME NEW r \in JobRuns, Stop(r) \/ BeginRerun(r) PROVE PastIsPast
    BY <1>2, <2>2 DEF Stop, BeginRerun, table
  <2> QED
    BY <1>10, <2>1, <2>2, InsertIsNew DEF UserStep, Rerun, Submit, SubmitChild
<1>11. CASE Tick \/ Crash \/ LoseRecord
  BY <1>2, <1>11 DEF Tick, Crash, LoseRecord, RecordFails, table
<1> QED
  BY <1>5, <1>6, <1>7, <1>8, <1>9, <1>10, <1>11 DEF Next

-----------------------------------------------------------------------------
(* A message goes out once, and once more for each delivery lost.          *)

\* Unless it is being recorded, a notification that is still open has gone out only as
\* often as there were faults; and none has gone out of a run not yet submitted.
DeliveryInv ==
  /\ \A n, m \in recording : n = m
  /\ DeliveredOncePerFault
  /\ \A n \in AllNotifications :
       /\ notification[n] = "Pending" /\ n \notin recording => delivered[n] <= faults
       /\ delivered[n] # 0 => n[1] <= lastId

LEMMA InitDelivery == Init => DeliveryInv
BY DEF Init, NotificationsInit, DeliveryInv, DeliveredOncePerFault

\* A step of no notification pass, and without a fault.
LEMMA QuietDelivery ==
  ASSUME ScheduleInv, ScheduleInv', TableInv, DeliveryInv, PastIsPast,
         UNCHANGED <<recording, delivered, faults>>
  PROVE  DeliveryInv'
<1>1. faults \in Nat /\ delivered \in [AllNotifications -> Nat]
  BY TableAssumption DEF TableInv, InHand, NotificationsTypeOK, ScheduleInv, RowTypes
<1>2. lastId \in Int /\ lastId' \in Int /\ lastId <= lastId'
  BY DEF ScheduleInv, RowTypes, PastIsPast
<1>3. ASSUME NEW n \in AllNotifications
      PROVE  /\ notification'[n] = "Pending" /\ n \notin recording' => delivered'[n] <= faults'
             /\ delivered'[n] # 0 => n[1] <= lastId'
  <2>1. n = <<n[1], n[2]>> /\ n[1] \in JobRuns /\ n[2] \in Endings /\ n[1] \in Int
    BY DEF AllNotifications, JobRuns
  <2>2. CASE n[1] <= lastId
    BY <1>1, <1>2, <2>1, <2>2 DEF PastIsPast, DeliveryInv
  <2>3. CASE ~(n[1] <= lastId)
    BY <1>1, <1>2, <2>1, <2>3 DEF DeliveryInv
  <2> QED
    BY <2>2, <2>3
<1> QED
  BY <1>3 DEF DeliveryInv, DeliveredOncePerFault

LEMMA DeliveryKeeps ==
  ScheduleInv /\ ScheduleInv' /\ TableInv /\ DeliveryInv /\ [Next]_vars => DeliveryInv'
<1> SUFFICES ASSUME ScheduleInv, ScheduleInv', TableInv, DeliveryInv, [Next]_vars
             PROVE  DeliveryInv'
  OBVIOUS
<1>1. PastIsPast
  BY NothingReturns
<1>2. faults \in Nat /\ delivered \in [AllNotifications -> Nat] /\ recording \subseteq AllNotifications
  BY TableAssumption DEF TableInv, InHand, NotificationsTypeOK, ScheduleInv, RowTypes
<1>3. CASE UNCHANGED <<recording, delivered, faults>>
  BY <1>1, <1>3, QuietDelivery
<1>4. CASE NotificationStep
  <2>1. PICK n \in AllNotifications :
          CloseNotification(n) \/ SendNotification(n) \/ RecordDelivery(n)
    BY <1>4 DEF NotificationStep, NotificationsNext
  <2>2. faults' = faults
    BY <1>4 DEF NotificationStep
  <2>3. CASE CloseNotification(n)
    BY <1>3, <2>2, <2>3 DEF CloseNotification, notifying
  <2>4. CASE SendNotification(n)
    <3>1. /\ recording = {} /\ recording' = {n} /\ UNCHANGED <<notification, lastId>>
          /\ notification[n] = "Pending" /\ IsFinished(n[1])
          /\ \A m \in AllNotifications : delivered'[m] = IF m = n THEN delivered[m] + 1
                                                         ELSE delivered[m]
      BY <1>2, <2>4 DEF SendNotification, IsDue, table
    <3>2. n[1] \in JobRuns /\ n[1] <= lastId
      <4>1. n[1] \in JobRuns /\ n[1] \in Int /\ lastId \in Int
        BY DEF AllNotifications, JobRuns, ScheduleInv, RowTypes
      <4>2. Exists(n[1])
        BY <3>1 DEF IsFinished, Exists, NoRow, FinishedJobRun
      <4>3. ~(n[1] > lastId)
        BY <4>1, <4>2 DEF ScheduleInv
      <4> QED
        BY <4>1, <4>3
    <3>3. delivered[n] <= faults
      BY <3>1 DEF DeliveryInv
    <3> QED
      BY <1>2, <2>2, <3>1, <3>2, <3>3 DEF DeliveryInv, DeliveredOncePerFault
  <2>5. CASE RecordDelivery(n)
    <3>1. /\ recording' = {} /\ n \in recording /\ UNCHANGED <<delivered, lastId>>
          /\ notification'[n] # "Pending"
          /\ \A m \in AllNotifications : m # n => notification'[m] = notification[m]
      BY <2>5 DEF RecordDelivery, TableInv, Linked, AllNotifications
    <3>2. \A m \in AllNotifications : m # n => m \notin recording
      BY <3>1 DEF DeliveryInv
    <3> QED
      BY <2>2, <3>1, <3>2 DEF DeliveryInv, DeliveredOncePerFault
  <2> QED
    BY <2>1, <2>3, <2>4, <2>5
<1>5. CASE Crash \/ LoseRecord
  <2>1. /\ recording' = {} /\ faults' = faults + 1
        /\ UNCHANGED <<delivered, notification, lastId>>
    BY <1>5 DEF Crash, LoseRecord, RecordFails, Fault, table
  <2> QED
    BY <1>2, <2>1 DEF DeliveryInv, DeliveredOncePerFault
<1>6. CASE SchedulerStep \/ RetentionStep \/ OrchestratorStep \/ UserStep \/ Tick \/ UNCHANGED vars
  BY <1>3, <1>6 DEF SchedulerStep, RetentionStep, OrchestratorStep, StartRun, SkipRun, SettleRun,
     others, UserStep, Rerun, Submit, Stop, Delete, BeginRerun, SubmitChild, elsewhere, Tick,
     notifying, vars
<1> QED
  BY <1>4, <1>5, <1>6 DEF Next

\* A message goes out again only for a delivery that was never recorded, however many
\* runs, users and crashes: handle_open_notification, "each send is tried once".
THEOREM MessagesGoOutOnce == Spec => []DeliveredOncePerFault
<1>1. DeliveryInv => DeliveredOncePerFault
  BY DEF DeliveryInv
<1> QED
  BY <1>1, InitDelivery, DeliveryKeeps, ScheduleInvariant, TableInvariant, PTL DEF Spec

-----------------------------------------------------------------------------
(* What a pass has taken on stays as it was when it was picked.            *)

\* The runs the pass has yet to delete, and those that go with the next of them.
Doomed == {r \in JobRuns : r \in reaping \/ r = family.root}
Seen   == {r \in JobRuns : r \in reaping \/ r = family.root \/ r \in family.seen}

\* They have settled, they owe nothing, and no pass takes more on than it may.
ReapInv ==
  /\ PassKeepsToItsBudget
  /\ \A r \in Seen : r <= lastId /\ (Exists(r) => IsFinished(r))
  /\ Doomed \cap Owing = {}

LEMMA InitReap == Init => ReapInv
<1> SUFFICES ASSUME Init PROVE ReapInv
  OBVIOUS
<1>1. reaping = {} /\ family = NoFamily /\ config.maxDeletes \in Nat
  BY TableAssumption DEF Init, RetentionInit, TableInit
<1>2. Seen = {} /\ Doomed = {}
  BY <1>1 DEF Seen, Doomed, NoFamily, None, JobRuns
<1> QED
  BY <1>1, <1>2, FS_EmptySet DEF ReapInv, PassKeepsToItsBudget

\* A settled run is one that is there, and so has been submitted.
LEMMA SettledRunsAreThere ==
  ASSUME ScheduleInv, NEW r \in JobRuns, IsFinished(r)
  PROVE  Exists(r) /\ r <= lastId
<1>1. Exists(r)
  BY DEF IsFinished, Exists, NoRow, FinishedJobRun
<1>2. r \in Int /\ lastId \in Int /\ ~(r > lastId)
  BY <1>1 DEF ScheduleInv, RowTypes, JobRuns
<1> QED
  BY <1>1, <1>2

\* A step on which the pass takes on nothing.
LEMMA NothingTakenOn ==
  ASSUME ScheduleInv, ScheduleInv', TableInv, ReapInv, PastIsPast,
         Seen' \subseteq Seen, Doomed' \subseteq Doomed, reaping' \subseteq reaping,
         config' = config
  PROVE  ReapInv'
<1>1. PassKeepsToItsBudget'
  <2>1. reaping \in SUBSET JobRuns
    BY DEF TableInv, InHand, RetentionTypeOK
  <2>2. Cardinality(reaping') <= Cardinality(reaping)
        /\ Cardinality(reaping') \in Nat /\ Cardinality(reaping) \in Nat
    BY <2>1, SubsetsAreFinite
  <2>3. config.maxDeletes \in Nat
    BY TableAssumption DEF ScheduleInv, RowTypes
  <2> QED
    BY <2>2, <2>3 DEF ReapInv, PassKeepsToItsBudget
<1>2. lastId \in Int /\ lastId' \in Int /\ lastId <= lastId'
  BY DEF ScheduleInv, RowTypes, PastIsPast
<1>3. ASSUME NEW r \in Seen' PROVE r <= lastId' /\ (Exists(r)' => IsFinished(r)')
  <2>1. r \in JobRuns /\ r \in Int /\ r <= lastId /\ (Exists(r) => IsFinished(r))
    BY DEF Seen, ReapInv, JobRuns
  <2>2. Exists(r)' => IsFinished(r)'
    BY <2>1 DEF PastIsPast, Exists, IsFinished
  <2> QED
    BY <1>2, <2>1, <2>2
<1>4. ASSUME NEW r \in Doomed' PROVE r \notin Owing'
  <2>1. r \in JobRuns /\ r <= lastId /\ r \notin Owing
    BY DEF Doomed, Seen, ReapInv
  <2> QED
    BY <2>1 DEF PastIsPast, Owing
<1> QED
  BY <1>1, <1>3, <1>4 DEF ReapInv

LEMMA ReapKeeps ==
  ScheduleInv /\ ScheduleInv' /\ TableInv /\ TableInv' /\ ReapInv /\ [Next]_vars => ReapInv'
<1> SUFFICES ASSUME ScheduleInv, ScheduleInv', TableInv, TableInv', ReapInv, [Next]_vars
             PROVE  ReapInv'
  OBVIOUS
<1>1. PastIsPast
  BY NothingReturns
<1>2. CASE UNCHANGED <<config, reaping, family>>
  BY <1>1, <1>2, NothingTakenOn DEF Seen, Doomed
<1>3. CASE config' = config /\ reaping' \subseteq reaping /\ family' = NoFamily
  <2>1. \A r \in JobRuns : r # family'.root /\ r \notin family'.seen
    BY <1>3 DEF NoFamily, None, JobRuns
  <2> QED
    BY <1>1, <1>3, <2>1, NothingTakenOn DEF Seen, Doomed
<1>4. CASE StartReaping
  <2>1. /\ config' = config /\ family' = NoFamily /\ UNCHANGED <<jobRun, notification, lastId>>
        /\ config \in Configs
    BY <1>4 DEF StartReaping, setting, table, ScheduleInv, RowTypes
  <2>2. /\ reaping' \subseteq Finished \ Owing
        /\ config.maxDeletes # 0 => Cardinality(reaping') <= config.maxDeletes
    BY <1>4, <2>1, PickedFacts
  <2>3. \A r \in JobRuns : r # family'.root /\ r \notin family'.seen
    BY <2>1 DEF NoFamily, None, JobRuns
  <2>4. \A r \in Seen' : r \in Finished
    BY <2>2, <2>3 DEF Seen
  <2>5. \A r \in Finished : r \in JobRuns /\ IsFinished(r) /\ Exists(r) /\ r <= lastId
    BY SettledRunsAreThere DEF Finished
  <2>6. \A r \in Doomed' : r \notin Owing'
    BY <2>1, <2>2, <2>3 DEF Doomed, Owing
  <2> QED
    BY <2>1, <2>2, <2>4, <2>5, <2>6 DEF ReapInv, PassKeepsToItsBudget, IsFinished, Exists
<1>5. ASSUME NEW r \in JobRuns, LookAtDescendants(r) PROVE ReapInv'
  <2>1. CASE family' = NoFamily
    BY <1>3, <1>5, <2>1 DEF LookAtDescendants, setting
  <2>2. CASE family' # NoFamily
    <3>1. /\ UNCHANGED <<jobRun, notification, lastId, config>>
          /\ r \in reaping /\ reaping' = reaping \ {r}
          /\ family'.root = r /\ family'.seen = Descendants(r)
          /\ \A d \in Descendants(r) : IsFinished(d)
      BY <1>5, <2>2 DEF LookAtDescendants, table, setting
    <3>2. Descendants(r) \subseteq JobRuns
      BY DEF Descendants
    <3>3. r \in Seen /\ r \in Doomed
      BY <3>1 DEF Seen, Doomed
    <3>4. \A x \in Seen' : x \in Seen \/ x \in Descendants(r)
      BY <3>1 DEF Seen
    <3>5. \A x \in Descendants(r) : Exists(x) /\ IsFinished(x) /\ x <= lastId
      BY <3>1, <3>2, SettledRunsAreThere
    <3>6. \A x \in Doomed' : x \in Doomed /\ x \notin Owing'
      BY <3>1, <3>3 DEF Doomed, ReapInv, Owing
    <3>7. PassKeepsToItsBudget'
      <4>1. reaping \in SUBSET JobRuns
        BY DEF TableInv, InHand, RetentionTypeOK
      <4>2. Cardinality(reaping') <= Cardinality(reaping)
            /\ Cardinality(reaping') \in Nat /\ Cardinality(reaping) \in Nat
        BY <3>1, <4>1, SubsetsAreFinite
      <4>3. config.maxDeletes \in Nat
        BY TableAssumption DEF ScheduleInv, RowTypes
      <4> QED
        BY <3>1, <4>2, <4>3 DEF ReapInv, PassKeepsToItsBudget
    <3>8. \A x \in Seen' : x <= lastId' /\ (Exists(x)' => IsFinished(x)')
      BY <3>1, <3>4, <3>5 DEF ReapInv, Exists, IsFinished
    <3> QED
      BY <3>6, <3>7, <3>8 DEF ReapInv
  <2> QED
    BY <2>1, <2>2
<1>6. CASE RetentionStep
  BY <1>3, <1>4, <1>5, <1>6 DEF RetentionStep, RetentionNext, Reap, setting
<1>7. CASE Crash
  BY <1>3, <1>7 DEF Crash, setting
<1>8. CASE SchedulerStep \/ NotificationStep \/ OrchestratorStep \/ UserStep \/ Tick \/ LoseRecord
           \/ UNCHANGED vars
  BY <1>2, <1>8 DEF SchedulerStep, SchedulerNext, StartPass, SubmitIfMissing, SubmitOccurrence,
     NotificationStep, NotificationsNext, CloseNotification, SendNotification, RecordDelivery,
     OrchestratorStep, StartRun, SkipRun, SettleRun, others, UserStep, Rerun, Submit, Stop,
     Delete, BeginRerun, SubmitChild, elsewhere, Tick, LoseRecord, RecordFails, retaining,
     setting, vars
<1> QED
  BY <1>6, <1>7, <1>8 DEF Next

LEMMA ReapInvariant == Spec => []ReapInv
BY InitReap, ReapKeeps, ScheduleInvariant, TableInvariant, PTL DEF Spec

\* One pass never takes on more than max_deletes_per_pass, the two rules together,
\* whatever the table holds and however the budget falls: remaining_budget.
THEOREM PassesKeepToTheirBudget == Spec => []PassKeepsToItsBudget
<1>1. ReapInv => PassKeepsToItsBudget
  BY DEF ReapInv
<1> QED
  BY <1>1, ReapInvariant, PTL

\* Nothing that was seen settled by the look at the descendants, nor the run itself,
\* is ever deleted alive: what has settled stays so until it goes.
THEOREM SeenFamiliesGoSettled == Spec => ReapedFamilyHadSettled
<1>1. TableInv /\ ReapInv /\ [Next]_vars =>
        [\A r \in family.seen \cup {family.root} :
           r # None /\ Exists(r) /\ ~Exists(r)' => IsFinished(r)]_vars
  <2> SUFFICES ASSUME TableInv, ReapInv, NEW r \in family.seen \cup {family.root}, r # None,
                      Exists(r)
               PROVE  IsFinished(r)
    OBVIOUS
  <2>1. r \in Seen
    BY DEF TableInv, InHand, RetentionTypeOK, Seen
  <2> QED
    BY <2>1 DEF ReapInv
<1> QED
  BY <1>1, TableInvariant, ReapInvariant, PTL DEF Spec, ReapedFamilyHadSettled

\* No run that still owes a notification is the root of a reap: those that do are
\* dropped when picked, and nothing new is owed after a run has been submitted.
THEOREM RootsOweNothing == Spec => ReapedRunsOweNothing
<1>1. TableInv /\ ReapInv /\ [Next]_vars => [Reap => family.root \notin Owing]_vars
  <2> SUFFICES ASSUME TableInv, ReapInv, Reap PROVE family.root \notin Owing
    OBVIOUS
  <2>1. family.root \in Doomed
    BY DEF Reap, TableInv, InHand, Doomed
  <2> QED
    BY <2>1 DEF ReapInv
<1> QED
  BY <1>1, TableInvariant, ReapInvariant, PTL DEF Spec, ReapedRunsOweNothing

-----------------------------------------------------------------------------
(* What keep_runs keeps.                                                   *)

\* The settled runs of a job after r that the pass leaves alone.
Kept(r, j) == {x \in Finished \cap RunsOf(j) : x > r} \ Doomed

\* Behind each run the pass is to delete, keep_runs of the job's runs are left alone.
KeepInv ==
  config.keepRunsTotal = 0 =>
    \A j \in Jobs \ {ChildJob} : \A r \in Doomed \cap RunsOf(j) :
      Cardinality(Kept(r, j)) >= config.keepRuns[j]

LEMMA InitKeep == Init => KeepInv
<1> SUFFICES ASSUME Init PROVE Doomed = {}
  BY DEF KeepInv
<1> QED
  BY DEF Init, RetentionInit, Doomed, NoFamily, None, JobRuns

\* Those keep_runs lets go are older than keep_runs others.
LEMMA PastKeepLeavesTheRest ==
  ASSUME config \in Configs, NEW j \in Jobs, NEW r \in PastKeep(j)
  PROVE  Cardinality({x \in Finished \cap RunsOf(j) : x > r} \ PastKeep(j)) >= config.keepRuns[j]
<1> DEFINE matched == Finished \cap RunsOf(j)
           keep    == config.keepRuns[j]
           past    == Minus(Cardinality(matched), keep)
           rest    == matched \ PastKeep(j)
<1>1. keep \in Nat
  BY TableAssumption
<1>2. matched \in SUBSET JobRuns
  BY DEF Finished
<1>3. IsFiniteSet(matched) /\ Cardinality(matched) \in Nat
  BY <1>2, SubsetsAreFinite
<1>4. past \in Nat /\ (past = Cardinality(matched) - keep \/ past = 0)
  BY <1>1, <1>3 DEF Minus
<1>5. PastKeep(j) = Smallest(matched, past)
  BY DEF PastKeep
<1> HIDE DEF matched, past
<1>6. /\ PastKeep(j) \subseteq matched /\ Cardinality(PastKeep(j)) <= past
      /\ \A x \in PastKeep(j), y \in rest : x < y
  BY <1>2, <1>4, <1>5, SmallestFacts
<1>7. Cardinality(PastKeep(j)) \in Nat /\ PastKeep(j) \in SUBSET matched
  BY <1>2, <1>6, SubsetsAreFinite
<1>8. Cardinality(PastKeep(j)) # 0
  <2>1. IsFiniteSet(PastKeep(j))
    BY <1>2, <1>7, SubsetsAreFinite
  <2> QED
    BY <2>1, FS_EmptySet
<1>9. Cardinality(rest) = Cardinality(matched) - Cardinality(PastKeep(j))
  <2>1. Cardinality(matched \ PastKeep(j)) =
          Cardinality(matched) - Cardinality(matched \cap PastKeep(j))
    BY <1>3, FS_Difference
  <2>2. matched \cap PastKeep(j) = PastKeep(j)
    BY <1>6
  <2> QED
    BY <2>1, <2>2
<1>10. Cardinality(rest) >= keep
  <2> HIDE DEF keep, rest
  <2> QED
    BY <1>1, <1>3, <1>4, <1>6, <1>7, <1>8, <1>9
<1>11. rest = {x \in matched : x > r} \ PastKeep(j)
  <2>1. \A y \in rest : y > r
    <3>1. \A y \in rest : y \in JobRuns /\ r \in JobRuns /\ r < y
      BY <1>2, <1>6
    <3> QED
      BY <3>1 DEF JobRuns
  <2> QED
    BY <2>1
<1> QED
  BY <1>10, <1>11 DEF matched

LEMMA PickedAreBehindTheKept ==
  ASSUME config \in Configs, StartReaping, TableInv
  PROVE  KeepInv'
<1> SUFFICES ASSUME config.keepRunsTotal = 0, NEW j \in Jobs \ {ChildJob},
                    NEW r \in (Doomed \cap RunsOf(j))'
             PROVE  Cardinality(Kept(r, j)') >= config.keepRuns[j]
  BY DEF KeepInv, StartReaping, setting
<1>1. reaping' \subseteq Expendable
  BY PickedFacts
<1>2. UNCHANGED <<jobRun, notification>> /\ family' = NoFamily
  BY DEF StartReaping, table
<1>3. Doomed' = {x \in JobRuns : x \in reaping'}
  BY <1>2 DEF Doomed, NoFamily, None, JobRuns
<1>4. \A x \in Doomed' : \A i \in Jobs : x \in RunsOf(i) => x \in PastKeep(i)
  <2>1. \A x \in JobRuns, i, k \in Jobs : x \in RunsOf(i) /\ x \in RunsOf(k) => i = k
    BY DEF RunsOf
  <2>2. \A i \in Jobs : PastKeep(i) \subseteq RunsOf(i)
    BY DEF PastKeep, Smallest
  <2>3. \A x \in Doomed' : x \in JobRuns /\ \E k \in Jobs : x \in PastKeep(k)
    BY <1>1, <1>3 DEF Expendable
  <2> QED
    BY <2>1, <2>2, <2>3
<1>5. r \in RunsOf(j) /\ r \in PastKeep(j)
  BY <1>2, <1>4 DEF RunsOf, Exists
<1> DEFINE left == {x \in Finished \cap RunsOf(j) : x > r}
<1>6. left \ PastKeep(j) \subseteq Kept(r, j)'
  BY <1>2, <1>4 DEF Kept, Finished, IsFinished, RunsOf, Exists
<1>7. Kept(r, j)' \in SUBSET JobRuns
  BY DEF Kept, Finished
<1>8. /\ left \ PastKeep(j) \in SUBSET JobRuns
      /\ Cardinality(left \ PastKeep(j)) <= Cardinality(Kept(r, j)')
  BY <1>6, <1>7, SubsetsAreFinite
<1>9. Cardinality(left \ PastKeep(j)) \in Nat /\ Cardinality(Kept(r, j)') \in Nat
  BY <1>7, <1>8, SubsetsAreFinite
<1>10. Cardinality(left \ PastKeep(j)) >= config.keepRuns[j]
  BY <1>5, PastKeepLeavesTheRest
<1>11. config.keepRuns[j] \in Nat
  BY TableAssumption
<1> QED
  BY <1>8, <1>9, <1>10, <1>11

\* A settled run that no task submitted goes only in a reap of its own.
LEMMA OrphansGoAlone ==
  ASSUME ScheduleInv, TableInv, PastIsPast, NEW x \in JobRuns, IsFinished(x),
         x \notin Doomed, jobRun[x].parent = None
  PROVE  jobRun'[x] = jobRun[x]
<1>1. x <= lastId /\ Exists(x)
  BY SettledRunsAreThere
<1>2. CASE Reap
  <2>1. family.root \in JobRuns /\ x # family.root
    BY <1>2 DEF Reap, TableInv, InHand, Doomed
  <2>2. x \notin Descendants(family.root)
    BY <2>1, DescendantsAreFamily DEF ScheduleInv, TableInv
  <2> QED
    BY <1>2, <2>1, <2>2 DEF Reap, DeleteJobRunsWithChildren
<1> QED
  BY <1>1, <1>2 DEF PastIsPast

LEMMA KeptStay ==
  ASSUME ScheduleInv, TableInv, ReapInv, KeepInv, PastIsPast, Doomed' \subseteq Doomed,
         config' = config
  PROVE  KeepInv'
<1> SUFFICES ASSUME config.keepRunsTotal = 0, NEW j \in Jobs \ {ChildJob},
                    NEW r \in (Doomed \cap RunsOf(j))'
             PROVE  Cardinality(Kept(r, j)') >= config.keepRuns[j]
  BY DEF KeepInv
<1>1. r \in JobRuns /\ r \in Doomed /\ r <= lastId /\ r \in Seen
  BY DEF Doomed, Seen, ReapInv
<1>2. r \in RunsOf(j)
  <2>1. Exists(r) /\ Exists(r)' /\ jobRun'[r].job = j
    BY <1>1 DEF RunsOf, PastIsPast
  <2>2. jobRun'[r] = jobRun[r]
    BY <1>1, <2>1 DEF ReapInv, PastIsPast, Exists
  <2> QED
    BY <1>1, <2>1, <2>2 DEF RunsOf
<1>3. Kept(r, j) \subseteq Kept(r, j)'
  <2> SUFFICES ASSUME NEW x \in Kept(r, j) PROVE x \in Kept(r, j)'
    OBVIOUS
  <2>1. x \in JobRuns /\ IsFinished(x) /\ Exists(x) /\ jobRun[x].job = j /\ x \notin Doomed /\ x > r
    BY DEF Kept, Finished, RunsOf
  <2>2. jobRun[x].parent = None
    BY <2>1 DEF TableInv, Linked
  <2>3. jobRun'[x] = jobRun[x]
    BY <2>1, <2>2, OrphansGoAlone
  <2> QED
    BY <2>1, <2>3 DEF Kept, Finished, RunsOf, IsFinished, Exists
<1>4. Kept(r, j) \in SUBSET JobRuns /\ Kept(r, j)' \in SUBSET JobRuns
  BY DEF Kept, Finished
<1>5. /\ Cardinality(Kept(r, j)) \in Nat /\ Cardinality(Kept(r, j)') \in Nat
      /\ Cardinality(Kept(r, j)) <= Cardinality(Kept(r, j)')
  BY <1>3, <1>4, SubsetsAreFinite
<1>6. Cardinality(Kept(r, j)) >= config.keepRuns[j] /\ config.keepRuns[j] \in Nat
  BY <1>1, <1>2, TableAssumption DEF KeepInv, ScheduleInv, RowTypes
<1> QED
  BY <1>5, <1>6

LEMMA KeepKeeps ==
  ScheduleInv /\ TableInv /\ ReapInv /\ KeepInv /\ [Next]_vars => KeepInv'
<1> SUFFICES ASSUME ScheduleInv, TableInv, ReapInv, KeepInv, [Next]_vars PROVE KeepInv'
  OBVIOUS
<1>1. PastIsPast
  BY NothingReturns
<1>2. CASE UNCHANGED <<config, reaping, family>>
  BY <1>1, <1>2, KeptStay DEF Doomed
<1>3. CASE config' = config /\ reaping' \subseteq reaping /\ family' = NoFamily
  <2>1. \A r \in JobRuns : r # family'.root
    BY <1>3 DEF NoFamily, None, JobRuns
  <2> QED
    BY <1>1, <1>3, <2>1, KeptStay DEF Doomed
<1>4. CASE StartReaping
  BY <1>4, PickedAreBehindTheKept DEF ScheduleInv, RowTypes
<1>5. ASSUME NEW r \in JobRuns, LookAtDescendants(r) PROVE KeepInv'
  <2>1. CASE family' = NoFamily
    BY <1>3, <1>5, <2>1 DEF LookAtDescendants, setting
  <2>2. CASE family' # NoFamily
    <3>1. config' = config /\ r \in reaping /\ reaping' = reaping \ {r} /\ family'.root = r
      BY <1>5, <2>2 DEF LookAtDescendants, setting
    <3> QED
      BY <1>1, <3>1, KeptStay DEF Doomed
  <2> QED
    BY <2>1, <2>2
<1>6. CASE RetentionStep
  BY <1>3, <1>4, <1>5, <1>6 DEF RetentionStep, RetentionNext, Reap, setting
<1>7. CASE Crash
  BY <1>3, <1>7 DEF Crash, setting
<1>8. CASE SchedulerStep \/ NotificationStep \/ OrchestratorStep \/ UserStep \/ Tick \/ LoseRecord
           \/ UNCHANGED vars
  BY <1>2, <1>8 DEF SchedulerStep, SchedulerNext, StartPass, SubmitIfMissing, SubmitOccurrence,
     NotificationStep, NotificationsNext, CloseNotification, SendNotification, RecordDelivery,
     OrchestratorStep, StartRun, SkipRun, SettleRun, others, UserStep, Rerun, Submit, Stop,
     Delete, BeginRerun, SubmitChild, elsewhere, Tick, LoseRecord, RecordFails, retaining,
     setting, vars
<1> QED
  BY <1>6, <1>7, <1>8 DEF Next

LEMMA KeepInvariant == Spec => []KeepInv
BY InitKeep, KeepKeeps, ScheduleInvariant, TableInvariant, ReapInvariant, PTL DEF Spec

\* When retention goes by keep_runs alone, a reap leaves the keep_runs newest settled
\* runs of its job, for any job whose runs no task submits: select_deletable_job_runs,
\* and whatever happened between the pick and the delete.
THEOREM TheNewestAreKept == Spec => NewestRunsAreKept
<1>1. ScheduleInv /\ TableInv /\ ReapInv /\ KeepInv /\ [Next]_vars =>
        [\A j \in Jobs \ {ChildJob} :
           Reap /\ config.keepRunsTotal = 0 /\ family.root \in RunsOf(j) =>
             Cardinality({r \in (Finished \cap RunsOf(j))' : r > family.root})
               >= config.keepRuns[j]]_vars
  <2> SUFFICES ASSUME ScheduleInv, TableInv, ReapInv, KeepInv, [Next]_vars,
                      NEW j \in Jobs \ {ChildJob},
                      Reap, config.keepRunsTotal = 0, family.root \in RunsOf(j)
               PROVE  Cardinality({r \in (Finished \cap RunsOf(j))' : r > family.root})
                        >= config.keepRuns[j]
    OBVIOUS
  <2> DEFINE root  == family.root
             after == {r \in (Finished \cap RunsOf(j))' : r > root}
  <2>1. PastIsPast
    BY NothingReturns
  <2>2. root \in Doomed
    BY DEF RunsOf, Doomed
  <2>3. Kept(root, j) \subseteq after
    <3> SUFFICES ASSUME NEW x \in Kept(root, j) PROVE x \in after
      OBVIOUS
    <3>1. x \in JobRuns /\ IsFinished(x) /\ Exists(x) /\ jobRun[x].job = j /\ x \notin Doomed
          /\ x > root
      BY DEF Kept, Finished, RunsOf
    <3>2. jobRun[x].parent = None
      BY <3>1 DEF TableInv, Linked
    <3>3. jobRun'[x] = jobRun[x]
      BY <2>1, <3>1, <3>2, OrphansGoAlone
    <3> QED
      BY <3>1, <3>3 DEF Finished, RunsOf, IsFinished, Exists
  <2>4. Kept(root, j) \in SUBSET JobRuns /\ after \in SUBSET JobRuns
    BY DEF Kept, Finished
  <2>5. /\ Cardinality(Kept(root, j)) \in Nat /\ Cardinality(after) \in Nat
        /\ Cardinality(Kept(root, j)) <= Cardinality(after)
    <3> HIDE DEF after
    <3> QED
      BY <2>3, <2>4, SubsetsAreFinite
  <2>6. Cardinality(Kept(root, j)) >= config.keepRuns[j] /\ config.keepRuns[j] \in Nat
    BY <2>2, TableAssumption DEF KeepInv, ScheduleInv, RowTypes
  <2> QED
    BY <2>5, <2>6
<1> QED
  BY <1>1, ScheduleInvariant, TableInvariant, ReapInvariant, KeepInvariant, PTL
     DEF Spec, NewestRunsAreKept

=============================================================================
