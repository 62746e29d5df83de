----------------------------- MODULE JobRunTable -----------------------------
(***************************************************************************)
(* The tables the services around the orchestrator share: job_run,         *)
(* job_run_stop and job_run_notification, with the statements that insert  *)
(* and remove a run.  A run's task runs are one bit here, whether it has   *)
(* any; its attempts are its own status.                                   *)
(***************************************************************************)
EXTENDS Naturals, FiniteSets, FlowliteStatus

CONSTANTS
  Jobs,      \* job ids
  NotifyOn,  \* the endings a job's notify blocks name, by job
  Configs,   \* the configurations to check: schedule.submit_ahead, keep_runs by
             \* job, keep_runs_total, max_deletes_per_pass, and as bounds what
             \* users ask for, how often, the faults and where the clock stops
  MaxRuns,   \* bound: the job_run ids handed out
  Horizon    \* bound: the last instant any clock reaches

JobRuns == 1..MaxRuns
Instants == 0..Horizon
Endings == {"Failure", "Success"}

ASSUME TableAssumption ==
  /\ NotifyOn \in [Jobs -> SUBSET Endings]
  /\ Configs \subseteq [submitAhead : Nat, keepRuns : [Jobs -> Nat],
                     keepRunsTotal : Nat, maxDeletes : Nat, asks : SUBSET STRING,
                     requests : Nat, faults : Nat, until : Instants]
  /\ MaxRuns \in Nat
  /\ Horizon \in Nat

VARIABLES
  config,        \* the configuration the server was started with
  jobRun,        \* job_run rows by id, NoRow where there is none
  lastId,        \* the AUTOINCREMENT counter: an id is never used again
  notification,  \* job_run_notification.status, by run and ending
  stopRow,       \* runs with a job_run_stop row
  now            \* the clock

table   == <<jobRun, lastId, notification, stopRow>>
setting == <<config, now>>

\* No run: also the parent of a run nobody's task submitted.
None == 0
NoRow == [status |-> "None"]
Row == [job : Jobs, at : Instants, scheduled : BOOLEAN, parent : {None} \cup JobRuns,
        tasks : BOOLEAN, status : JobRunStatus]

\* With what the foreign keys say: no row is of a run that is not there.
TableTypeOK ==
  /\ config \in Configs
  /\ jobRun \in [JobRuns -> Row \cup {NoRow}]
  /\ lastId \in 0..MaxRuns
  /\ notification \in [JobRuns \X Endings ->
                         {"None", "Pending", "Sent", "Failed", "Skipped"}]
  /\ stopRow \subseteq JobRuns
  /\ now \in Instants
  /\ \A r \in JobRuns : jobRun[r] = NoRow =>
       /\ r \notin stopRow
       /\ \A e \in Endings : notification[<<r, e>>] = "None"
       /\ \A c \in JobRuns : jobRun[c] # NoRow => jobRun[c].parent # r

TableInit ==
  /\ config \in Configs
  /\ jobRun = [r \in JobRuns |-> NoRow]
  /\ lastId = 0
  /\ notification = [n \in JobRuns \X Endings |-> "None"]
  /\ stopRow = {}
  /\ now = 0

Exists(r)     == jobRun[r] # NoRow
IsFinished(r) == jobRun[r].status \in FinishedJobRun
Unfinished(r) == jobRun[r].status \in UnfinishedJobRun
Finished      == {r \in JobRuns : IsFinished(r)}
RunsOf(j)     == {r \in JobRuns : Exists(r) /\ jobRun[r].job = j}

-----------------------------------------------------------------------------
\* Whether there is an id left: the bound, never a condition of the code.
Room == lastId < MaxRuns

\* insert_job_run_definition, a run of job j with one open notification for each
\* ending in ons.
InsertJobRun(j, at, scheduled, parent, tasks, ons) ==
  /\ Room
  /\ lastId' = lastId + 1
  /\ jobRun' = [jobRun EXCEPT ![lastId + 1] =
       [job |-> j, at |-> at, scheduled |-> scheduled, parent |-> parent,
        tasks |-> tasks, status |-> "Scheduled"]]
  /\ notification' = [n \in JobRuns \X Endings |->
       IF n[1] = lastId + 1 /\ n[2] \in ons THEN "Pending" ELSE notification[n]]
  /\ UNCHANGED stopRow

SetStatus(r, status) == jobRun' = [jobRun EXCEPT ![r].status = status]

-----------------------------------------------------------------------------
\* The runs above a run: the one whose task submitted it, and those above that.
Ancestors[x \in JobRuns] ==
  IF ~Exists(x) \/ jobRun[x].parent = None THEN {}
  ELSE {jobRun[x].parent} \cup Ancestors[jobRun[x].parent]

\* select_job_run_descendants: what the run's tasks submitted, and what theirs
\* did, which is every run with r somewhere above it.
Descendants(r) == {x \in JobRuns : r \in Ancestors[x]}

\* Mutation: the runs its tasks submitted are left where they are.
DeleteJobRunOnly(r) ==
  /\ jobRun' = [jobRun EXCEPT ![r] = NoRow]
  /\ notification' = [n \in JobRuns \X Endings |->
                        IF n[1] = r THEN "None" ELSE notification[n]]
  /\ stopRow' = stopRow \ {r}
  /\ UNCHANGED lastId

\* delete_job_runs_with_children with an id filter: one transaction that finds
\* the run and its descendants and removes the rows of all of them.
DeleteJobRunsWithChildren(r) ==
  LET gone == IF Exists(r) THEN {r} \cup Descendants(r) ELSE {}
  IN  /\ jobRun' = [x \in JobRuns |-> IF x \in gone THEN NoRow ELSE jobRun[x]]
      /\ notification' = [n \in JobRuns \X Endings |->
                            IF n[1] \in gone THEN "None" ELSE notification[n]]
      /\ stopRow' = stopRow \ gone
      /\ UNCHANGED lastId

=============================================================================
