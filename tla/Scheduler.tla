------------------------------ MODULE Scheduler ------------------------------
(***************************************************************************)
(* The scheduler: for each occurrence a schedule desires and each of its   *)
(* jobs, submit a run unless one stands.  The pass reads the clock once;   *)
(* the look and the insert are separate statements.                        *)
(***************************************************************************)
EXTENDS JobRunTable

CONSTANTS
  ScheduleJobs,  \* schedule.jobs
  Cron,          \* the instants the schedule's cron expression matches
  StartDate,     \* the first instant of schedule.start_date
  EndDate        \* the last instant of schedule.end_date

ASSUME ScheduleAssumption ==
  /\ ScheduleJobs \subseteq Jobs
  /\ Cron \subseteq Instants
  /\ {StartDate, EndDate} \subseteq Instants

VARIABLES
  desired,  \* the (job, occurrence) pairs the pass has yet to look at
  missing   \* the pair it found no run for and is submitting

scheduling == <<desired, missing>>
Occurrences == ScheduleJobs \X Cron

SchedulerTypeOK ==
  /\ desired \subseteq Occurrences
  /\ missing \subseteq Occurrences

SchedulerInit == desired = {} /\ missing = {}

-----------------------------------------------------------------------------
\* CronTrigger::get_next_runs: the next count instants strictly after the clock
\* and after the first midnight of start_date, cut off by end_date.
GetNextRuns(count) ==
  LET from  == IF now < StartDate THEN StartDate ELSE now
      after == {o \in Cron : o > from /\ o <= EndDate}
  IN  {o \in after : Cardinality({p \in after : p < o}) < count}

\* A run the schedule submitted for the occurrence.
StandsFor(r, o) == jobRun[r].scheduled /\ jobRun[r].at = o[2]
Tombstone(r, o) == StandsFor(r, o) /\ jobRun[r].status = "Deleted"

\* Mutation: only a run still Scheduled holds its instant.
OccupiedWhileScheduled(o) ==
  \E r \in RunsOf(o[1]) : StandsFor(r, o) /\ jobRun[r].status = "Scheduled"

\* Mutation: a tombstone holds its instant as a skipped run does.
OccupiedByTombstone(o) == \E r \in RunsOf(o[1]) : StandsFor(r, o)

\* occupying_statuses: a run of the occurrence in any status but Deleted.
Occupied(o) == \E r \in RunsOf(o[1]) : StandsFor(r, o) /\ ~Tombstone(r, o)

\* reconcile_schedule reads the clock and lists what the schedule desires.
StartPass ==
  /\ desired = {} /\ missing = {}
  /\ desired' = ScheduleJobs \X GetNextRuns(config.submitAhead)
  /\ desired' # {}
  /\ UNCHANGED <<table, setting, missing>>

\* submit_if_missing, the look, occurrence by occurrence: a pair that is occupied
\* is passed over.
SubmitIfMissing(o) ==
  /\ missing = {}
  /\ o \in desired /\ \A p \in desired : o[2] <= p[2]
  /\ desired' = desired \ {o}
  /\ missing' = IF Occupied(o) THEN {} ELSE {o}
  /\ UNCHANGED <<table, setting>>

\* submit_if_missing, the insert; a submission that fails is logged and the pass
\* goes on, which the next pass's look makes up for.
SubmitOccurrence(o) ==
  /\ o \in missing
  /\ missing' = {}
  /\ InsertJobRun(o[1], o[2], TRUE, None, TRUE, NotifyOn[o[1]])
  /\ UNCHANGED <<setting, desired>>

SchedulerNext ==
  \/ StartPass
  \/ \E o \in Occurrences : SubmitIfMissing(o) \/ SubmitOccurrence(o)

=============================================================================
