------------------------------ MODULE Services ------------------------------
(***************************************************************************)
(* The services around the orchestrator, on one database: the scheduler    *)
(* submits, the notification service reports, retention deletes, users of  *)
(* other processes stop, delete, rerun and submit, and the orchestrator,   *)
(* which RunPipeline models, is reduced to when a run starts and how it    *)
(* ends.  A crash loses what each pass had in hand and nothing else.       *)
(***************************************************************************)
EXTENDS Scheduler, Notifications, Retention

CONSTANTS
  Verdicts,     \* the verdicts JobRunMonitor may reach
  ChildJob      \* the job a task's command submits

ASSUME ServicesAssumption ==
  /\ Verdicts \subseteq FinishedJobRun \ {"Deleted", "Skipped"}
  /\ ChildJob \in Jobs

VARIABLES
  rerunning,  \* the job_run row a rerun has read and is about to copy
  requests,   \* user requests so far, up to config.requests
  faults,     \* faults so far, up to config.faults
  cancelled   \* history: occurrences whose run was skipped by a stop

asking == <<rerunning, requests>>
vars == <<table, setting, scheduling, notifying, retaining, asking, faults, cancelled>>

TypeOK ==
  /\ TableTypeOK /\ SchedulerTypeOK /\ NotificationsTypeOK /\ RetentionTypeOK
  /\ rerunning \subseteq [run : JobRuns, job : Jobs, at : Instants]
  /\ requests \in 0..config.requests
  /\ faults \in 0..config.faults
  /\ cancelled \subseteq Occurrences

Init ==
  /\ TableInit /\ SchedulerInit /\ NotificationsInit /\ RetentionInit
  /\ rerunning = {} /\ requests = 0 /\ faults = 0 /\ cancelled = {}

-----------------------------------------------------------------------------
(* The services, each leaving the others' variables alone.                 *)

SchedulerStep ==
  SchedulerNext /\ UNCHANGED <<notifying, retaining, asking, faults, cancelled>>
NotificationStep ==
  NotificationsNext /\ UNCHANGED <<scheduling, retaining, asking, faults, cancelled>>
RetentionStep ==
  RetentionNext /\ UNCHANGED <<scheduling, notifying, asking, faults, cancelled>>

-----------------------------------------------------------------------------
(* The orchestrator, as the services see it.                               *)

others == <<lastId, notification, stopRow, scheduling, notifying, retaining,
            asking, faults>>

\* JobRunReleaser and JobRunDispatcher together: a run whose instant has come.
StartRun(r) ==
  /\ jobRun[r].status = "Scheduled" /\ jobRun[r].at <= now
  /\ r \notin stopRow
  /\ SetStatus(r, "Running")
  /\ UNCHANGED <<setting, others, cancelled>>

\* skip_job_run: a run stopped before it started, its instant ahead or not.
SkipRun(r) ==
  /\ jobRun[r].status = "Scheduled" /\ r \in stopRow
  /\ SetStatus(r, "Skipped")
  /\ cancelled' = cancelled \cup
       IF jobRun[r].scheduled /\ jobRun[r].at > now
       THEN {<<jobRun[r].job, jobRun[r].at>>} ELSE {}
  /\ UNCHANGED <<setting, others>>

\* JobRunMonitor: a verdict of JobRunVerdict's, a stop's own only if there was
\* one, and that of no task runs at all is Succeeded.
SettleRun(r) ==
  /\ jobRun[r].status = "Running"
  /\ \E v \in Verdicts : /\ v = "Aborted" => r \in stopRow
                         /\ ~jobRun[r].tasks => v = "Succeeded"
                         /\ SetStatus(r, v)
  /\ UNCHANGED <<setting, others, cancelled>>

OrchestratorStep == \E r \in JobRuns : StartRun(r) \/ SkipRun(r) \/ SettleRun(r)

-----------------------------------------------------------------------------
(* Other processes, the clock and the faults.                              *)

elsewhere == <<setting, scheduling, notifying, retaining, faults, cancelled>>
Ask(what) ==
  /\ what \in config.asks /\ requests < config.requests
  /\ requests' = requests + 1

\* submit_job from a frontend, due now.
Submit(j) ==
  /\ Ask("submit")
  /\ InsertJobRun(j, now, FALSE, None, TRUE, NotifyOn[j])
  /\ UNCHANGED <<rerunning, elsewhere>>

\* stop_job_run of shared/job_run.rs.
Stop(r) ==
  /\ Ask("stop")
  /\ jobRun[r].status \in UnfinishedJobRun /\ r \notin stopRow
  /\ stopRow' = stopRow \cup {r}
  /\ UNCHANGED <<jobRun, lastId, notification, rerunning, elsewhere>>

\* delete_job_run: the status is checked and the tombstone written in one
\* transaction.
Delete(r) ==
  /\ Ask("delete")
  /\ jobRun[r].status = "Scheduled"
  /\ SetStatus(r, "Deleted")
  /\ UNCHANGED <<lastId, notification, stopRow, rerunning, elsewhere>>

\* rerun_job reads the run; the frontend has refused a Deleted one.
BeginRerun(r) ==
  /\ rerunning = {} /\ Ask("rerun")
  /\ Exists(r) /\ jobRun[r].status # "Deleted"
  /\ rerunning' = {[run |-> r, job |-> jobRun[r].job, at |-> jobRun[r].at]}
  /\ UNCHANGED <<table, elsewhere>>

\* rerun_job reads the run's task runs and notifications, both by job_run_id, and
\* inserts the copy: a manual submission, whatever schedule the run was of.
Rerun ==
  \E source \in rerunning :
    /\ rerunning' = {}
    /\ InsertJobRun(source.job, source.at, FALSE, None,
                    Exists(source.run) /\ jobRun[source.run].tasks,
                    {e \in Endings : notification[<<source.run, e>>] # "None"})
    /\ UNCHANGED <<requests, elsewhere>>

\* submit_job from a task's command: a run that is being stopped may not, and a
\* process that outlived a run which has settled may still.
SubmitChild(r) ==
  /\ Ask("child")
  /\ Exists(r) /\ r \notin stopRow /\ jobRun[r].job # ChildJob
  /\ jobRun[r].status \notin {"Scheduled", "Skipped", "Deleted"}
  /\ InsertJobRun(ChildJob, now, FALSE, r, TRUE, NotifyOn[ChildJob])
  /\ UNCHANGED <<rerunning, elsewhere>>

Tick ==
  /\ now < config.until
  /\ now' = now + 1
  /\ UNCHANGED <<table, config, scheduling, notifying, retaining, asking, faults,
                 cancelled>>

Fault == faults < config.faults /\ faults' = faults + 1

\* The server dies and is started again.
Crash ==
  /\ Fault
  /\ desired' = {} /\ missing' = {} /\ recording' = {}
  /\ reaping' = {} /\ family' = NoFamily
  /\ UNCHANGED <<table, setting, delivered, asking, cancelled>>

LoseRecord ==
  /\ Fault
  /\ \E n \in AllNotifications : RecordFails(n)
  /\ UNCHANGED <<scheduling, retaining, asking, cancelled>>

-----------------------------------------------------------------------------
UserStep ==
  \/ Rerun
  \/ \E j \in Jobs : Submit(j)
  \/ \E r \in JobRuns : Stop(r) \/ Delete(r) \/ BeginRerun(r) \/ SubmitChild(r)

Next == \/ SchedulerStep \/ NotificationStep \/ RetentionStep
        \/ OrchestratorStep \/ UserStep
        \/ Tick \/ Crash \/ LoseRecord

\* Every poller keeps polling and the orchestrator keeps working.  Nothing is
\* assumed of the users, of the clock or of the faults.
Fairness ==
  /\ WF_vars(SchedulerStep) /\ WF_vars(NotificationStep) /\ WF_vars(RetentionStep)
  /\ WF_vars(OrchestratorStep)

Spec == Init /\ [][Next]_vars /\ Fairness

-----------------------------------------------------------------------------
(* Safety.                                                                 *)

\* At most one run stands for a job's occurrence, whatever the scheduler's passes,
\* deletes, reruns and restarts did to it: submit_if_missing.
OneRunPerOccurrence ==
  \A r, s \in JobRuns :
    /\ Exists(r) /\ jobRun[r].scheduled /\ jobRun[r].status # "Deleted"
    /\ Exists(s) /\ jobRun[s].scheduled /\ jobRun[s].status # "Deleted"
    /\ jobRun[r].job = jobRun[s].job /\ jobRun[r].at = jobRun[s].at
    => r = s

\* A message goes out again only for a delivery that was never recorded:
\* handle_open_notification, "each send is tried once".
DeliveredOncePerFault ==
  \A n \in AllNotifications : delivered[n] <= 1 + faults

\* One pass never takes on more than max_deletes_per_pass, the two rules together:
\* remaining_budget.
PassKeepsToItsBudget ==
  config.maxDeletes # 0 => Cardinality(reaping) <= config.maxDeletes

\* What the look at the descendants saw settled is all the delete takes with the
\* run, but for a run submitted in between: nothing seen comes back to life.
ReapedFamilyHadSettled ==
  [][\A r \in family.seen \cup {family.root} :
       r # None /\ Exists(r) /\ ~Exists(r)' => IsFinished(r)]_vars

\* Roots of a reap owe no notification when they go: select_deletable_job_runs
\* drops those that do, and nothing new is owed after a run has settled.
ReapedRunsOweNothing ==
  [][Reap => family.root \notin Owing]_vars

\* keep_runs alone always leaves the keep_runs newest finished runs of a job whose
\* runs no task submits; those a task submits go with the run of that task.
NewestRunsAreKept ==
  [][\A j \in Jobs \ {ChildJob} :
       Reap /\ config.keepRunsTotal = 0 /\ family.root \in RunsOf(j) =>
         Cardinality({r \in (Finished \cap RunsOf(j))' : r > family.root})
           >= config.keepRuns[j]]_vars

-----------------------------------------------------------------------------
(* Liveness.                                                               *)

\* Again and again no settled run owes a notification.
NotificationsSettle == []<>(Owing \cap Finished = {})

\* Again and again every deleted run's occurrence has been written again, or its
\* instant has come.
DeletedOccurrencesReturn ==
  []<>(\A o \in Occurrences :
         o[2] > now /\ (\E r \in RunsOf(o[1]) : Tombstone(r, o))
           => \E r \in RunsOf(o[1]) : StandsFor(r, o) /\ ~Tombstone(r, o))

\* Again and again retention has worked its backlog off, whatever a pass had to
\* leave for a later one.
RetentionCatchesUp ==
  []<>(\A j \in Jobs : config.keepRuns[j] = 0
                       \/ Cardinality(Finished \cap RunsOf(j)) <= config.keepRuns[j])

-----------------------------------------------------------------------------
(* What the documentation says, and the code does not do.                  *)

\* "cancelling a single occurrence has to stick": no run is submitted for an
\* occurrence whose run was skipped by a stop.
CancelledOccurrenceStays ==
  [][\A o \in cancelled : ~SubmitOccurrence(o)]_vars

=============================================================================
