---------------------------- MODULE FlowliteStatus ----------------------------
(***************************************************************************)
(* The status columns of flowlite's three run tables, and the predicates   *)
(* the services ask of them.  A row that has not been inserted reads       *)
(* "None"; every other value is a variant of the Rust enum of that name.   *)
(***************************************************************************)

\* JobRunStatus, split where is_finished splits it.
UnfinishedJobRun == {"Scheduled", "Queued", "Running"}
FinishedJobRun   == {"Succeeded", "Failed", "Skipped", "Aborted", "TimedOut",
                     "Invalid", "Deleted"}
JobRunStatus     == UnfinishedJobRun \cup FinishedJobRun

\* TaskRunStatus.  A "Skipped" or "Aborted" task run reports a stop.
UnfinishedTaskRun == {"Planned", "Waiting", "Running"}
FinishedTaskRun   == {"Succeeded", "Failed", "Skipped", "Aborted", "TimedOut",
                      "Invalid"}
TaskRunStatus     == UnfinishedTaskRun \cup FinishedTaskRun

\* TaskRunAttemptStatus.
UnfinishedAttempt == {"Queued", "Running"}
FinishedAttempt   == {"Succeeded", "Failed", "Skipped", "Aborted", "TimedOut",
                      "Invalid"}
AttemptStatus     == UnfinishedAttempt \cup FinishedAttempt

\* is_stopped, the same two variants for task runs and for attempts.
Stopped == {"Aborted", "Skipped"}

-----------------------------------------------------------------------------
\* Mutation: a stop outranks a failure, though a failure skips what depends on it.
StopOutranksFailure(s) ==
  IF "Invalid" \in s THEN "Invalid"
  ELSE IF s \subseteq {"Succeeded"} THEN "Succeeded"
  ELSE IF s \cap Stopped # {} THEN "Aborted"
  ELSE IF "Failed" \in s THEN "Failed"
  ELSE "TimedOut"

\* JobRunMonitor::derive_next_status over the statuses s of a run's task runs,
\* all of them finished: what flowlite lost track of outranks every verdict,
\* and a real failure outranks a stop.  An empty s has succeeded.
JobRunVerdict(s) ==
  IF "Invalid" \in s THEN "Invalid"
  ELSE IF s \subseteq {"Succeeded"} THEN "Succeeded"
  ELSE IF "Failed" \in s THEN "Failed"
  ELSE IF "TimedOut" \in s THEN "TimedOut"
  ELSE "Aborted"

\* TaskRunMonitor::derive_next_status over the status of a finished last
\* attempt, its retries used up: a stopped attempt aborts the task run even if
\* its command never started.
TaskRunVerdict(s) == IF s \in Stopped THEN "Aborted" ELSE s

=============================================================================
