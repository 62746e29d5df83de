--------------------------- MODULE JobRunLifecycle ---------------------------
(***************************************************************************)
(* What flowlite promises of a job run that nobody deletes, as its status  *)
(* shows it: no task runs, no attempts, no server that may be down.  A run *)
(* is scheduled, queued, started within its job's max_parallel_runs and    *)
(* settled once, Skipped only if it was stopped before it started and      *)
(* Aborted only if it was stopped.                                         *)
(***************************************************************************)
EXTENDS Naturals, FiniteSets, FlowliteStatus

CONSTANTS Jobs, JobRuns, JobOf, MaxParallelRuns

VARIABLES
  status,   \* of each job run
  stopped   \* job runs a stop was asked for

Init == status = [r \in JobRuns |-> "None"] /\ stopped = {}

Move(r, from, to) ==
  /\ status[r] = from
  /\ status' = [status EXCEPT ![r] = to]
  /\ UNCHANGED stopped

Submit(r) == Move(r, "None", "Scheduled")

Stop(r) ==
  /\ status[r] # "None"
  /\ stopped' = stopped \cup {r}
  /\ UNCHANGED status

Release(r) == r \notin stopped /\ Move(r, "Scheduled", "Queued")

Cancel(r) == r \in stopped /\ \E from \in {"Scheduled", "Queued"} : Move(r, from, "Skipped")

HasRoom(j) ==
  \/ MaxParallelRuns[j] = 0
  \/ Cardinality({r \in JobRuns : JobOf[r] = j /\ status[r] = "Running"}) < MaxParallelRuns[j]

Start(r) == HasRoom(JobOf[r]) /\ Move(r, "Queued", "Running")

Settle(r) ==
  \E verdict \in FinishedJobRun \ {"Skipped", "Deleted"} :
    /\ verdict = "Aborted" => r \in stopped
    /\ Move(r, "Running", verdict)

Next ==
  \E r \in JobRuns :
    Submit(r) \/ Stop(r) \/ Release(r) \/ Cancel(r) \/ Start(r) \/ Settle(r)

Spec == Init /\ [][Next]_<<status, stopped>>

=============================================================================
