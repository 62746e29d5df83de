---------------------------- MODULE MCRunPipeline ----------------------------
(***************************************************************************)
(* Small databases for RunPipeline.  Runs r1 and r2 are of job etl, which   *)
(* has max_parallel_runs 1; r3 is of job nightly, which has no such limit.  *)
(* r1 is the chain extract, load.  A cfg takes the runs and the tasks its   *)
(* question needs, and the constants here cover all of them.                *)
(***************************************************************************)
EXTENDS RunPipeline, JobGraph

CONSTANTS r1, r2, r3, etl, nightly, gpu, db,
          extract, load, train, report, index, audit, backup

MCJobOf == [r \in JobRuns |-> IF r \in {r1, r2} THEN etl ELSE nightly]
MCMaxParallelRuns == [j \in Jobs |-> IF j = etl THEN 1 ELSE 0]

MCJobRunOf == [tr \in TaskRuns |->
  CASE tr \in {extract, load} -> r1
    [] tr = train -> r2
    [] OTHER -> r3]
MCDependsOn  == [tr \in TaskRuns |-> IF tr = load THEN {extract} ELSE {}]
MCMaxRetries == [tr \in TaskRuns |-> IF tr = extract THEN 1 ELSE 0]
MCClaims == [tr \in TaskRuns |->
  CASE tr \in {report, train} -> {gpu, db}
    [] tr \in {extract, index} -> {gpu}
    [] OTHER -> {}]
MCConcurrencyLimits == [l \in Limits |-> IF l = gpu THEN 1 ELSE 0]
-----------------------------------------------------------------------------
(* The graphs of tasks a job may declare, three tasks and a name that is   *)
(* none of theirs.                                                         *)
DeclaredTasks == <<extract, load, train>>
DeclaredGraphs ==
  {[tasks |-> DeclaredTasks, dependsOn |-> [t \in ToSet(DeclaredTasks) |-> SetToSeq(d[t])]] :
     d \in [ToSet(DeclaredTasks) -> SUBSET {extract, load, train, report}]}

\* The check of a job file accepts what TaskRunDispatcher can finish and nothing
\* else, and names a cycle where it says so; the graphs of this model are accepted.
ASSUME GraphsAreChecked ==
  /\ AcceptsWhatCanFinish(DeclaredGraphs)
  /\ ReportsACycle(DeclaredGraphs)
  /\ \A r \in JobRuns :
       ValidateJobTasks([tasks |-> SetToSeq(TasksOf(r)),
                         dependsOn |-> [t \in TaskRuns |-> SetToSeq(DependsOn[t])]])
=============================================================================
