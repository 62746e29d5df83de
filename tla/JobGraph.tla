------------------------------- MODULE JobGraph -------------------------------
(***************************************************************************)
(* What a job file must satisfy to become rows: the tasks, and what each    *)
(* depends on, form a graph the orchestrator can finish.  The cycle check   *)
(* is the code's depth-first walk, against what it is for.                  *)
(*                                                                         *)
(* A job is [tasks, dependsOn]: the ids of its tasks in the order of the    *)
(* file, and for each id the ids it names, in order too.                    *)
(***************************************************************************)
EXTENDS Naturals, SequencesExt

NoCycle == <<>>

RECURSIVE WalkTaskDependencies(_, _, _, _)

\* The loop over a list of tasks, of the job or of one task's depends_on: the first
\* cycle met, and the tasks found free of cycles.
RECURSIVE WalkInOrder(_, _, _, _)
WalkInOrder(job, tasks, path, acyclic) ==
  IF tasks = <<>> THEN [cycle |-> NoCycle, acyclic |-> acyclic]
  ELSE LET first == WalkTaskDependencies(job, Head(tasks), path, acyclic)
       IN  IF first.cycle # NoCycle THEN first
           ELSE WalkInOrder(job, Tail(tasks), path, first.acyclic)

\* walk_task_dependencies: a cycle as soon as the path leads back to a task on it.
WalkTaskDependencies(job, t, path, acyclic) ==
  IF Contains(path, t)
  THEN [cycle |-> SubSeq(path, SelectInSeq(path, LAMBDA x : x = t), Len(path)) \o <<t>>,
        acyclic |-> acyclic]
  ELSE IF t \in acyclic THEN [cycle |-> NoCycle, acyclic |-> acyclic]
  ELSE LET below == WalkInOrder(job, job.dependsOn[t], Append(path, t), acyclic)
       IN  IF below.cycle # NoCycle THEN below
           ELSE [below EXCEPT !.acyclic = @ \cup {t}]

FindTaskDependencyCycle(job) == WalkInOrder(job, job.tasks, <<>>, {}).cycle

\* validate_job_tasks, up to the cycle check, and with it.
NamesItsOwnTasks(job) ==
  /\ IsInjective(job.tasks)
  /\ \A t \in ToSet(job.tasks) :
       ToSet(job.dependsOn[t]) \subseteq ToSet(job.tasks) \ {t}

ValidateJobTasks(job) == NamesItsOwnTasks(job) /\ FindTaskDependencyCycle(job) = NoCycle

-----------------------------------------------------------------------------
(* What the check is for.                                                  *)

\* The tasks TaskRunDispatcher has started after so many rounds, if every one of
\* them succeeds.
StartedWithin(job, rounds) ==
  LET started[n \in 0..rounds] ==
        IF n = 0 THEN {}
        ELSE {t \in ToSet(job.tasks) : ToSet(job.dependsOn[t]) \subseteq started[n - 1]}
  IN  started[rounds]

\* Every task of the job starts in the end: "a dependency on a task that isn't part
\* of the job, or a cycle between tasks, would leave the task runs queued".
CanFinish(job) == StartedWithin(job, Len(job.tasks)) = ToSet(job.tasks)

\* validate_job_tasks accepts, of the jobs that declare each task once, those that
\* can finish and no others.
AcceptsWhatCanFinish(jobs) ==
  \A job \in jobs : IsInjective(job.tasks) => (ValidateJobTasks(job) <=> CanFinish(job))

\* What the error names is a cycle: each task depends on the next, and the last is
\* the first.
ReportsACycle(jobs) ==
  \A job \in jobs :
    NamesItsOwnTasks(job) /\ FindTaskDependencyCycle(job) # NoCycle =>
      LET cycle == FindTaskDependencyCycle(job)
      IN  /\ Len(cycle) > 1 /\ cycle[1] = Last(cycle)
          /\ \A i \in 1..(Len(cycle) - 1) : Contains(job.dependsOn[cycle[i]], cycle[i + 1])

=============================================================================
