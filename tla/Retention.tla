------------------------------ MODULE Retention ------------------------------
(***************************************************************************)
(* The retention service: a pass picks settled runs past keep_runs of      *)
(* their job and past keep_runs_total, then takes each with its            *)
(* descendants.  The look at the descendants and the transaction that      *)
(* deletes them are separate.                                              *)
(***************************************************************************)
EXTENDS JobRunTable, Sequences

CONSTANT JobOrder  \* the jobs as select_job_run_job_ids lists them

ASSUME RetentionAssumption == JobOrder \in Seq(Jobs)

VARIABLES
  reaping,  \* the runs this pass selected and has yet to handle
  family    \* the run whose descendants it has looked at, and those it saw

retaining == <<reaping, family>>

RetentionTypeOK ==
  /\ reaping \subseteq JobRuns
  /\ family \in [root : {None} \cup JobRuns, seen : SUBSET JobRuns]

NoFamily == [root |-> None, seen |-> {}]
RetentionInit == reaping = {} /\ family = NoFamily

-----------------------------------------------------------------------------
Smallest(s, k) == {r \in s : Cardinality({x \in s : x < r}) < k}   \* ORDER BY id LIMIT k
Minus(a, b)    == IF a > b THEN a - b ELSE 0                       \* saturating_sub

Owing == {r \in JobRuns : \E e \in Endings : notification[<<r, e>>] = "Pending"}

\* Mutation: one of the runs to keep goes with those past them.
PastKeepRunsByOne(j, keep, limit) ==
  LET matched == Finished \cap RunsOf(j)
      past    == Minus(Cardinality(matched) + 1, keep)
  IN  Smallest(matched, IF past < limit THEN past ELSE limit) \ Owing

\* select_deletable_job_runs, NewestFirst: the oldest matched - keep of a job's
\* finished runs, at most limit of them; one that owes is dropped, not replaced.
PastKeepRuns(j, keep, limit) ==
  LET matched == Finished \cap RunsOf(j)
      past    == Minus(Cardinality(matched), keep)
  IN  Smallest(matched, IF past < limit THEN past ELSE limit) \ Owing

\* Mutation: an exhausted budget reads as the 0 that means no cap.
BudgetWrapsToUnlimited(selected) ==
  IF Minus(config.maxDeletes, selected) = 0 THEN MaxRuns
  ELSE Minus(config.maxDeletes, selected)

\* Mutation: the last delete of the budget is never spent.
BudgetShortByOne(selected) ==
  IF config.maxDeletes = 0 THEN MaxRuns ELSE Minus(config.maxDeletes, selected + 1)

\* remaining_budget: a max_deletes_per_pass of 0 is no cap, and MaxRuns is past any.
RemainingBudget(selected) ==
  IF config.maxDeletes = 0 THEN MaxRuns ELSE Minus(config.maxDeletes, selected)

\* select_per_job_candidates, what the first n jobs of the list give: each spends
\* the budget the jobs before it left.
PerJobCandidates[n \in 0..Len(JobOrder)] ==
  IF n = 0 THEN {}
  ELSE LET before == PerJobCandidates[n - 1]
           keep   == config.keepRuns[JobOrder[n]]
       IN  before \cup
           IF keep = 0 THEN {}
           ELSE PastKeepRuns(JobOrder[n], keep, RemainingBudget(Cardinality(before)))

\* Mutation: the global rule takes runs that still owe a notification.
OverflowWithOwing(selected) ==
  LET overflow  == Minus(Cardinality(Finished), config.keepRunsTotal)
      remaining == RemainingBudget(Cardinality(selected))
  IN  IF config.keepRunsTotal = 0 THEN {}
      ELSE Smallest(Finished, IF overflow < remaining THEN overflow ELSE remaining) \ selected

\* select_global_overflow_candidates: the oldest finished runs past keep_runs_total,
\* which the runs the per-job rule already took do not reduce.
OverflowCandidates(selected) ==
  LET overflow  == Minus(Cardinality(Finished), config.keepRunsTotal)
      remaining == RemainingBudget(Cardinality(selected))
  IN  IF config.keepRunsTotal = 0 THEN {}
      ELSE Smallest(Finished, IF overflow < remaining THEN overflow ELSE remaining)
             \ (Owing \cup selected)

\* select: both rules, in one pass over what is there now.
StartReaping ==
  LET perJob == PerJobCandidates[Len(JobOrder)]
  IN  /\ reaping = {} /\ family = NoFamily
      /\ reaping' = perJob \cup OverflowCandidates(perJob)
      /\ reaping' # {}
      /\ UNCHANGED <<table, setting, family>>

\* Mutation: the descendants are taken whatever they are doing.
LookAtNothing(r) ==
  /\ r \in reaping /\ family = NoFamily
  /\ reaping' = reaping \ {r}
  /\ family' = [root |-> r, seen |-> Descendants(r)]
  /\ UNCHANGED <<table, setting>>

\* handle, the look: a run with a descendant still going waits for a later pass.
LookAtDescendants(r) ==
  /\ r \in reaping /\ family = NoFamily
  /\ reaping' = reaping \ {r}
  /\ family' = IF \E d \in Descendants(r) : ~IsFinished(d) THEN NoFamily
               ELSE [root |-> r, seen |-> Descendants(r)]
  /\ UNCHANGED <<table, setting>>

\* handle, the delete: the transaction finds the descendants again and asks
\* nothing of them.
Reap ==
  /\ family # NoFamily
  /\ family' = NoFamily
  /\ DeleteJobRunsWithChildren(family.root)
  /\ UNCHANGED <<setting, reaping>>

RetentionNext == StartReaping \/ Reap \/ \E r \in JobRuns : LookAtDescendants(r)

=============================================================================
