----------------------------- MODULE MCChildRuns -----------------------------
(***************************************************************************)
(* Small families for ChildRuns: one root and as many runs below it as     *)
(* there are ids left, with a retry of the root's task, a user's stop, or  *)
(* a fault and a task that may time out.                                   *)
(***************************************************************************)
EXTENDS ChildRuns

Family(retries, slow, stop, fault) ==
  [maxRetries |-> [r \in JobRuns |-> IF r \in Roots THEN retries ELSE 0],
   slow |-> slow, stops |-> stop, faults |-> fault]

MCConfigs == {Family(1, {}, 0, 0), Family(0, {}, 1, 0), Family(0, Roots, 0, 1)}
=============================================================================
