----------------------------- MODULE MCServices -----------------------------
(***************************************************************************)
(* Small databases for Services: job nightly is scheduled, job report is   *)
(* what its task submits and tells of both endings.                        *)
(***************************************************************************)
EXTENDS Services

CONSTANTS nightly, report

MCNotifyOn == [j \in Jobs |-> IF j = report THEN Endings ELSE {}]
MCJobOrder == <<nightly, report>>
Server(until, ahead, keep, total, max, faulty, often, what) ==
  [until |-> until, submitAhead |-> ahead,
   keepRuns |-> [j \in Jobs |-> IF j = nightly THEN keep ELSE 0],
   keepRunsTotal |-> total, maxDeletes |-> max, faults |-> faulty,
   requests |-> often, asks |-> what]
Anything == {"submit", "stop", "delete", "rerun", "child"}

\* The scheduler alone, two occurrences ahead, with a fault.
Scheduling == Server(2, 2, 0, 0, 0, 1, 2, {"stop", "delete"})
\* Both retention rules with one delete a pass, and runs with children.
Retaining == Server(0, 0, 1, 1, 1, 0, 3, {"submit", "child"})
\* Runs that report how they end, reruns that race retention, and a fault.
Reporting == Server(0, 0, 0, 1, 0, 1, 3, {"submit", "stop", "rerun"})
\* Everything at once, with a fault and one request.
Together == Server(2, 1, 1, 0, 0, 1, 1, Anything)

MCConfigs == {Scheduling, Retaining, Reporting, Together}
\* What the documentation's sentence is asked of.
MCCancelConfigs == {Server(2, 2, 1, 0, 0, 0, 1, {"stop"})}
=============================================================================
