------------------------------ MODULE MCServing ------------------------------
(***************************************************************************)
(* Two servers in turn or at once, a status call, the two pollers that have *)
(* commands in hand and the scheduler's, which no signal wakes; and what a  *)
(* server checks of the declarations it starts with.                        *)
(***************************************************************************)
EXTENDS Serving, JobDefinition

\* Every declaration over two variables, a plain value or one of two secrets for each,
\* valid by itself or not.
Own == {[space |-> "own", name |-> n] : n \in {"HOST", "PASSWORD"}}
Maps(S, T) == UNION {[D -> T] : D \in SUBSET S}
Declarations ==
  [env : Maps(Own, {<<"value", "job">>, <<"value", "task">>}),
   secretEnv : Maps(Own, {"db", "mail"}), limits : {{}}]
Claims == [env : {<<>>}, secretEnv : {<<>>}, limits : SUBSET {"warehouse", "api", "typo"}]
SecretMaps == Maps({"db", "mail"}, {<<"secret", "s">>})

\* A row with a name of its own, and one an older file left under FLOWLITE_; a server
\* started with names under it too.
Name(word, upper, hyphen) == [word |-> word, upper |-> upper, hyphen |-> hyphen]
Forged ==
  [v \in {RunVariable("TASK_OUTPUT"), RunVariable("PREVIOUS_ATTEMPT_OUTPUT"),
          RunVariable("SMTP__PASSWORD"), ParameterEnvName(Name("region", TRUE, FALSE)),
          TaskInputEnvName(Name("extract", FALSE, FALSE))} |-> <<"value", "forged">>]
EmptyRow == [env |-> <<>>, secretEnv |-> <<>>, limits |-> {}]
Rows ==
  {EmptyRow, [EmptyRow EXCEPT !.env = Forged],
   [EmptyRow EXCEPT !.secretEnv = [v \in DOMAIN Forged |-> "db"]]}

Parameters ==
  Maps({Name("region", TRUE, FALSE), Name("region", FALSE, FALSE), Name("day", FALSE, TRUE),
        Name("day", FALSE, FALSE)}, {<<"value", "p">>, <<"value", "q">>})

\* The third task is on its second attempt; what the others and the run's files are
\* depends on who succeeded and who left a result.
Tasks == <<Name("extract", FALSE, FALSE), Name("load_raw", FALSE, FALSE), Name("train", FALSE, FALSE)>>
Renames == {Tasks, [Tasks EXCEPT ![2] = Name("extract", TRUE, FALSE)]}
Ended(task, attempt, status, output) ==
  [task |-> task, attempt |-> attempt, status |-> status, output |-> output]
Jobs ==
  {[tasks |-> ts, dependsOn |-> {ts[i] : i \in named}, task |-> ts[3], attempt |-> n,
    attempts |-> <<Ended(ts[1], 1, "failed", left), Ended(ts[1], 2, first, TRUE),
                   Ended(ts[2], 1, "succeeded", left), Ended(ts[3], 1, "failed", left)>>,
    files |-> {TaskOutputPath(ts[1], 2)} \cup IF left THEN {TaskOutputPath(ts[3], 1)} ELSE {}] :
     ts \in Renames, named \in SUBSET {1, 2}, n \in 1..2, first \in {"succeeded", "failed"},
     left \in BOOLEAN}

\* The rows of a run keep what its declarations mean, a server that starts has the
\* secrets its runs need, and a command is started with what is its own.
ASSUME EnvironmentsAreWhole ==
  /\ TaskDeclarationWins(Declarations)
  /\ ServedRunsHaveTheirSecrets(Declarations, SecretMaps)
  /\ ClaimsAreConfigured(Claims, {"warehouse", "api"})
  /\ EnvironmentIsWhole(Rows, Parameters, Jobs, {<<>>, Forged}, "db" :> <<"secret", "s">>)
=============================================================================
