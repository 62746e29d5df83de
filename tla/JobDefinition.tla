----------------------------- MODULE JobDefinition -----------------------------
(***************************************************************************)
(* From the declarations of a job file to the environment of one attempt:   *)
(* what the file may declare, what a run's rows keep of it, which secrets a *)
(* server must hold, and the variables a command is started with.           *)
(*                                                                         *)
(* A name (of a parameter, of a task) is [word, upper, hyphen]: names that  *)
(* differ in case, or in a hyphen for an underscore, share a word.  A       *)
(* variable is [space, name]: "own" is any name outside FLOWLITE_, "param"  *)
(* and "input" are FLOWLITE_PARAM_ and FLOWLITE_INPUT_, "run" the others.   *)
(* A declaration, of a job or of a task, is [env, secretEnv, limits]: maps  *)
(* of variables to values and to the names of secrets, and a set of limits. *)
(***************************************************************************)
EXTENDS Naturals, SequencesExt

Lookup(f, S) == Restrict(f, S \cap DOMAIN f)
Drop(f, S) == Restrict(f, DOMAIN f \ S)
ReservedPrefix(variable) == variable.space # "own"

-----------------------------------------------------------------------------
(* What a job file may declare.                                            *)

\* A hyphen stays what it is in the name of a parameter, which may have none.
ParameterEnvName(name) == [space |-> "param", name |-> <<name.word, name.hyphen>>]
TaskInputEnvName(task) == [space |-> "input", name |-> task.word]

IsValidParameterName(name) == ~name.hyphen

\* seen_input_names: ids the same but for case or a hyphen are refused.
ValidateTaskIds(tasks) == IsInjective([i \in DOMAIN tasks |-> TaskInputEnvName(tasks[i])])

ValidateEnvNames(declaration) == \A v \in DOMAIN declaration.env : ~ReservedPrefix(v)

\* One level at a time: a task may declare as a secret what its job does not.
ValidateSecretEnvBlock(declaration) ==
  \A v \in DOMAIN declaration.secretEnv :
    ~ReservedPrefix(v) /\ v \notin DOMAIN declaration.env

ValidateDeclaration(declaration) ==
  ValidateSecretEnvBlock(declaration) /\ ValidateEnvNames(declaration)

ValidateJobLimits(declarations, concurrencyLimits) ==
  \A d \in declarations : d.limits \subseteq concurrencyLimits

-----------------------------------------------------------------------------
(* What the rows of a run keep.                                            *)

MergeJobAndTaskMaps(jobMap, taskMap) == taskMap @@ jobMap
UnionJobAndTaskLimits(jobLimits, taskLimits) == jobLimits \cup taskLimits

JobRunTaskDefinition(task, job) ==
  [env |-> Drop(MergeJobAndTaskMaps(job.env, task.env), DOMAIN task.secretEnv),
   secretEnv |-> Drop(MergeJobAndTaskMaps(job.secretEnv, task.secretEnv), DOMAIN task.env),
   limits |-> UnionJobAndTaskLimits(job.limits, task.limits)]

\* resolve_job_parameters refuses, or the defaults with the overrides over them.
ResolvesJobParameters(declared, overrides) ==
  /\ DOMAIN overrides \subseteq DOMAIN declared
  /\ \A name \in DOMAIN declared : IsValidParameterName(name)
  /\ IsInjective([name \in DOMAIN declared |-> ParameterEnvName(name)])
ResolveJobParameters(declared, overrides) == overrides @@ declared

\* The check of serve's startup, over the declarations and not over what is left of
\* them after the merge.
CheckSecretEnvIsSatisfied(declarations, secrets) ==
  \A d \in declarations : Range(d.secretEnv) \subseteq DOMAIN secrets

-----------------------------------------------------------------------------
(* What a command is started with.  An attempt is [task, attempt, status,   *)
(* output]; the path of a file is its kind, its task and its attempt.       *)

TaskOutputPath(task, attempt) == <<"output", task, attempt>>
TaskLogPath(task, attempt) == <<"log", task, attempt>>

\* Of the attempts of a run in the order of the select, those that succeeded and
\* left something.
SelectTaskRunOutputs(attempts) ==
  FoldLeft(LAMBDA outputs, a :
             IF a.status = "succeeded" /\ a.output THEN a.task :> a.attempt @@ outputs
             ELSE outputs,
           <<>>, attempts)

GetInputs(dependsOn, attempts) ==
  LET outputs == Lookup(SelectTaskRunOutputs(attempts), dependsOn)
  IN  [t \in DOMAIN outputs |-> TaskOutputPath(t, outputs[t])]

RunVariable(name) == [space |-> "run", name |-> name]

\* write_previous_attempt_files, by the variables it leads to: a log for every retry,
\* an output if that file exists.
PreviousAttemptEnv(task, attempt, files) ==
  IF attempt < 2 THEN <<>>
  ELSE RunVariable("PREVIOUS_ATTEMPT_LOG") :> TaskLogPath(task, attempt - 1)
       @@ IF TaskOutputPath(task, attempt - 1) \notin files THEN <<>>
          ELSE RunVariable("PREVIOUS_ATTEMPT_OUTPUT") :> TaskOutputPath(task, attempt - 1)

\* The variables that say which attempt this is, of what and when due: one stands for
\* them.
RunMetadataEnv(task, attempt) ==
  RunVariable("TASK_RUN_ATTEMPT_ID") :> <<"attempt", task, attempt>>
  @@ RunVariable("TASK_OUTPUT") :> TaskOutputPath(task, attempt)

\* Keyed by the names the variables get, which the checks above keep apart.
Renamed(f, envName) ==
  [v \in Range(envName) |-> f[CHOOSE n \in DOMAIN f : envName[n] = v]]

BuildsTaskRunAttemptEnv(row, secrets) == Range(row.secretEnv) \subseteq DOMAIN secrets
BuildTaskRunAttemptEnv(row, parameters, task, attempt, inputs, files, secrets) ==
  LET secretValues == [v \in DOMAIN row.secretEnv |-> secrets[row.secretEnv[v]]]
      declared == secretValues @@ row.env
  IN  PreviousAttemptEnv(task, attempt, files)
      @@ Renamed(inputs, [t \in DOMAIN inputs |-> TaskInputEnvName(t)])
      @@ RunMetadataEnv(task, attempt)
      @@ Renamed(parameters, [n \in DOMAIN parameters |-> ParameterEnvName(n)])
      @@ Drop(declared, {v \in DOMAIN declared : ReservedPrefix(v)})

\* The command's environment: the server's own under that of the attempt, without what
\* the server was given under FLOWLITE_.
CommandEnv(server, env) == env @@ Drop(server, {v \in DOMAIN server : ReservedPrefix(v)})

-----------------------------------------------------------------------------
(* What they are for.                                                      *)

\* Of two declarations each accepted by itself, a run's row keeps every name in one of
\* the two blocks: the task's where the task declares it, the job's where it does not.
TaskDeclarationWins(declarations) ==
  \A job, task \in declarations :
    LET row == JobRunTaskDefinition(task, job)
        by(v) == IF v \in DOMAIN task.env \cup DOMAIN task.secretEnv THEN task ELSE job
    IN  ValidateDeclaration(job) /\ ValidateDeclaration(task) =>
          /\ DOMAIN row.env \cap DOMAIN row.secretEnv = {}
          /\ \A block \in {"env", "secretEnv"} :
               LET declaredIn(d) == DOMAIN d[block]
               IN  /\ DOMAIN row[block] =
                        {v \in declaredIn(task) \cup declaredIn(job) : v \in declaredIn(by(v))}
                   /\ \A v \in DOMAIN row[block] : row[block][v] = by(v)[block][v]

\* A server that starts can build the environment of every attempt of a run made of the
\* declarations it read; no reference appears in the row that it did not check.
ServedRunsHaveTheirSecrets(declarations, secretMaps) ==
  \A job, task \in declarations, secrets \in secretMaps :
    CheckSecretEnvIsSatisfied({job, task}, secrets) =>
      BuildsTaskRunAttemptEnv(JobRunTaskDefinition(task, job), secrets)

\* Of a job whose limits were found to be configured, a row claims those its job or
\* its task names, and only configured ones: no claim the dispatcher would not count.
ClaimsAreConfigured(declarations, concurrencyLimits) ==
  \A job, task \in declarations :
    ValidateJobLimits({job, task}, concurrencyLimits) =>
      LET claims == JobRunTaskDefinition(task, job).limits
      IN  /\ claims \subseteq concurrencyLimits
          /\ \A limit \in concurrencyLimits :
               limit \in claims <=> limit \in job.limits \/ limit \in task.limits

\* A command finds, under FLOWLITE_, each parameter of its run, the result of each
\* dependency that succeeded and left one, its own attempt's files and nothing else: not
\* what an older row or the server's environment has there.  It does not read what it is
\* to write, and a retry does not write where the attempt before it did.
EnvironmentIsWhole(rows, parameterMaps, jobs, servers, secrets) ==
  \A row \in rows, declared \in parameterMaps, job \in jobs, server \in servers :
    ResolvesJobParameters(declared, <<>>) /\ ValidateTaskIds(job.tasks) =>
      LET inputs == GetInputs(job.dependsOn, job.attempts)
          env == CommandEnv(server, BuildTaskRunAttemptEnv(row, declared, job.task, job.attempt,
                                                           inputs, job.files, secrets))
          left == {t \in job.dependsOn : \E i \in DOMAIN job.attempts :
                     /\ job.attempts[i].task = t /\ job.attempts[i].output
                     /\ job.attempts[i].status = "succeeded"}
          own == RunVariable("TASK_OUTPUT")
          ownFiles == RunMetadataEnv(job.task, job.attempt)
      IN  /\ \A p \in DOMAIN declared : env[ParameterEnvName(p)] = declared[p]
          /\ \A t \in left : \E i \in DOMAIN job.attempts :
               /\ job.attempts[i].task = t /\ job.attempts[i].status = "succeeded"
               /\ env[TaskInputEnvName(t)] = TaskOutputPath(t, job.attempts[i].attempt)
          /\ {v \in DOMAIN env : v.space = "input"} = {TaskInputEnvName(t) : t \in left}
          /\ {v \in DOMAIN env : v.space = "param"} = {ParameterEnvName(p) : p \in DOMAIN declared}
          /\ \A v \in DOMAIN ownFiles : env[v] = ownFiles[v]
          /\ \A v \in DOMAIN env : v # own => env[v] # env[own]
          /\ LET before == {env[v] : v \in {u \in DOMAIN env \ DOMAIN ownFiles : u.space = "run"}}
             IN  before = {TaskLogPath(job.task, n) : n \in {job.attempt - 1} \ {0}}
                          \cup ({TaskOutputPath(job.task, job.attempt - 1)} \cap job.files)

=============================================================================
