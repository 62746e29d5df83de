SPECIFICATION Spec
CONSTANTS
  r1 = r1  r2 = r2  r3 = r3
  etl = etl  nightly = nightly  gpu = gpu  db = db
  extract = extract  load = load  train = train
  report = report  index = index  audit = audit  backup = backup
  Jobs = {etl, nightly}
  Limits = {gpu, db}
  JobRuns = {r1, r2}
  TaskRuns = {extract, load, train}
  JobOf <- MCJobOf
  JobRunOf <- MCJobRunOf
  DependsOn <- MCDependsOn
  MaxRetries <- MCMaxRetries
  Claims <- MCClaims
  MaxParallelRuns <- MCMaxParallelRuns
  ConcurrencyLimits <- MCConcurrencyLimits
  MaxRunningAttempts = 2
  KillGrace = FALSE
  BootTimeKnown = FALSE
  Unspawnable = {load}
  Deletable = {r2}
  Piecemeal = {}
  MaxRestarts = 1
  MaxErrors = 1
  AttemptBound = 3
INVARIANTS
  TypeOK
  
  QuietWhenSettled
  ParallelRunsCap
  
PROPERTIES
  TaskRunsSettleForGood
  SettledJobRunsKeepTheirStatus
CHECK_DEADLOCK FALSE
