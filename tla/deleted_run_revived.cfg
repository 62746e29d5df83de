SPECIFICATION Spec
CONSTANTS
  r1 = r1  r2 = r2  r3 = r3
  etl = etl  nightly = nightly  gpu = gpu  db = db
  extract = extract  load = load  train = train
  report = report  index = index  audit = audit  backup = backup
  Jobs = {etl, nightly}
  Limits = {gpu, db}
  JobRuns = {r1}
  TaskRuns = {extract}
  JobOf <- MCJobOf
  JobRunOf <- MCJobRunOf
  DependsOn <- MCDependsOn
  MaxRetries <- MCMaxRetries
  Claims <- MCClaims
  MaxParallelRuns <- MCMaxParallelRuns
  ConcurrencyLimits <- MCConcurrencyLimits
  MaxRunningAttempts = 0
  KillGrace = TRUE
  BootTimeKnown = TRUE
  Unspawnable = {}
  Deletable = {r1}
  Piecemeal = {}
  MaxRestarts = 0
  MaxErrors = 0
  AttemptBound = 3
PROPERTIES SettledRunsNeverChange
CHECK_DEADLOCK FALSE
