SPECIFICATION FairSpec
CONSTANTS
  r1 = r1  r2 = r2  r3 = r3
  etl = etl  nightly = nightly  gpu = gpu  db = db
  extract = extract  load = load  train = train
  report = report  index = index  audit = audit  backup = backup
  Jobs = {etl, nightly}
  Limits = {gpu, db}
  JobRuns = {r1, r2}
  TaskRuns = {extract}
  JobOf <- MCJobOf
  JobRunOf <- MCJobRunOf
  DependsOn <- MCDependsOn
  MaxRetries <- MCMaxRetries
  Claims <- MCClaims
  MaxParallelRuns <- MCMaxParallelRuns
  ConcurrencyLimits <- MCConcurrencyLimits
  MaxRunningAttempts = 0
  KillGrace = TRUE
  BootTimeKnown = TRUE
  Unspawnable = {}
  Deletable = {}
  Piecemeal = {}
  MaxRestarts = 1
  MaxErrors = 1
  AttemptBound = 3
PROPERTIES RunsSettle
CHECK_DEADLOCK FALSE
