SPECIFICATION Spec
CONSTANTS
  nightly = nightly  report = report
  Jobs = {nightly, report}
  NotifyOn <- MCNotifyOn
  MaxRuns = 5
  Horizon = 2
  ScheduleJobs = {nightly}
  Cron = {1, 2}
  StartDate = 0
  EndDate = 2
  Undeliverable = {"Failure"}
  JobOrder <- MCJobOrder
  Configs <- MCConfigs
  Verdicts = {"Succeeded", "Failed"}
  ChildJob = report
INVARIANTS
  TypeOK
  
  DeliveredOncePerFault
  PassKeepsToItsBudget
PROPERTIES
  
  ReapedRunsOweNothing
  
  NotificationsSettle
  DeletedOccurrencesReturn
  RetentionCatchesUp
CHECK_DEADLOCK FALSE
