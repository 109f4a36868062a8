SPECIFICATION Spec
CONSTANTS
  Jobs <- OtherJobs
  Operation <- OtherKinds
  Checks <- DockerChecks
  Check <- DockerCheck
  Routes <- OneRoute
  Policy <- OnePolicy
  Runs <- TwoRuns
  Invocations <- TwoStarted
  HistoryMax = 2
  NotifyManual = FALSE
  Nobody = nobody
  NoJob = noJob
  Faults <- NoFaults
INVARIANTS
  HealthyClears
CHECK_DEADLOCK FALSE
