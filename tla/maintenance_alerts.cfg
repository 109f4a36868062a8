SPECIFICATION FairSpec
CONSTANTS
  Jobs <- JobNames
  Operation <- Kinds
  Checks <- CheckNames
  Check <- ServiceCheck
  Routes <- TwoRoutes
  Policy <- TwoPolicies
  Runs <- ThreeRuns
  Invocations <- Started
  HistoryMax = 2
  NotifyManual = FALSE
  Nobody = nobody
  NoJob = noJob
  Faults <- FirstFaults
INVARIANTS
  TypeOK
  HistoryKeepsNewest
  AlertIsCurrent
  ToldOnce
  RecoveryWasTold
PROPERTIES
  RunEnds
CHECK_DEADLOCK FALSE
