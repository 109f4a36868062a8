\* Every module on every platform, from every host: one interruption may follow another, the operator interferes.
CONSTANTS
  Platforms <- EveryPlatform
  Features <- EveryFeature
  MaxEdits = 2
  MaxFaults = 2
  MaxRuns = 3
SPECIFICATION Spec
\* The system stops when MaxRuns applies have ended.
CHECK_DEADLOCK FALSE
INVARIANTS
  HostTypeOK
  PlannedIsAppliable
  SuccessIsReady
  OwnTraceNeverBlocks
  DependenciesVerified
PROPERTIES
  NothingForeignIsHarmed
