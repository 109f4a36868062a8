SPECIFICATION FairSpec
CONSTANTS
  Restores <- Two
  RootSessions <- One
  Services <- One
  Data <- DataOfOne
  Request <- RequestsOfOne
  Nobody = nobody
  Faults <- FaultsOfBoth
INVARIANTS
  TypeOK
  RestoredIsWhole
  LeftAsFound
PROPERTIES
  EmptyOnly
  RestoreEnds
CHECK_DEADLOCK FALSE
