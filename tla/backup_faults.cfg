SPECIFICATION FairSpec
CONSTANTS
  Backups <- Four
  Earlier <- FirstTwo
  Scheduled <- LastThree
  KeepLast = 1
  Services <- TwoServices
  Data <- DataOfTwo
  Request <- Requests
  StopServices <- One
  Nobody = nobody
  NoScript = noScript
  Nothing = nothing
  Torn = torn
  MaxVersion = 1
  Faults = {"capture", "disk", "script", "session", "timeout", "crash"}
INVARIANTS
  TypeOK
  ListedIsComplete
  StopIsConsistent
  LeftAsFound
PROPERTIES
  ImplementsStore
  BackupEnds
CHECK_DEADLOCK FALSE
