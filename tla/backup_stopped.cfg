SPECIFICATION Spec
CONSTANTS
  Backups <- One
  Earlier = {}
  Scheduled = {}
  KeepLast = 1
  Services <- One
  Data <- DataOfOne
  Request <- RequestOne
  StopServices <- One
  Nobody = nobody
  NoScript = noScript
  Nothing = nothing
  Torn = torn
  MaxVersion = 1
  Faults = {}
INVARIANTS
  StoppedStaysStopped
CHECK_DEADLOCK FALSE
