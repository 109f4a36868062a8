SPECIFICATION Spec
CONSTANTS
  v1 = v1
  v2 = v2
  Backends <- EveryBackend
  Jobs <- TwoJobs
  OldJobs <- OneOldJob
  Versions <- TwoVersions
  Offers <- OffersOfTwo
  Faults <- EveryFault
INVARIANTS
  TimersTypeOK
  SuccessIsScheduled
  CurrentIsScheduled
PROPERTIES
  UntroubledSucceeds
  ForeignTimersKept
