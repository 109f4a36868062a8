CONSTANTS
  c1 = c1
  c2 = c2
  Controllers = {c1, c2}
  RootSessions = {c1}
  Services = {1}
  Releases <- OneRelease
  Configs <- StartConfigs
  NoRelease = NoRelease
  Foreign = Foreign
  NoSecret = NoSecret
  NoPlacement = NoPlacement
  Nobody = Nobody
  NoScript = NoScript
  Faults = {"session", "timeout", "crash", "probe", "container"}
SPECIFICATION FairSpec
INVARIANTS LeaseHeld
PROPERTIES LockIsFreed ApplyEnds
