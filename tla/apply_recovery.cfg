CONSTANTS
  c1 = c1
  c2 = c2
  Controllers = {c1}
  RootSessions = {c1}
  Services = {1}
  Releases <- DataReleases
  Configs <- DataConfigs
  NoRelease = NoRelease
  Foreign = Foreign
  NoSecret = NoSecret
  NoPlacement = NoPlacement
  Nobody = Nobody
  NoScript = NoScript
  Faults = {"session", "timeout", "crash", "script", "probe", "container"}
SPECIFICATION Spec
INVARIANT InterruptedDeployResumes
PROPERTY PlacementGuarded
