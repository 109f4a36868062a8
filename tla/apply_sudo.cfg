CONSTANTS
  c1 = c1
  c2 = c2
  Controllers = {c1}
  RootSessions = {}
  Services = {1}
  Releases <- TwoReleases
  Configs <- ContentConfigs
  NoRelease = NoRelease
  Foreign = Foreign
  NoSecret = NoSecret
  NoPlacement = NoPlacement
  Nobody = Nobody
  NoScript = NoScript
  Faults = {}
SPECIFICATION Spec
INVARIANT ConvergenceIsReported
