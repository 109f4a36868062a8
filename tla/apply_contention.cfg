CONSTANTS
  c1 = c1
  c2 = c2
  Controllers = {c1, c2}
  RootSessions = {c1, c2}
  Services = {1}
  Releases <- TwoReleases
  Configs <- ContentConfigs
  NoRelease = NoRelease
  Foreign = Foreign
  NoSecret = NoSecret
  NoPlacement = NoPlacement
  Nobody = Nobody
  NoScript = NoScript
  Faults = {"script", "edit"}
SYMMETRY MCSymmetry
SPECIFICATION Spec
INVARIANTS TypeOK SuccessIsVerified AppliedIsReviewed ConvergedAtSuccess
PROPERTIES ImplementsLease DeployReplacesObserved ForeignKept
