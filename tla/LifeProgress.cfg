SPECIFICATION FairSpec
CONSTANTS
  r1 = r1
  MaxGen = 2
  Kinds <- MixedApps
  Triggers = {"source"}
  Reconcilers = {r1}
  Cancelers = {}
  Suspends = FALSE
  StaleSettings = FALSE
  Timeouts = FALSE
  Crashes = FALSE
PROPERTIES
  EveryDeployEnds
  RequestsAreAdopted
CHECK_DEADLOCK FALSE
