\* One replica that keeps ticking: no turn provisions for ever, no superseded
\* sandbox survives, also when users delete the session under it.
SPECIFICATION FairSpec
CONSTANTS
  c1 = c1
  c2 = c2
  Completers <- MCOne
  MaxTurns = 2
  Verbs = {"steer", "delete"}
  LateReports = FALSE
  LateClears = FALSE
  PodLoss = FALSE
CHECK_DEADLOCK FALSE
PROPERTIES
  ProvisioningEnds
  SupersededReclaimed
