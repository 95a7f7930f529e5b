\* Users trigger, change, scale, suspend and cancel under one replica.
SPECIFICATION Spec
CONSTANTS
  r1 = r1
  MaxGen = 3
  Kinds <- CoreApps
  Triggers = {"source", "config", "selected"}
  Reconcilers = {r1}
  Cancelers = {"c"}
  Suspends = TRUE
  StaleSettings = FALSE
  Timeouts = FALSE
  Crashes = FALSE
CONSTRAINT CoreBounds
INVARIANTS
  LiveWasServed
  
  
PROPERTIES
  
  
  ServesForward
  
  CancelEndsOneDeploy
CHECK_DEADLOCK FALSE
