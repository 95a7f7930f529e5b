SPECIFICATION Spec
CONSTANTS
  r1 = r1
  r2 = r2
  MaxGen = 3
  Kinds <- ImageApps
  Triggers = {"source", "config", "selected"}
  Reconcilers = {r1, r2}
  Cancelers = {}
  Suspends = TRUE
  StaleSettings = TRUE
  Timeouts = TRUE
  Crashes = TRUE
CONSTRAINT ReplicaBounds
SYMMETRY Symmetry
PROPERTIES
  StoreSpec
  
CHECK_DEADLOCK FALSE
