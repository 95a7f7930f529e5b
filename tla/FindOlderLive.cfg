\* A row inserted late is recorded live over a newer deploy that serves.
SPECIFICATION Spec
CONSTANTS
  r1 = r1
  r2 = r2
  MaxGen = 3
  Kinds <- ImageApps
  Triggers = {"source", "config"}
  Reconcilers = {r1, r2}
  Cancelers = {}
  Suspends = FALSE
  StaleSettings = FALSE
  Timeouts = FALSE
  Crashes = FALSE
CONSTRAINT SettledOnly
INVARIANTS
  LiveIsNewestServed
CHECK_DEADLOCK FALSE
