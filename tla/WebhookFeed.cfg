SPECIFICATION Spec
CONSTANTS
  d1 = d1
  d2 = d2
  Events = {1, 2}
  Dispatchers <- MCDispatchers
  Lag = 1
  LateAllowance = 1
  Park = 0
  Limit = 1
  MaxOpen = 1
  Platform = {TRUE, FALSE}
  MaxTime = 2
  MaxToggles = 3
SYMMETRY Symmetry
INVARIANTS
  NoEventLost
  OnlyEligibleQueued
CHECK_DEADLOCK FALSE
