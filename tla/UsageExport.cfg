SPECIFICATION Spec
CONSTANTS
  e1 = e1
  e2 = e2
  s1 = s1
  Emitters = {e1, e2}
  Settlers = {s1}
  SealHours = 2
  DedupHours = 1
  MaxHour = 4
  MaxUnits = 2
\* The last hour ends.
CHECK_DEADLOCK FALSE
INVARIANTS
  HeldByItsIssue
  
  BilledInFull
  SettleLeavesNothing
