\* Two replicas, every verb but Delete: what binding, abandoning, finalizing and
\* tearing down may never do.  A turn is accepted when no Completer holds a
\* report of the turn before (LateReports).
SPECIFICATION Spec
CONSTANTS
  c1 = c1
  c2 = c2
  Completers <- MCTwo
  MaxTurns = 2
  Verbs = {"steer", "cancel", "resume"}
  LateReports = FALSE
  LateClears = TRUE
  PodLoss = TRUE
SYMMETRY Symmetry
\* The last turn has nothing left to do.
CHECK_DEADLOCK FALSE
INVARIANTS
  BoundIntentIsTombstone
  AbandonedIsNeverBound
PROPERTIES
  
  HandleKept
