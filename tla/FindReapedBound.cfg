\* The retried teardown of a predecessor terminates the sandbox just bound.
SPECIFICATION Spec
CONSTANTS
  c1 = c1
  c2 = c2
  Completers <- MCOne
  MaxTurns = 2
  Verbs = {"steer"}
  LateReports = FALSE
  LateClears = FALSE
  PodLoss = FALSE
CHECK_DEADLOCK FALSE
PROPERTIES
  CleanupSparesBound
