SPECIFICATION Spec
CONSTANTS
  d1 = d1
  d2 = d2
  d3 = d3
  Deploys = {d1, d2, d3}
  Triggers = {"source"}
  Generations <- MCGenerations
SYMMETRY Symmetry
INVARIANTS
  OneActiveOnePending
  PendingIsNewest
  
  ClosedRowSettled
PROPERTIES
  TerminalIsFinal
CHECK_DEADLOCK FALSE
