\* Two processes, either of which may hold either of two signing secrets, and two
\* deliveries at once of a push that fans out to two scopes and of a deletion.
SPECIFICATION Spec
CONSTANTS
  i1 = i1
  i2 = i2
  r1 = r1
  r2 = r2
  Instances = {i1, i2}
  Epochs = {1, 2}
  Requests = {r1, r2}
  Bodies = {"p", "d"}
  Deletions = {"d"}
  Fanout <- MCFanout
  Cap = 1
SYMMETRY Symmetry
\* Nothing runs once both processes are gone.
CHECK_DEADLOCK FALSE
INVARIANTS
  ActedOnce
  CapKept
  RetiredIsFinal
  ClaimsAreWork
