CONSTANTS
  Requests = {r1, r2}
  None = None
  MaxContainers = 4
SYMMETRY Symmetry
SPECIFICATION Spec
INVARIANTS CountsOngoing ServiceAsTold
PROPERTY NothingCut
CHECK_DEADLOCK FALSE
