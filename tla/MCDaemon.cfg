SPECIFICATION Spec
CONSTANTS
  Callers = {a, b}
  Pids = {p1, p2, p3}
  MaxCalls = 5
  MaxDeaths = 2
SYMMETRY Symmetry
CHECK_DEADLOCK FALSE
INVARIANTS
  TypeOK
  NoOrphan
PROPERTIES
  StartTruthful
  StopStops
