\* A tracer that was refused or unloaded, or ended in a fault, does no more.
SPECIFICATION Spec
CONSTANTS
  Builds <- MCBuilds
  FifoRecs = 2
  RecSize = 2
  Counters = 4
  Tasks = {t1, t2}
  MaxSites = 2
  Depth = 2
  MaxCalls = 2
INVARIANTS
  DetourSound
  ReturnsHome
  Accounted
  TextRestored
  StrayOnlyWhenLate
SYMMETRY Sym
CHECK_DEADLOCK FALSE
