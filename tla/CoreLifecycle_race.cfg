\* The device may ask for a reset while op_stop runs, and anything may fail.
SPECIFICATION Spec
CONSTANTS
  Faults = {"init", "irq"}
  ResetDuringStop = TRUE
  MaxCount = 2
INVARIANTS
  HandlersCover
CHECK_DEADLOCK FALSE
