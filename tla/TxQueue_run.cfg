\* Two queues over two-slot rings, restarts that may fail, one bad frame.
\* A frame for a device given up kills its sender, so the system may stop.
SPECIFICATION TxFairSpec
CONSTANTS
  Last = 1
  Slots = 2
  Backlog = 2
  MaxBad = 1
INVARIANTS
  FreshDataFlows
PROPERTIES
  QueueMoves
  QueueWakes
CHECK_DEADLOCK FALSE
