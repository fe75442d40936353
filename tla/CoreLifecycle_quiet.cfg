\* Init and start may fail; no reset is asked for once mac80211 closes the
\* interface.  A thread that follows a NULL dev dies with the mutex held, so
\* the system may stop.
SPECIFICATION FairSpec
CONSTANTS
  Faults = {"init", "irq"}
  ResetDuringStop = FALSE
  MaxCount = 3
INVARIANTS
  HandlersExact
  ClosedIsDown
  MacRunsWhenStarted
PROPERTIES
  StopCompletes
  InterruptsComeBack
CHECK_DEADLOCK FALSE
