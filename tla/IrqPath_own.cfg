SPECIFICATION FairSpec
CONSTANTS
  Events = {"TX_OK", "PHY_TXERR", "FATAL", "BEACON"}
  SharedLine = FALSE
  Limit = 2
INVARIANTS MaskedWhilePending StoppedIsSilent
PROPERTIES ReasonsKept EventsKept EventServed
