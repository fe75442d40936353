\* The driver may be absent or its core unusable, and a spoiled ROM may be read
\* past its end: the system may stop.
SPECIFICATION FairSpec
CONSTANTS
  Roms <- MCRoms
  Window = 48
  Wrapperless = TRUE
  MaxProbes = 1
  MaxLoads = 2
INVARIANTS
  ScanSound
  CoresReleased
  NoCallbackOutlives
  AccessSafe
PROPERTIES
  RemovalEnds
CHECK_DEADLOCK FALSE
