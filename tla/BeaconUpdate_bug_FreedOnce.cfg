\* Three beacons; once they are used up the system stops.
SPECIFICATION FairSpec
CONSTANTS
  MaxBeacon = 3
INVARIANT FreedOnce
CHECK_DEADLOCK FALSE
