\* Five beacons; once they are used up the system stops.
SPECIFICATION FairSpec
CONSTANTS
  MaxBeacon = 5
INVARIANTS
  LockedUpdatesAreSound
  NeverWriteValid
  NoNullBeacon
PROPERTIES
  BeaconReachesAir
CHECK_DEADLOCK FALSE
