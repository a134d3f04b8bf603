SPECIFICATION FairSpec
CONSTANTS
  MaxScans = 1
INVARIANTS WatchdogExitsBeforeRelease
CHECK_DEADLOCK FALSE
