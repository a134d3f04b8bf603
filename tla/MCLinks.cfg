SPECIFICATION FairSpec
CONSTANTS
  MaxScans = 2
INVARIANTS TypeOK NextScanIsNew ListenerHearsEachScan
PROPERTIES NextNotificationRescues DeadStreamIsReported DestructionEnds
CHECK_DEADLOCK FALSE
