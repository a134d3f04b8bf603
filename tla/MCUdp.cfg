SPECIFICATION Spec
CONSTANTS
  ByteBits = 2
  MagicStart = 9
  ScanNumberBits = 1
  Scans = 3
  PacketsPerScan = 3
  PointsUpTo <- MCPointsUpTo
  MaxLost = 1
  MaxDuplicated = 1
INVARIANTS TypeOK OutputIsOneScan ScanInOrderIsOutput
CHECK_DEADLOCK FALSE
