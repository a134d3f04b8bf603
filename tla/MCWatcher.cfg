SPECIFICATION FairSpec
CONSTANTS
  Listeners = {l1}
  Thresholds <- MCThresholds
  DefaultThreshold = 3
  HitBits = 2
  ThresholdBits = 3
  MaxFlips = 3
  LongBits = 64
  FlagBits = 32
INVARIANTS TypeOK ConnectionIsEarned PunctualListenerInSync
PROPERTIES DisconnectionIsEarned ChangesAreDetected DestructionEnds
CHECK_DEADLOCK FALSE
