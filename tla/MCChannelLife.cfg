SPECIFICATION FairSpec
CONSTANTS
  NumRequests = 2
  Throwing = {}
  DeviceAnswers = {"success", "rejected"}
  MaxInFlight = 1
  MaxCancels = 1
  MayDestroy = TRUE
PROPERTIES PoisonedCacheIsFinal  StopIsFinal DestructionEndsIfHeard
CHECK_DEADLOCK FALSE
