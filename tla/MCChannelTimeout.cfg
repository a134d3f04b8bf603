SPECIFICATION FairSpec
CONSTANTS
  NumRequests = 2
  Throwing = {}
  DeviceAnswers = {"success"}
  MaxInFlight = 1
  MaxCancels = 0
  MayDestroy = FALSE
PROPERTIES TimeoutIsDue
CHECK_DEADLOCK FALSE
