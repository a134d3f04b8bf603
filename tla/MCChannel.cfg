SPECIFICATION FairSpec
CONSTANTS
  NumRequests = 2
  Throwing = {1}
  DeviceAnswers = {"hollow"}
  MaxInFlight = 2
  MaxCancels = 1
  MayDestroy = FALSE
INVARIANTS TypeOK Accounted
PROPERTIES ImplementsService DeadlineIsLostToAnother AnsweredUnlessStranded NextRequestRescues
CHECK_DEADLOCK FALSE
