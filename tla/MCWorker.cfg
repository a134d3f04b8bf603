SPECIFICATION FairSpec
CONSTANTS
  Callers = {c1, c2}
  Jobs = {j1, j2, j3}
  Throwing = {j3}
  MaxJob = 0
  NoJob = NoJob
INVARIANTS TypeOK QueueBound Conservation
PROPERTIES ImplementsQueue QueuedResolves NextNotificationRescues
CHECK_DEADLOCK FALSE
