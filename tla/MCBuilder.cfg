SPECIFICATION FairSpec
CONSTANTS
  Parameters = {"serial"}
  VersionMajor = 1
  VersionMinor = 4
  Builders = {c1, c2}
  TcpBuilders = {c1}
  Operator = Operator
  OperatorCommands = {"RebootDevice"}
  Slots = 1
  MaxJob = 0
  MaxOperations = 1
  Nobody = Nobody
INVARIANTS TypeOK HandlesAccounted StartFindsItsLink
PROPERTIES CallsEnd
CHECK_DEADLOCK FALSE
