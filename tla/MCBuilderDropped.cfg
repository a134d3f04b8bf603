SPECIFICATION AnsweredSpec
CONSTANTS
  Parameters = {"serial"}
  VersionMajor = 1
  VersionMinor = 4
  Builders = {c1}
  TcpBuilders = {c1}
  Operator = Operator
  OperatorCommands = {}
  Slots = 1
  MaxJob = 0
  MaxOperations = 0
  Nobody = Nobody
PROPERTIES StreamIsReleased
CHECK_DEADLOCK FALSE
