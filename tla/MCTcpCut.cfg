SPECIFICATION Spec
CONSTANTS
  ScanNumberBits = 2
  Scans = 2
  PacketsPerScan = 2
  HeaderUnits = 3
  SearchUnits = 4
  PayloadSizes = {1, 4}
  Layouts <- MCLayouts
  Inventions <- MCInventions
  StrayChoices <- MCStrayChoices
  DefaultSizes = {4, 5, 6, 7}
  MaxReceptionSize = 10
  CountLimit = 11
INVARIANTS PartialPacketIsKept
CHECK_DEADLOCK FALSE
