SPECIFICATION Spec
CONSTANTS
  ScanNumberBits = 1
  Scans = 3
  PacketsPerScan = 2
  HeaderUnits = 3
  SearchUnits = 4
  PayloadSizes = {1, 4}
  Layouts <- MCLayouts
  Inventions <- MCInventions
  StrayChoices <- MCStrayChoices
  DefaultSizes = {4, 5, 7}
  MaxReceptionSize = 10
  CountLimit = 11
INVARIANTS TypeOK OutputsAreWholeScans OnlyCutHeadersAreLost ExtractedScanIsOutput BufferBounded
CHECK_DEADLOCK FALSE
