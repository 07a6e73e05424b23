SPECIFICATION Spec
CONSTANTS
  Devices = {"posix", "fat"}
  Paths <- MCPaths
  OtherPoints <- MCOtherPoints
  FileNames <- MCFileNames
  Data <- MCData
  MaxStreams = 2
  MaxMounts = 2
  MaxCells = 4
  MaxSends = 2
INVARIANTS TypeOK  OpenThenRecv
