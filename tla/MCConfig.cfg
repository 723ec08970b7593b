SPECIFICATION ConfigSpec
CONSTANTS
  Sources <- MCFiles
  SearchPath <- MCPaths
  MaxLookups = 1
INVARIANT BlanksRemoved
CHECK_DEADLOCK FALSE
