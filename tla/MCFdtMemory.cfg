SPECIFICATION Spec
CONSTANTS
  Sizes <- MCSizes
  NodeNames <- MCNodeNames
  PropNames <- MCPropNames
  Values <- MCValues
  MaxRsv = 2
  Received <- MCReceived
  RefProps = {"target", "ref"}
  MaxPhandle = 5
  Inputs <- MCInputs
CHECK_DEADLOCK FALSE
INVARIANT MemoryNodesGone
