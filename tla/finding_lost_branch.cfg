SPECIFICATION Spec
CONSTANTS
  Nodes <- MCNodes
  Ports <- MCPorts
  NoNode = 0
  Workflows <- MCWorkflows
  MaxNodeIterations = 2
  LogMayFail = TRUE
  MaxParks = 1
  MaxCrashes = 0
INVARIANTS
  ResumeGoesOn
CHECK_DEADLOCK FALSE
