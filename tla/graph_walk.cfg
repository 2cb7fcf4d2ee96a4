SPECIFICATION FairSpec
CONSTANTS
  Nodes <- MCNodes
  Ports <- MCPorts
  NoNode = 0
  Workflows <- MCWorkflows
  MaxNodeIterations = 2
  LogMayFail = TRUE
  MaxParks = 2
  MaxCrashes = 1
INVARIANTS
  TypeOK
  LayoutSound
  RunsWhatIsOwed
PROPERTIES
  RunsOnce
  SegmentEnds
CHECK_DEADLOCK FALSE
