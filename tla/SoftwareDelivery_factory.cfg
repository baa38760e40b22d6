SPECIFICATION Spec
CONSTANTS
  w1 = w1
  w2 = w2
  a1 = a1
  a2 = a2
  None = None
  Workflows = {w1, w2}
  Agents = {a1, a2}
  Roster <- MCRoster
  MaxParallel <- MCMaxParallel
  Priority <- MCPriority
  Suits <- MCSuits
  MaxExecutions = 2
  MaxDisturbances = 2
SYMMETRY MCSymmetry
INVARIANTS
  StagesAgree
  AgentsAreAccounted
  AcknowledgedEndStays
CHECK_DEADLOCK FALSE
