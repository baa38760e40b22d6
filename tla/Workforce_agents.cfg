SPECIFICATION Spec
CONSTANTS
  c1 = c1
  c2 = c2
  Callers <- MCCallers
  Executions <- MCExecutions
  LiveExecutions <- MCLive
  ToolExecutions <- MCTools
  AllowLive = TRUE
  Stage <- MCStage
  Title <- MCTitle
  MaxParallel = 2
  MaxToolCalls = 2
  MaxOutput = 2
  Expiry = 2
  MaxTime = 2
  MaxFaults = 1
SYMMETRY Symmetry
CONSTRAINT Independent
INVARIANTS ArtifactsAccountedFor OneArchitecture ToolsWithinAuthority
PROPERTY NoSecondEffect
CHECK_DEADLOCK FALSE
