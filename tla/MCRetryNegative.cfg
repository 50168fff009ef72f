SPECIFICATION Spec
CONSTANTS
  Kinds = {"agent"}
  AgentRetries <- FewCounts
  AgentDelays <- DelayValues
  Millisecond = 2
  DefaultDelay = 1
  Timeouts = {2, 7}
  Width = 6
INVARIANT SuccessHasResponse
