SPECIFICATION FairSpec
CONSTANTS
  Kinds = {"agent", "reply", "upload", "download"}
  AgentRetries <- RetryCounts
  AgentDelays <- DelayValues
  Millisecond = 2
  DefaultDelay = 1
  Timeouts = {2, 7}
  Width = 6
INVARIANTS
  TypeOK
  ResultIsEarned
  DelaysDouble
  AtMostOneLateCall
  RepliesRepeatOnlyAfter5xx
  BodiesClosed
PROPERTY
  Returns
