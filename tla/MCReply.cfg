SPECIFICATION FairSpec
CONSTANTS
  MaxApplied = 3
  Messages <- Posts
INVARIANTS
  TypeOK
  AgentSeesMessageInOrder
  RepliesNeedMatchingClient
  AnswerLostOnlyByFeishu
PROPERTY
  JobEnds
