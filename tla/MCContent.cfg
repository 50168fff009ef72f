SPECIFICATION Spec
CONSTANTS
  BlockSize = 2
  Token <- SmallTokens
  Blank <- SmallBlank
  Bodies <- SmallBodies
  Events <- SmallEvents
  BotNames <- BotNameSet
  Contents <- SmallContents
  Prompts <- SmallPrompts
  Answers <- SmallAnswers
INVARIANTS
  TypeOK
  MentionIsStripped
  RequestCarriesPost
  FileIsNamedInReply
  ReplyKnowsAnswer
PROPERTY
  DecryptionInvertsPadding
