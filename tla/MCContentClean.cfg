SPECIFICATION Spec
CONSTANTS
  BlockSize = 2
  Token <- SmallTokens
  Blank <- SmallBlank
  Bodies <- SmallBodies
  Events <- PlainEvents
  BotNames <- BotNameSet
  Contents <- PlainContents
  Prompts <- SmallPrompts
  Answers <- SmallAnswers
INVARIANT AgentGetsCleanInput
