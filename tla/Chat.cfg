CONSTANTS
  MaxUtterances = 2
  MaxCalls = 3
  Settings <- SomeSettings
  Keep = 2
  MaxRestarts = 1
  MaxInputs = 2
  MaxTurns = 2
  MaxRetries = 2
  DeadInputs = {1}
  Chats = {x, y}
  NoChat = NoChat
  Handlers = {h1, h2}
SPECIFICATION ChatSpec
INVARIANTS
  OnlyAnswersKept
  KeptOnce
  OrbMeansWork
  OneSocket
  Leashed
  AskedOnce
  SentToACreatedChat
  ShowsTheOpenChat
PROPERTIES
  ImplementsThreadMemory
  EveryAskEnds
  OrbReturns
CHECK_DEADLOCK FALSE
