CONSTANTS
  MaxEvents = 3
  MaxQueue = 1
  Kinds = {"speech_start", "final", "final_low", "other"}
  BackendMayMisbehave = TRUE
  MaxChunks = 2
  MaxFrames = 3
  MaxChatter = 1
  BufferFrames = 2
  MaxBackoff = 8
  Callers = {a, b}
  MaxRequests = 2
  WindowSeconds = 2
  MaxTime = 3
  MaxCalls = 3
  MaxDelay = 1
SPECIFICATION SpeechSpec
INVARIANTS
  Inv
  ListeningIsQuiet
  TokenFromLastAnswer
  CloseLeavesNoWork
  HeardOnce
  SpokenWhole
  LimitKept
PROPERTIES
  ImplementsTurnTaking
  DroppedOnlyWhileBusy
  EveryTurnConcludes
  SessionEnds
  ConnectionsEnd
