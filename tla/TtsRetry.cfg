CONSTANTS
  MaxChunks = 2
SPECIFICATION Spec
INVARIANT RetrySpeaksAll
CHECK_DEADLOCK FALSE
