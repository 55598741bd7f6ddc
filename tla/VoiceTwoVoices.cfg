CONSTANTS
  MaxInputs = 2
  MaxTurns = 2
  MaxRetries = 2
  DeadInputs = {1}
SPECIFICATION Spec
INVARIANT OneVoice
CHECK_DEADLOCK FALSE
