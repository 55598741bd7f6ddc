CONSTANTS
  MaxInputs = 2
  MaxTurns = 2
  MaxRetries = 2
  DeadInputs = {1}
SPECIFICATION Spec
INVARIANT IdleMeansMicOff
CHECK_DEADLOCK FALSE
