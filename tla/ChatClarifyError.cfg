CONSTANTS
  MaxUtterances = 2
  MaxCalls = 3
  Settings <- CalmSettings
  Keep = 2
  MaxRestarts = 0
SPECIFICATION GraphSpec
INVARIANT ErrorIsApology
CHECK_DEADLOCK FALSE
