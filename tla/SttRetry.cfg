CONSTANTS
  MaxFrames = 3
  MaxChatter = 1
  BufferFrames = 2
  MaxBackoff = 8
SPECIFICATION Spec
INVARIANT RetryHasAudio
CHECK_DEADLOCK FALSE
