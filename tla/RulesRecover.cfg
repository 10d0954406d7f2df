CONSTANTS
  ByteBits = 2
  WordBytes = 4
  Programs <- RecoverBlocks
  MaxRewrites = 6
  Disabled = {}
SPECIFICATION Spec
INVARIANTS Settles
PROPERTIES StepsKeepValue
CHECK_DEADLOCK FALSE
