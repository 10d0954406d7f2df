CONSTANTS
  ByteBits = 2
  WordBytes = 4
  Programs <- RemainderBlocks
  MaxRewrites = 6
  Disabled = {}
SPECIFICATION Spec
INVARIANTS SameValue
CHECK_DEADLOCK FALSE
