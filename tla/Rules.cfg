CONSTANTS
  ByteBits = 2
  WordBytes = 4
  Programs <- AllBlocks
  MaxRewrites = 6
  Disabled = {"collect_terms"}
SPECIFICATION Spec
INVARIANTS WellFormed SameValue MasksSound Settles
CHECK_DEADLOCK FALSE
