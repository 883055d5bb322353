\* A message that is too large, on a perfect network.
SPECIFICATION Spec
CONSTANTS
  MaxReassembledSize = 2
  MaxMessages = 2
  MaxChunks = 5
  MaxLosses = 0
  MaxRepeats = 0
INVARIANTS
  OversizedIsDropped
CHECK_DEADLOCK FALSE
