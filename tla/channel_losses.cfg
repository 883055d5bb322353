\* One connection whose packets arrive in order, with losses and repetitions.
SPECIFICATION Spec
CONSTANTS
  MaxReassembledSize = 3
  MaxMessages = 3
  MaxChunks = 5
  MaxLosses = 2
  MaxRepeats = 2
INVARIANTS
  TypeOK
  LossIsContained
  GapsAreNoticed
  BufferIsBounded
CHECK_DEADLOCK FALSE
