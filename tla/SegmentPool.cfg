\* Three workers race on two segments.
CONSTANTS
  Workers = {w1, w2, w3}
  NSegments = 2
  NAddr = 2
  NULL = NULL
  MaxN = 3
SPECIFICATION Spec
SYMMETRY WorkerSymmetry
INVARIANTS
  ExactWhenSerial
PROPERTY ImplementsLossyPool
CHECK_DEADLOCK FALSE
