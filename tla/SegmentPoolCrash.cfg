\* Two workers, two segments: the proxy can exit.
CONSTANTS
  Workers = {w1, w2}
  NSegments = 2
  NAddr = 2
  NULL = NULL
  MaxN = 3
SPECIFICATION Spec
SYMMETRY WorkerSymmetry
INVARIANTS
  NoCrash
CHECK_DEADLOCK FALSE
