\* Three workers, two requests; failing transfers, spurious wakeups.
CONSTANTS
  Workers = {w1, w2, w3}
  NRequests = 2
  p = p
  Workload <- OnePath
  Failures = TRUE
  Spurious = TRUE
  Boss = Boss
  Free = Free
  Done = Done
SPECIFICATION FairSpec
INVARIANTS
  TypeOK
  ExactlyOnce
  CleanShutdown
  LocalCopies
PROPERTY Termination
