SPECIFICATION FairSpec
CONSTANTS
  ProxyWorkers = {w1, w2}
  NCache = 2
  NSegments = 1
  Keys = {1, 2}
  Locals <- OneLocal
  NChunks = 2
  MQMax = 2
  MaxStarts = 2
  MaxFaults = 2
INVARIANTS
  OwnAnswer
  CleanSlate
PROPERTIES
  Answered
CHECK_DEADLOCK FALSE
