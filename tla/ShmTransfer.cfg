\* Two proxy workers and two cache workers on two segments, a queue of one message; safety and liveness.
CONSTANTS
  ProxyWorkers = {w1, w2}
  CacheWorkers = {c1, c2}
  Segments = {s1, s2}
  p_long = p_long
  p_empty = p_empty
  p_miss = p_miss
  Paths <- AllPaths
  FileLen <- AllFiles
  FstatFails <- BadFiles
  ChunkSize = 2
  MQMax = 1
  NoPath = NoPath
  NoSeg = NoSeg
SPECIFICATION FairSpec
INVARIANTS
  TypeOK
  DeliveredPrefix
  AnsweredInFull
  SegmentRestored
  Exclusive
  NoTornContent
  IInv
PROPERTY
  SegmentReturned
CHECK_DEADLOCK FALSE
