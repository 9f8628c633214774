SPECIFICATION FairSpec
CONSTANTS
  Workers = {w1, w2}
  Requests = {r1, r2}
  Keys = {1, 2, 3}
  Contents <- SmallContents
  Sizes <- SmallSizes
  BufSize = 2
  MaxFaults = 1
  MaxSpurious = 1
INVARIANTS
  OnePlace
  RightAnswer
PROPERTIES
  Served
CHECK_DEADLOCK FALSE
