SPECIFICATION FairStreamSpec
CONSTANTS
  N = 2
  Programs <- AllPrograms
  FileSet <- SmallFiles
  Messages <- SmallMessages
  BufSize = 3
  Radix = 3
  MaxKills = 1
INVARIANTS
  InOrder
  KeptIsWhole
PROPERTIES
  Ended
CHECK_DEADLOCK FALSE
