\* Two clients on one file, deadlines pass, the last bytes of a file are small.
CONSTANTS
  Clients = {a, b}
  Files = {f1}
  Versions = {v_long, v_empty}
  v_long = v_long
  v_short = v_short
  v_empty = v_empty
  NChunks <- Chunks
  Calls = {k1, k2}
  Deadlines = TRUE
  SmallTail = TRUE
  Nobody = Nobody
  Absent = Absent
  Hole = Hole
  NoCall = NoCall
SPECIFICATION FairSpec
INVARIANTS
  TypeOK
  OneWriterInTime
  StoredWhole
  NoStrayLock
PROPERTY CallsEnd
