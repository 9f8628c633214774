\* Deadlines pass: a late ReleaseLock lets a second client in.
CONSTANTS
  Clients = {a, b}
  Files = {f1}
  Versions = {v_long, v_short}
  v_long = v_long
  v_short = v_short
  v_empty = v_empty
  NChunks <- Chunks
  Calls = {k1, k2, k3}
  Deadlines = TRUE
  SmallTail = FALSE
  Nobody = Nobody
  Absent = Absent
  Hole = Hole
  NoCall = NoCall
SPECIFICATION Spec
SYMMETRY DfsSymmetry
INVARIANT OneWriter
CHECK_DEADLOCK FALSE
