\* Two async threads, one client, two files.
CONSTANTS
  Threads = {t1, t2}
  Clients = {a}
  f = f
  g = g
  Files <- TwoFiles
  NObjects = 6
  MaxBacklog = 1
  MaxChanges = 1
  MaxFailures = 1
SPECIFICATION FairSpec
INVARIANTS
  AlwaysArmed
  NoDanglingTag
  ListedAll
PROPERTY CatchUp
