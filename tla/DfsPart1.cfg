\* Two users, two commands, a file and a directory.
CONSTANTS
  file = file
  folder = folder
  Clients = {a, b}
  Files = {file}
  Dirs = {folder}
  Held = {file, folder}
  Commands <- AllCommands
  NChunks = 2
  MaxCalls = 2
  Window = 1
  Missing = Missing
  None = None
SPECIFICATION FairPart1Spec
INVARIANTS
  StoredAlone
  FetchedAlone
PROPERTY CallsEnd
CHECK_DEADLOCK FALSE
