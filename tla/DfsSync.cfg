\* Two mounted clients, two changes.
CONSTANTS
  Clients = {a, b}
  Commands <- AllCommands
  MaxChanges = 2
  MaxMounts = 2
  Nobody = Nobody
  Absent = Absent
  Live = Live
SPECIFICATION FairSpec
INVARIANTS
  WholeAtRest
  EmptiedByRemoval
PROPERTY Converges
CHECK_DEADLOCK FALSE
