SPECIFICATION FairSpec
CONSTANTS
  MaxCommands = 2
  MaxDisturbances = 2
  MaxInFlight = 2
INVARIANTS
  TypeOK
  MirrorAgrees
  NeverAhead
PROPERTIES
  StaysCurrent
  Heals
CHECK_DEADLOCK FALSE
