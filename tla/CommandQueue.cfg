SPECIFICATION Spec
CONSTANTS
  Capacity = 3
  MaxId = 5
  States = {idle, busy}
  Idle = idle
  Undefined = Undefined
INVARIANTS
  TypeOK
  UniqueIds
PROPERTIES
  ImplementsList
  InProgressKeepsFront
