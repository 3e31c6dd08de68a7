SPECIFICATION Spec
CONSTANTS
  Kinds = {"lock", "frunk", "flash"}
  Capacity = 2
  MaxCount = 3
PROPERTY
  RefusalInvalidates
