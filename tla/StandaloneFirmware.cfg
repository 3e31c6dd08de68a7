SPECIFICATION Spec
CONSTANTS
  Kinds = {"lock", "frunk", "flash"}
  Capacity = 2
  MaxCount = 3
INVARIANTS
  TypeOK
  FlagIsSomeones
  SecureChannel
