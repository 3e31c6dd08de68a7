SPECIFICATION Spec
CONSTANTS
  Kinds = {"wake", "unlock", "status", "set", "forced"}
  Capacity = 2
  RxTimeout = 0
  MaxLatency = 1
  CommandTimeout = 2
  MaxRetries = 1
INVARIANTS
  TypeOK
  OnlyFrontActive
  SessionBehindReady
  TransmissionBudget
  CallbackPerCommand
