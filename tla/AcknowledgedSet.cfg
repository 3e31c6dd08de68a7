SPECIFICATION Spec
CONSTANTS
  Kinds = {"set"}
  Capacity = 2
  RxTimeout = 0
  MaxLatency = 1
  CommandTimeout = 4
  MaxRetries = 2
PROPERTY
  AcknowledgedSetIsDone
