SPECIFICATION FairSpec
CONSTANTS
  Kinds = {"set"}
  Capacity = 2
  RxTimeout = 0
  MaxLatency = 1
  CommandTimeout = 2
  MaxRetries = 1
PROPERTIES
  StartedCommandLeaves
  CommandsDrain
  ImplementsService
