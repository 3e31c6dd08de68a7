SPECIFICATION Spec
CONSTANTS
  PostWakeTime = 2
  DataPeriod = 1
  ChargingPeriod = 3
  AsleepPeriods = {0, 3}
  DisconnectedMinTimes = {0, 2}
  FastPollIfUnlocked = TRUE
  WakeOnBoot = TRUE
  Wrap = 10
  Horizon = 9
  MaxUpdateGap = 2
  MaxTickGap = 3
  MaxUpdates = 1
INVARIANTS
  TypeOK
  OneOffIsComplete
  FreshData
  FastPollingEnds
  UnknownInTime
PROPERTIES
  SleepUndisturbed
VIEW LiveState
