SPECIFICATION ClientSpec
CONSTANTS
  Window = 2
  Responses = {zero, r1, r2}
  Zero = zero
  CounterLimit = 3
  MaxEpoch = 2
  MaxBuilds = 3
INVARIANTS
  TypeOK
  NoReplayInWindow
  ClientTypeOK
  CountersOnce
  SignedWithSecret
PROPERTIES
  ImplementsWindow
  FreshAnswersDecrypt
