SPECIFICATION Sources
CONSTANTS
  BurstCount = 2
  MaxQuickRetries = 2
  ReresolveAfter = 2
  MaxBackoff = 4
  RecoverAfter = 2
  ReachBits = 2
  FilterSize = 1
  SpikeFloor = 2
  MinSamples = 2
  MaxSamples = 2
  MinAge = 3
  Addresses = {1, 2}
  Answers <- PacingAnswers
  LongRegister = 4
  BackoffMin = 1
  BackoffMax = 2
  TooOldRetry = 3
  ProvenAfter = 2
  SilentAfter = 1
  Lf60Wait = 1
INVARIANTS OfferedIsMeasured SpikesDoNotStarve
PROPERTIES NoRetryWhileBackedOff NothingStuck AttemptsSpaced KeepsTrying ConnectionReleased StartsOver
CHECK_DEADLOCK FALSE
