SPECIFICATION Spec
CONSTANTS
  Parts <- AllParts
  VoterWindow = 3
  Faded = 2
  Clear = 30
  Sec = 6
  MaxMinute = 8
  MonthEnd = 3
  MaxFaults = 2
  IdLen = 2
  BlindMax = 9
  ConfirmMatches = 3
  UnnamedMax = 3
  DarkMax = 6
  FoldSeconds = 2
  SyncLen = 3
  PmMissLimit = 2
  SeedSeconds = 2
  DcfBlindMax = 9
  WwvSec = 9
  WwvFaults = 1
  Decade = 3
  SlipMarks = 2
  SoundMarks = 2
  MaxFalseMarks = 1
  BucketSec = 2
  WindowSec = 7
  Plausible = 5
  MaxPackets = 8
  MaxDelay = 2
  MarkHistory = 6
  MaxReach = 2
  ShortSec = 3
  HistorySec = 16
  ExposureSec = 2
  MaxDeviation = 20
  Allowance = 50
  MaxSeconds = 21
  Slew = 500
  MaxSlewed = 11
  MaxTroubles = 2
  MaxMissing = 3
INVARIANTS
  VotedIsTrue
  TimeTold
  RelocksInTime
  EnvelopeExact
  CaptureTrusted
