SPECIFICATION SelectingSpec
CONSTANTS
  SecondaryMode = "cold"
  FailoverAfter = 1
  FailbackAfter = 3
  MaxNow = 15
  MaxSleep = 4
  Sources = {1, 2, 3}
  Honest = {1, 2}
  Readings <- SteadyWaveringWrong
  Tau = 3
  Settle = 1
  Limit = 1
  ReacquireAfter = 1
  ReacquireMax = 2
  JudgedNow = 7
  NumCandidates = 3
  Offsets = {0, 1, 2, 4}
  Distances = {1, 2}
  Weights = {1, 4}
  Composing = {1, 2}
  ComposedMode = "standby"
  ComposedNow = 7
  Primary = {1}
  Radio = {1}
  Station <- StationNames
  MinSources = 1
  MinSecondary = 1
  CoastSeconds = 2
  Drift = 1
  MaxAge = 1
  WeightUnit = 36
  Liars = {}
  Lie = 0
  Ages = {0, 1}
  Truths = {0, 1}
INVARIANTS HonestNeverRefused IntersectionHonest
PROPERTIES Hysteresis ReacquirePaced ServedHonestly
