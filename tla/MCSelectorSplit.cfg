SPECIFICATION Spec
CONSTANTS
  Sources = {1, 2, 3}
  Primary = {1, 2}
  Radio = {1, 2}
  Station <- StationNames
  SecondaryMode = "standby"
  FailoverAfter = 1
  FailbackAfter = 2
  MinSources = 2
  MinSecondary = 1
  CoastSeconds = 2
  Drift = 1
  MaxAge = 1
  WeightUnit = 36
  Tau = 3
  Settle = 1
  Limit = 4
  ReacquireAfter = 2
  ReacquireMax = 4
  MaxNow = 8
  MaxSleep = 1
  Liars = {1, 2}
  Lie = 5
  Ages = {0}
  Truths = {0}
INVARIANT SwappedInWhenPrimaryCannotServe
