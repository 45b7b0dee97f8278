SPECIFICATION Spec
CONSTANTS
  FirstReadings = 2
  FirstSpan = 1
  AdoptReadings = 3
  AdoptSpan = 2
  DriftEvery = 3
  Errors = {0, 4, 240}
  MonthEnd = 5
  LeapWindow = 3
  LeapConfirm = 2
  AnchorMaxAge = 2
  LevelWindow = 2
  MinLevel = 2
  OffsetStale = 3
  MaxMinute = 10
  BlockLen = 8
  MaxFill = 12
  MaxBack = 8
  PendingFor = 2
  MaxJitter = 1
  MaxFrames = 13
  Levels = {0, 4}
  BaselineMin = 1
  MaxCalmAge = 2
  CalmToRelease = 1
  MaxHold = 3
  Rejoin = 2
  MinSlew = 1
  MaxGapTime = 2
  MaxRef = 14
  StationWarm = 1
  StationConfirm = 2
  StationSwitch = 3
  StationRelease = 5
  StationMemory = 3
  PingEvery = 3
  MaxPong = 2
  RttKept = 2
  MaxFlight = 9
  HttpRtt = 1
INVARIANTS SamplesAreTrue HistoryCorrectsItself InStep RoundTripNotShort
PROPERTIES HoldEndsGently PathIsTheStations
CHECK_DEADLOCK FALSE
