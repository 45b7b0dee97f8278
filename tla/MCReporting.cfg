SPECIFICATION Spec
CONSTANTS
  Capacity = 2
  TokenCap = 2
  TokenCost = 2
  HoldFor = 2
  ProbeEvery = 2
  SummaryEvery = 2
  SummaryGap = 1
  SourcesEvery = 2
  MaxEvents = 3
  MaxRepeats = 1
  Threads = {t1, t2, t3}
  Fds = {f1, f2, f3, f4}
  MaxConnections = 2
  MaxStreams = 1
  SecondLen = 20
  HoldUps = {0, 2, 25}
  Shifts <- SmallAndLarge
  StreamEnd = 30
  Rates = {1, 3, 5}
  Threshold = 2
  WriteEvery = 2
  MaxKills = 2
  BucketWidth = 2
  Buckets = 2
  KeepFor = 4
  MaxChanges = 3
  MaxSeries = 1
  SeriesIds = {a, b}
  MaxStamp = 7
  MaxSamples = 4
INVARIANTS LogTellsState CleanStop OneTickASecond DriftKept ChartsTell
PROPERTIES PublishesButRefused EventsGoOut
CHECK_DEADLOCK FALSE
