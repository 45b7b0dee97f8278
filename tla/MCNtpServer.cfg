SPECIFICATION Spec
CONSTANTS
  c1 = c1  c2 = c2
  Listeners = {1, 2}
  Clients = {c1, c2}
  Callers = {c1, c2}
  Exempt = {}
  Interval = 2
  Burst = 2
  Kod = TRUE
  Leak = TRUE
  MaxBuckets = 1
  SweepEvery = 2
  Minutes = 2
  MaxCallers = 1
  CounterMax = 2
  PerMinute = 1
  Second = 1
  MaxSkew = 1
  MaxNow = 7
  RoomyNow = 5
  TallyNow = 6
  ServiceNow = 3
  StopNow = 1
  AnswerWhenUnsynchronised = TRUE
  HonourLeapWarning = TRUE
  Combinations <- Published
  MaxRequests = 2
INVARIANTS LimitExact CountsAreExact
PROPERTIES SharedFairly StopsWhenAsked
CHECK_DEADLOCK FALSE
