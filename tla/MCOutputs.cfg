SPECIFICATION Spec
CONSTANTS
  Day = 5
  MonthEnd = 5
  ArmedFor = 2
  CatchUp = 3
  MaxSlot = 32
  Reopen = 6
  Width = 0
  MaxLate = 0
  Delays = {0, 1, 5}
  Clients = {k1, k2, k3, k4}
  MaxClients = 3
  Errors = {0, 1}
INVARIANTS SecondsNamed LineAtRest ReadersServed
PROPERTIES PulsesApart
CHECK_DEADLOCK FALSE
