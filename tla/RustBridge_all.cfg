SPECIFICATION FairBridgeSpec
CONSTANTS
  Slots = {p1, p2}
  NoProcess = NoProcess
  MaxRestarts = 2
  MaxRaces = 1
  MaxAlarms = 3
CHECK_DEADLOCK FALSE
INVARIANTS OneUnlessRaced
PROPERTIES RestartOnlyAfterOutage Reconnects
