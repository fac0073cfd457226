SPECIFICATION FairBridgeSpec
CONSTANTS
  Slots = {p1, p2}
  NoProcess = NoProcess
  MaxRestarts = 1
  MaxRaces = 0
  MaxAlarms = 2
CHECK_DEADLOCK FALSE
PROPERTIES LongOutageRestarts
