SPECIFICATION Spec
CONSTANTS
  Requests = {1, 2}
  Places = {p1, p2}
  Keep = 1
  Slots = {s1, s2}
  MaxCalls = 3
  MaxSaves = 4
  MaxOutside = 1
  NoRow = NoRow
  NoPlace = NoPlace
  NoKey = NoKey
  Idle = Idle
SYMMETRY Alike
CHECK_DEADLOCK FALSE
INVARIANTS KeyPaysForRequests CostsAgree LostOnlyIfOld LastAnswerShown
PROPERTIES HistoryKept
