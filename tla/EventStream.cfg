CONSTANTS
  w1 = w1
  w2 = w2
  None = None
  Writer = {w1, w2}
  MaxId = 5
  PageSize = 2
  MaxConnects = 3
SPECIFICATION Spec
INVARIANTS NothingSkipped EndIsSent
PROPERTIES DeliversTheLog EndIsReceived
CHECK_DEADLOCK FALSE
