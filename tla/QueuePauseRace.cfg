CONSTANTS
  c1 = c1
  c2 = c2
  v1 = v1
  v2 = v2
  s1 = s1
  i0 = i0
  i1 = i1
  k1 = k1
  k2 = k2
  w1 = w1
  w2 = w2
  t1 = t1
  t2 = t2
  t3 = t3
  t4 = t4
  None = None
  Run = {v1, s1}
  Conversation = {k1}
  Worker = {w1}
  Token = {t1, t2}
  Kind <- KindAll
  Rev <- RevAll
  Conv <- SameConv
  Parent <- NoParent
  Lane <- TwoBackgroundLanes
  Switches = {"procurement"}
  MaxAttempts = 1
  LeaseSpan = 1
  MaxInterrupts = 0
  MaxRevision = 0
SPECIFICATION Spec
INVARIANT ProcurementPauseStopsJobs
CHECK_DEADLOCK FALSE
