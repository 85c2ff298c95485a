CONSTANTS
  c1 = c1
  c2 = c2
  v1 = v1
  v2 = v2
  s1 = s1
  i0 = i0
  i1 = i1
  k1 = k1
  k2 = k2
  w1 = w1
  w2 = w2
  t1 = t1
  t2 = t2
  t3 = t3
  t4 = t4
  None = None
  Run = {c1, i0, i1, s1, v1, v2}
  Conversation = {k1}
  Worker = {w1, w2}
  Token = {t1, t2, t3}
  Kind <- KindAll
  Rev <- RevAll
  Conv <- SameConv
  Parent <- OperatorParent
  Lane <- CombinedAndBackground
  Switches = {"procurement", "inventory"}
  MaxAttempts = 1
  LeaseSpan = 1
  MaxInterrupts = 1
  MaxRevision = 1
SPECIFICATION Spec
CONSTRAINT SearchesOrReviews
SYMMETRY TokenSymmetry
INVARIANTS RetriesBounded DismissedIsOver NoteDescribesCheckpoint
PROPERTY TerminalIsFinal
CHECK_DEADLOCK FALSE
