CONSTANTS
  c1 = c1
  c2 = c2
  v1 = v1
  v2 = v2
  s1 = s1
  i0 = i0
  i1 = i1
  k1 = k1
  k2 = k2
  w1 = w1
  w2 = w2
  t1 = t1
  t2 = t2
  t3 = t3
  t4 = t4
  None = None
  Run = {c1, c2}
  Conversation = {k1}
  Worker = {w1, w2}
  Token = {t1, t2, t3}
  Kind <- KindAll
  Rev <- RevAll
  Conv <- SameConv
  Parent <- NoParent
  Lane <- TwoChatLanes
  Switches = {}
  MaxAttempts = 3
  LeaseSpan = 2
  MaxInterrupts = 1
  MaxRevision = 0
SPECIFICATION Spec
SYMMETRY PeerSymmetry
INVARIANTS IInv OneOwner ClaimedAttemptIsCurrent OneActivePerConversation ArchivedIsQuiet
PROPERTY ImplementsLifecycle
CHECK_DEADLOCK FALSE
