CONSTANTS
  d1 = d1
  d2 = d2
  q1 = q1
  q2 = q2
  r1 = r1
  r2 = r2
  o1 = o1
  o2 = o2
  a1 = a1
  a2 = a2
  None = None
  Initial = Initial
  Agent = Agent
  Source <- Answers
  Draft = {d1}
  Question = {q1}
  Reply = {r1}
  Pasted = {}
  Operator = {o1, o2}
  Address = {a1}
  MaxQuestions = 3
  ListLimit = 1
  Backlog = 1
  Scope = {"switch", "approve", "reject", "day"}
  Stalls = FALSE
SPECIFICATION FairSpec
CONSTRAINT ApprovedOrFollowedUp
INVARIANT DiscardedIsOver
PROPERTIES QuestionsLeave ImplementsLifecycle
CHECK_DEADLOCK FALSE
