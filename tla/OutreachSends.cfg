CONSTANTS
  d1 = d1
  d2 = d2
  q1 = q1
  q2 = q2
  r1 = r1
  r2 = r2
  o1 = o1
  o2 = o2
  a1 = a1
  a2 = a2
  None = None
  Initial = Initial
  Agent = Agent
  Source <- Answers
  Draft = {d1}
  Question = {q1, q2}
  Reply = {r1, r2}
  Pasted = {r1}
  Operator = {o1, o2}
  Address = {a1, a2}
  MaxQuestions = 1
  ListLimit = 3
  Backlog = 0
  Scope = {"approve", "address", "day"}
  Stalls = TRUE
SPECIFICATION Spec
SYMMETRY PeerSymmetry
CONSTRAINT Scenario
INVARIANTS DeliveredOnce OneRecipient SupersededWasNeverSent QuestionsBounded
PROPERTIES SentIsFinal QuestionIsCurrent
CHECK_DEADLOCK FALSE
