CONSTANTS
  x1 = x1
  x2 = x2
  q1 = q1
  q2 = q2
  q3 = q3
  lamb = lamb
  rice = rice
  acme = acme
  best = best
  None = None
  Call = {x1, x2}
  Query = {q1, q2}
  Category = {lamb, rice}
  Name = {acme, best}
  MaxBatches = 3
  MaxVendors = 2
  SearchLimit = 1
  PerCategory = 1
SPECIFICATION Spec
CONSTRAINT Scenario
INVARIANTS AllowanceIsKept CandidatesBounded RecommendationsStand
PROPERTIES CandidatesKept SearchesEnd
CHECK_DEADLOCK FALSE
