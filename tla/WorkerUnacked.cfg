CONSTANTS
  r1 = r1
  r2 = r2
  None = None
  Run = {r1}
  MaxAttempts = 2
  MaxClaims = 2
  MaxCalls = 1
  MaxLapses = 1
SPECIFICATION Spec
INVARIANT UnackedIsReplaced
