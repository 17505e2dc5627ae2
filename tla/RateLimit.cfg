CONSTANTS
  r1 = r1
  r2 = r2
  c1 = c1
  c2 = c2
  q1 = q1
  q2 = q2
  q3 = q3
  q4 = q4
  Replicas = {r1, r2}
  Requests = {q1, q2, q3, q4}
  Probes = {}
  At <- Requests_at
  Callers = {c1, c2}
  CallerOf <- Callers_of
  Redis = Redis
  Limit = 1
  MaxWindow = 3
  MaxErrors = 1
SPECIFICATION LimiterSpec
SYMMETRY Symmetry
INVARIANTS WindowLimit NoEarlyDenial
CHECK_DEADLOCK FALSE
