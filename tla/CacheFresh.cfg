CONSTANTS
  r1 = r1
  r2 = r2
  q1 = q1
  q2 = q2
  f1 = f1
  f2 = f2
  x1 = x1
  b1 = b1
  Replicas = {r1, r2}
  Filings = {f1, f2}
  Fixtures = {b1}
  Empty = {}
  Malformed = {}
  BootVersion = 1
  FactsMaxLen = 4
  ReadCount = 1
  MaxMessages = 2
  MaxRestarts = 1
  MaxGlitches = 1
  Requests = {q1, q2}
  NoReplica = NoReplica
SPECIFICATION Spec
SYMMETRY Symmetry
INVARIANTS NeverServedStale
