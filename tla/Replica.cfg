CONSTANTS
  r1 = r1
  r2 = r2
  f1 = f1
  f2 = f2
  x1 = x1
  e1 = e1
  b1 = b1
  Replicas = {r1, r2}
  Filings = {f1, f2, x1, e1}
  Fixtures = {b1}
  Empty = {e1}
  Malformed = {x1}
  BootVersion = 1
  FactsMaxLen = 2
  ReadCount = 2
  MaxMessages = 3
  MaxRestarts = 1
  MaxGlitches = 1
SPECIFICATION ReplicaFairSpec
INVARIANTS SameVersionSameData
PROPERTIES AppliesUnlessFarBehind Converges
CHECK_DEADLOCK FALSE
