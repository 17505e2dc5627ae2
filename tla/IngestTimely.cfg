CONSTANTS
  Pollers = {p1, p2}
  Workers = {w1, w2}
  Filings = {f1, f2, f3}
  Parses = {f1, f2, f3}
  Raises = {f2}
  Kills = {f3}
  NoFiling = NoFiling
  MaxDeliveries = 2
  Batch = 2
  MaxLen = 5
  Timely = TRUE
  MaxFaults = 1
  MaxCount = 3
SPECIFICATION Spec
SYMMETRY Symmetry
INVARIANTS LostOnlyByCrash PublishedOnce SoleHolder OneOutcome
