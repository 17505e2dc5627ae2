CONSTANTS
  Pollers = {p1}
  Workers = {w1, w2}
  Filings = {f1, f2}
  Parses = {f1}
  Raises = {}
  Kills = {f2}
  NoFiling = NoFiling
  MaxDeliveries = 2
  Batch = 2
  MaxLen = 5
  Timely = TRUE
  MaxFaults = 0
  MaxCount = 3
SPECIFICATION FairSpec
PROPERTIES GoodFilingsProceed
