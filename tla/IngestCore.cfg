CONSTANTS
  Pollers = {p1}
  Workers = {w1, w2}
  Filings = {f1, f2}
  Parses = {f1, f2}
  Raises = {f2}
  Kills = {}
  NoFiling = NoFiling
  MaxDeliveries = 2
  Batch = 2
  MaxLen = 1
  Timely = FALSE
  MaxFaults = 1
  MaxCount = 3
SPECIFICATION FairSpec
INVARIANTS NothingLost
PROPERTIES CounterKeptWhilePending DeliversAtLeastOnce Drains
