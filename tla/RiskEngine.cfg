CONSTANTS
  main = main
  t1 = t1
  t2 = t2
  acme = acme
  bolt = bolt
  corp = corp
  dyne = dyne
  xeno = xeno
  Main = main
  Others = {t1, t2}
  Paths = 5
  Block = 2
  Draw <- Drawn
  Alpha = 1
  Den = 3
  Grain = 4
  Guard = 2
  Slip = 1
  Sample = 1
  Thin = 2
  Histories <- Some
  Windows = {2, 6}
  Margin = 1
  Lookback = 4
  Tickers = {acme, bolt, corp, dyne, xeno}
  SectorOf <- Sector
  Books <- Proposed
  MaxName = 7
  MaxSector = 12
  MaxGross = 20
  MaxVar = 0
  Restricted = {xeno}
  DefaultWindow = 6
SPECIFICATION TradeSpec
SYMMETRY Symmetry
INVARIANTS SameForAnyThreads NoSharedPath TailsAgree WindowIsSorted ExceptionsAgree DecisionIsExact
CHECK_DEADLOCK FALSE
