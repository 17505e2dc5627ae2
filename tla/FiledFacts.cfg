CONSTANTS
  a1 = a1
  q1 = q1
  a2 = a2
  m2 = m2
  Filings = {a1, q1, a2, m2}
  Nth <- Order
  Form <- Forms
  FiscalYear <- Years
  FiscalPeriod <- Periods
  Concepts <- Tags
  MetricOf <- Metrics
  Rank <- Ranks
  NoStart = NoStart
  ReportDate <- Dates
  MaxLag = 1
  MaxLost = 1
  Reports <- Contents
SPECIFICATION Spec
INVARIANTS LiveIsWhole LabelNamesPeriod
PROPERTY FactsStay
CHECK_DEADLOCK FALSE
