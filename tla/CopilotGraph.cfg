CONSTANTS
  A = A
  B = B
  f1 = f1
  f2 = f2
  f3 = f3
  f4 = f4
  b1 = b1
  p1 = p1
  p2 = p2
  p3 = p3
  Tickers = {A, B}
  Filings = {f1, f2, f3, f4, b1}
  NoFiling = NoFiling
  NoDate = NoDate
  NoYear = NoYear
  TickerOf <- MC_TickerOf
  FiledOn <- MC_FiledOn
  Accession <- MC_Accession
  Reports <- MC_Reports
  Fixtures = {f2, b1}
  Dates = {1, 2, 3}
  Requests <- MC_Requests
  Passages = {p1, p2, p3}
  PassageOf <- MC_PassageOf
  Matching = {p1, p2}
  SearchK = 2
  Invented <- MC_Invented
  MaxFigures = 1
SPECIFICATION FairSpec
INVARIANTS NoLookAhead CitesNothingStale InputsCited GapsAreReal ToolsAccountedFor OnlySourcedFigures NamedCompaniesFound
PROPERTIES AsOfStable Answers
