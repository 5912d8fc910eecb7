CONSTANTS
  Worlds = {"ledger", "reports"}
  JournalIds = {j1, j2}
  PeriodIds = {p1, p2}
  StocktakeIds = {s1}
  Warehouses = {w1}
  Dates = {1, 2}
  AccountRows <- MCAccountRows
  DefaultRows <- MCDefaultRows
  LineLists <- MCLineLists
  ManualSources <- MCManualSources
  CommercialSources <- MCCommercialSources
  None = None
  DocId = d1
SYMMETRY JournalSymmetry
SPECIFICATION WorldSpec
INVARIANTS
  PeriodsHold
  PostingsSound
  ReversalPaired
  AuditMatchesState
  ReportsAgree
PROPERTIES
  AppendOnlyBook
  ClosedReportFrozen
CHECK_DEADLOCK FALSE
