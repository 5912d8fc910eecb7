CONSTANTS
  Worlds = {"ledger", "shop", "count", "merge"}
  j1 = j1
  j2 = j2
  w1 = w1
  i1 = i1
  i2 = i2
  i3 = i3
  w2 = w2
  t1 = t1
  c1 = c1
  a1 = a1
  s2 = s2
  prod = prod
  p1 = p1
  JournalIds = {j1, j2}
  PeriodIds = {p1}
  StocktakeIds = {s1}
  Warehouses = {w1}
  Dates = {1}
  AccountRows <- MCAccountRows
  DefaultRows <- MCDefaultRows
  LineLists <- MCLineLists
  ManualSources <- MCManualSources
  CommercialSources <- NoRows
  None = None
  DocId = d1
  MaxBackups = 1
  MaxUid = 5
SYMMETRY RecoverySymmetry
SPECIFICATION WorldSpec
INVARIANTS
  ExportsRestorable
PROPERTIES
  RecoveredSound
  RestoreKeepsHistory
  RestoresFaithful
CHECK_DEADLOCK FALSE
