CONSTANTS
  Worlds = {"calendar", "figures", "page"}
  c1 = c1
  c2 = c2
  p1 = p1
  p2 = p2
  p3 = p3
  None = None
  LastYear = 1407
SYMMETRY ReportSymmetry
SPECIFICATION WorldSpec
INVARIANT ReportsSound
PROPERTY CalendarExact
CHECK_DEADLOCK FALSE
