CONSTANTS
  Worlds = {"entry", "import", "export"}
  r1 = r1
  r2 = r2
  q1 = q1
  q2 = q2
  q3 = q3
  q4 = q4
  e1 = e1
  e2 = e2
  e3 = e3
  t2 = t2
  Ids = {r1, r2}
  Names = {"n1"}
  Keys = {"k1"}
  Kinds = {"good", "service", "contact"}
  Files <- NoFiles
  Exports = FALSE
  Modes = {}
  MaxRefs = 3
  MaxQty = 2
  MaxDialogs = 0
  Tasks = {t1}
  Crashes = FALSE
  NoKey = NoKey
  NoName = NoName
  Fresh = Fresh
  Gone = Gone
  None = None
SYMMETRY ListSymmetry
SPECIFICATION WorldSpec
INVARIANT RefsSound
PROPERTY ListsExact
CHECK_DEADLOCK FALSE
