CONSTANTS
  Worlds = {"stops", "finance", "legacy", "races", "cards"}
  i1 = i1
  i2 = i2
  i3 = i3
  t1 = t1
  t2 = t2
  t3 = t3
  sale = sale
  purchase = purchase
  c1 = c1
  c2 = c2
  Ids = {i1, i2}
  Kinds = {sale, purchase}
  Tasks = {t3}
  Typed = {0}
  MaxNumber = 3
  MaxRow = 2
  V2 = TRUE
  Crashes = TRUE
  None = None
SYMMETRY DeskSymmetry
SPECIFICATION WorldSpec
INVARIANTS
  NumbersUnique
  DocumentsFollow
  CardsAgree
PROPERTIES
  PostedKept
CHECK_DEADLOCK FALSE
