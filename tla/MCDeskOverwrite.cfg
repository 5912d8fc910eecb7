CONSTANTS
  Worlds = {"stops"}
  i1 = i1
  i2 = i2
  i3 = i3
  t1 = t1
  t2 = t2
  t3 = t3
  sale = sale
  purchase = purchase
  c1 = c1
  c2 = c2
  Ids = {i1}
  Kinds = {sale}
  Tasks = {t1, t2}
  Typed = {0}
  MaxNumber = 3
  MaxRow = 3
  V2 = TRUE
  Crashes = FALSE
  None = None
SYMMETRY DeskSymmetry
SPECIFICATION WorldSpec
PROPERTIES
  PostedKept
CHECK_DEADLOCK FALSE
