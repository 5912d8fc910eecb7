CONSTANTS
  Worlds = {"file", "orderly", "racing"}
  f1 = f1
  f2 = f2
  s1 = s1
  s2 = s2
  c1 = c1
  c2 = c2
  c3 = c3
  d1 = d1
  d2 = d2
  d3 = d3
  t1 = t1
  t2 = t2
  t3 = t3
  Header = Header
  Trade = Trade
  Capital = Capital
  Files = {f1, f2, broken}
  Sound = {f1, f2}
  Patient = TRUE
  MaxRenders = 3
  MaxAwaited = 2
  MaxBooks = 2
  None = None
SYMMETRY ActivationSymmetry
SPECIFICATION WorldSpec
INVARIANTS
  OpenedOnce
  PostsWhatIsShown
  ActivationSound
CHECK_DEADLOCK FALSE
