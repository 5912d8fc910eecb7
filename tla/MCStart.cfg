CONSTANTS
  Worlds = {"open", "session", "trial", "faulty", "licensed", "racing", "full"}
  c1 = c1
  c2 = c2
  o1 = o1
  o2 = o2
  m = m
  u1 = u1
  u2 = u2
  comp1 = comp1
  comp2 = comp2
  r1 = r1
  r2 = r2
  t1 = t1
  t2 = t2
  NoToken = NoToken
  Null = Null
  None = None
  d1 = d1
  d2 = d2
  name1 = name1
  name2 = name2
  Callers = {c1, c2}
  Others = {o1, o2}
  MaxRequests = 3
  Retry = FALSE
SPECIFICATION WorldSpec
INVARIANTS
  OneConnection
PROPERTIES
  SignInSound
  EverybodyAnswered
  TrialSound
  FullRestoreSound
CHECK_DEADLOCK FALSE
