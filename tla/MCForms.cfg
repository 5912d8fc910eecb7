CONSTANTS
  Worlds = {"patient", "twice", "hurried", "journal", "sheet", "hasty", "invoice", "number"}
  p1 = p1
  p2 = p2
  j1 = j1
  j2 = j2
  j3 = j3
  s1 = s1
  apple = apple
  pear = pear
  Blank = Blank
  item = item
  None = None
SPECIFICATION WorldSpec
PROPERTIES
  EntriesSound
  FieldsSound
CHECK_DEADLOCK FALSE
