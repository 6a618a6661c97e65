CONSTANTS
  N = 4
  Minimum = 2
  FopId = "write"
  NIL = NIL  MISSING = MISSING  SEP = SEP
  e1 = e1  e2 = e2  x1 = x1  x2 = x2  u1 = u1  u2 = u2
  Answers <- MC_Answers
SPECIFICATION Spec
INVARIANTS GroupAccounting ListOrdered ChainIsGroup GroupsAreClasses IattMerged
PROPERTIES Decides
CHECK_DEADLOCK FALSE
