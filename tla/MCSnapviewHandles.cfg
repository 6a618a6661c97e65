SPECIFICATION Spec
CONSTANTS
  n1 = n1
  n2 = n2
  u1 = u1
  u2 = u2
  u3 = u3
  h1 = h1
  h2 = h2
  NoFs = NoFs
  Names <- MC_Names
  Uuids <- MC_Uuids
  Handles <- MC_Handles
  MaxChanges = 3
  MaxDisconnects = 0
  Failures = TRUE
  ConcurrentCbk = TRUE
SYMMETRY MC_Symmetry
INVARIANTS
  TypeOK
  HandleOwnership
  HandleMatchesSnap
CHECK_DEADLOCK FALSE
