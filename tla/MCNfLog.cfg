SPECIFICATION Spec
CONSTANTS
  l1 = l1
  l2 = l2
  t1 = t1
  c1 = c1
  c2 = c2
  NULL = NULL
  NPROTO = 2
  Loggers <- MC_Loggers
  Unbinders <- MC_Unbinders
  Cpus <- MC_Cpus
INVARIANTS
  TypeOK
  NoUseAfterFree
CHECK_DEADLOCK FALSE
