CONSTANTS
  Root = Root
  A = A
  B = B
  I = I
  NoSC = NoSC
  NoClass = NoClass
  DefCls = B
  Classes <- MC_Classes
  Parent <- MC_Parent
  CreateSC <- MC_CreateSC
  ChangeSC <- MC_ChangeSC
  Lens <- MC_Lens
  QLimit = 2
  MaxTime = 2
  MaxPkts = 3
  MaxConf = 3
  SM_SHIFT = 2
  ISM_SHIFT = 2
  WIDTH = 16
  WIDTH32 = 8
  CLK = 1
  USEC = 1
SPECIFICATION Spec
INVARIANT FitTimeConsistent
CHECK_DEADLOCK FALSE
