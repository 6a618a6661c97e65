CONSTANTS
  Root = Root
  A = A
  B = B
  I = I
  NoSC = NoSC
  NoClass = NoClass
  DefCls = B
  Classes <- MC_SingleClasses
  Parent <- MC_SingleParent
  CreateSC <- MC_CreateSC_Limited
  ChangeSC <- MC_ChangeSC
  Lens <- MC_Lens
  QLimit = 2
  MaxTime = 3
  MaxPkts = 4
  MaxConf = 3
  SM_SHIFT = 2
  ISM_SHIFT = 2
  WIDTH = 16
  WIDTH32 = 8
  CLK = 1
  USEC = 1
SPECIFICATION Spec
INVARIANTS
  QlenAccounting
  LinkShareIndexExact
  UpperLimitContainment
CHECK_DEADLOCK FALSE
