CONSTANTS
  Root = Root
  A = A
  B = B
  I = I
  NoSC = NoSC
  NoClass = NoClass
  DefCls = B
  Classes <- MC_FlatClasses
  Parent <- MC_FlatParent
  CreateSC <- MC_CreateSC_Limited
  ChangeSC <- MC_ChangeSC
  Lens <- MC_Lens
  QLimit = 2
  MaxTime = 3
  MaxPkts = 3
  MaxConf = 2
  SM_SHIFT = 2
  ISM_SHIFT = 2
  WIDTH = 16
  WIDTH32 = 8
  CLK = 1
  USEC = 1
SPECIFICATION Spec
INVARIANTS
  RealTimeIndexExact
  IndexOrder
  FitTimeConsistent
  UpperLimitContainment
PROPERTIES
  DeadlineEnvelope
  RealTimeWithinEligible
CHECK_DEADLOCK FALSE
