CONSTANTS
  MaxRings = 3
  ConfigSet <- SomeConfigs
  Ring = 0
  Receivers = {r1, r2}
  WorkThread = wq
  Messages = {m1, m2}
  LongMessages = {m2}
  DescCount = 3
  MaxSends = 3
  MaxErrors = 2
  MaxOthers = 1
  NoThread = NoThread
  NoData = NoData
SPECIFICATION Spec
SYMMETRY Symm
INVARIANTS HeapIsCtrl NoLostWakeup CallbackDrained
PROPERTIES ImplementsFifo
CHECK_DEADLOCK FALSE
