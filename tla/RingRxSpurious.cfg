CONSTANTS
  MaxRings = 3
  ConfigSet <- SomeConfigs
  Ring = 0
  Receivers = {r1}
  WorkThread = wq
  Messages = {m1, m2}
  LongMessages = {m2}
  DescCount = 3
  MaxSends = 3
  MaxErrors = 2
  MaxOthers = 1
  NoThread = NoThread
  NoData = NoData
SPECIFICATION Spec
INVARIANTS NoSpuriousError
CHECK_DEADLOCK FALSE
