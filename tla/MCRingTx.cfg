CONSTANTS
  Threads = {t1, t2}
  Messages = {m1, m2}
  DescCount = 3
  MaxSends = 4
  NoThread = NoThread
  NoData = NoData
SPECIFICATION FairSpec
INVARIANTS NoOverwrite NoLostInterrupt
PROPERTIES ImplementsFifo AllDelivered
CHECK_DEADLOCK FALSE
