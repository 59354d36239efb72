CONSTANTS
  Bufs = {b1, b2, b3, b4}
  None = None
  NDescs <- Rings
  TotalDescs = 4
  HaltMax = 2
  MaxRetry = 1
  Numbers = 4
  MaxEvents = 1
  ByteAlign = 4
  SrcAlign = 2
  BuffSize = 8
  BlockMax = 12
  MainEnd = 36
  RegionStart <- Starts
  RwPermission = 2
  NoCall = NoCall
SPECIFICATION MCSpec
INVARIANTS
  BufferSafe
  RxInOrder
  
  CopyComplete
  
PROPERTIES
  
  TxUnstalls
CHECK_DEADLOCK FALSE
