SPECIFICATION FairSpec
CONSTANTS
  W = 2
  Page = 4
  Sector = 8
  Block32 = 16
  Block64 = 32
  Size = 32
  TxDepth = 5
  RxDepth = 4
  CmdDepth = 2
  RxDmaThreshold = 5
  Memories <- MCMemories
  Requests <- ShortRequests
  MaxEvents = 1
PROPERTY CallsReturn
CHECK_DEADLOCK FALSE
