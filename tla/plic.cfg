SPECIFICATION FairSpec
CONSTANTS
  TxDepth = 2
  RxDepth = 2
  CmdDepth = 2
  Fic = FALSE
  Txns <- ReadTxns
  Garbage <- AnySegment
  TxWms = {1}
  RxWms = {1}
  Timeouts = TRUE
  Resets = TRUE
  Errors = FALSE
  Relaunch = TRUE
INVARIANT EventReachesCore
PROPERTY WaitEnds
CHECK_DEADLOCK FALSE
