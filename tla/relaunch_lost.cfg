SPECIFICATION Spec
CONSTANTS
  TxDepth = 2
  RxDepth = 2
  CmdDepth = 2
  Fic = TRUE
  Txns <- SmallTxns
  Garbage <- AnySegment
  TxWms = {1, 2}
  RxWms = {1, 2}
  Timeouts = FALSE
  Resets = FALSE
  Errors = FALSE
  Relaunch = TRUE
INVARIANT BusyHasTransaction
