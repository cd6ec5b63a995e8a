SPECIFICATION FairSpec
CONSTANTS
  TxDepth = 2
  RxDepth = 2
  CmdDepth = 2
  Fic = TRUE
  Txns <- PreTxns
  Garbage <- AnySegment
  TxWms = {1, 2}
  RxWms = {1, 2}
  Timeouts = TRUE
  Resets = TRUE
  Errors = TRUE
  Relaunch = FALSE
INVARIANT TypeOK
INVARIANT ScntInBounds
INVARIANT NothingLeftOver
INVARIANT BusyHasTransaction
INVARIANT NoWordLost
INVARIANT DoneMeansTransferred
INVARIANT SdkInv
PROPERTY Implements
PROPERTY TransferEnds
PROPERTY WaitEnds
PROPERTY NotStarved
