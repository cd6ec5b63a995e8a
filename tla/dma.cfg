SPECIFICATION FairSpec
CONSTANTS
  N = 2
  HpIndex = 0
  Limited = TRUE
  NumHp = 1
  Trans <- MCTrans
  NoTrans = NoTrans
  Mixed = FALSE
INVARIANT TypeOK
INVARIANT FlagsCanBeAcknowledged
INVARIANT FlagIsFresh
PROPERTY EveryChannelServiced
PROPERTY CallsReturn
CHECK_DEADLOCK FALSE
