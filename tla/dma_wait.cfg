SPECIFICATION FairSpec
CONSTANTS
  N = 2
  HpIndex = 0
  Limited = TRUE
  NumHp = 1
  Trans <- MCTrans
  NoTrans = NoTrans
  Mixed = FALSE
PROPERTY LaunchWaits
CHECK_DEADLOCK FALSE
