SPECIFICATION Spec
CONSTANTS
  AddrBits = 16
  Configs <- MCConfigs
  Copies <- MCCopies
  Threshold = 1
  ReInit = TRUE
INVARIANT TypeOK
INVARIANT StartedAsAsked
INVARIANT InsideEnvironment
INVARIANT AcceptedStaysAccepted
