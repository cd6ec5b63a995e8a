SPECIFICATION Spec
CONSTANTS
  AddrBits = 16
  Configs <- PadConfigs
  Copies = {}
  Threshold = 1
  ReInit = FALSE
INVARIANT StartedAsAsked
