SPECIFICATION ConfirmerSpec
CONSTANTS
  MaxTx = 2
  MaxFee = 2
  NoNonce = NoNonce
  FinalityDepth = 2
  BumpThreshold = 1
  MinConfirmations = 1
  BatchSize = 1
  MaxHeight = 4
  MaxForks = 1
INVARIANTS
  ConfirmerTypeOK
  SettledInChain
  
  ConfirmedHasReceipt
PROPERTIES
  GivenUpOnEvidence
CHECK_DEADLOCK FALSE
