SPECIFICATION FairBroadcaster
CONSTANTS
  MaxTx = 3
  MaxFee = 2
  NoNonce = NoNonce
  MaxInFlight = 2
  QueueSize = 1
  TxValue <- MCTxValue
  MaxStops = 1
  MaxReorgs = 1
  MaxNonce = 4
INVARIANTS
  BroadcasterTypeOK
  NextNonceIsFree
  SentIsSaved
  SentUnderOneNonce
  GapOnlyAfterLeftOver
  InFlightBounded
PROPERTIES
  ImplementsDelivery
  UnstartedLeaves
CHECK_DEADLOCK FALSE
