CONSTANTS
  bad = bad
  Bad <- bad
  HdrLen <- MCHdrLen
  TxChains <- MCTxChainsNoTrailingZero
  RxRings <- MCRxRings
SPECIFICATION Spec
INVARIANT TransferTypeOK
INVARIANT RingRestored
INVARIANT DeliveredComplete
PROPERTY ImplementsAtomic
CHECK_DEADLOCK FALSE
