CONSTANTS
  bad = bad
  Bad <- bad
  HdrLen <- MCHdrLen
  TxChains <- MCTxChains
  RxRings <- MCRxRingsHdrFits
SPECIFICATION Spec
INVARIANT FinishAsserts
CHECK_DEADLOCK FALSE
