CONSTANTS
  bad = bad
  Bad <- bad
  HdrLen <- MCHdrLen
  TxChains <- MCTxChainsNoTrailingZero
  RxRings <- MCRxRings
SPECIFICATION Spec
INVARIANT NoLostChain
CHECK_DEADLOCK FALSE
