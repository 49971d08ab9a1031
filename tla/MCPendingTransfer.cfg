CONSTANTS
  RingSize = 3
  MaxChains = 2
  MaxFrames = 3
SPECIFICATION PtSpec
INVARIANT PtTypeOK
INVARIANT ChainsConserved
INVARIANT AtMostOnce
CHECK_DEADLOCK FALSE
