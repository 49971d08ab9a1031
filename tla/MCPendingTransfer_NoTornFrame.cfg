CONSTANTS
  RingSize = 3
  MaxChains = 2
  MaxFrames = 3
SPECIFICATION PtSpec
INVARIANT NoTornFrame



CHECK_DEADLOCK FALSE
