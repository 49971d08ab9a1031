CONSTANTS
  pa1 = pa1
  pt = pt
  pn = pn
  pn2 = pn2
  pm = pm
  ma = ma
  mb = mb
  Monitor = pm
  NoPort = NoPort
  Bcast = Bcast
  UnknownMac = UnknownMac
  NoTag = NoTag
  NATIVE <- MCNative
  TRUNK <- MCTrunk
  Ports <- NativePortsB
  VlanId <- VlanIdB
  TrunkIds <- TrunkIdsB
  PortMac <- SharedMacB
  Frames <- FramesB
  Macs = {ma, mb}
  MaxPorts = 2
  Size = 2
  MaxSends = 2
  RxBufs = 1
  ShortRx = {}

SPECIFICATION Spec
CHECK_DEADLOCK FALSE

INVARIANT SlotsConsistent
INVARIANT MacTableRefIntegrity
INVARIANT SelfLoopFree
PROPERTY TxDrained
