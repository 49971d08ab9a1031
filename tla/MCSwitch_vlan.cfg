CONSTANTS
  pa1 = pa1
  pt = pt
  pn = pn
  pn2 = pn2
  pm = pm
  ma = ma
  mb = mb
  Monitor = pm
  NoPort = NoPort
  Bcast = Bcast
  UnknownMac = UnknownMac
  NoTag = NoTag
  NATIVE <- MCNative
  TRUNK <- MCTrunk
  Ports <- VlanPortsA
  VlanId <- VlanIdA
  TrunkIds <- TrunkIdsA
  PortMac <- NoMacs
  Frames <- FramesA
  Macs = {ma, mb}
  MaxPorts = 2
  Size = 2
  MaxSends = 3
  RxBufs = 1
  ShortRx = {pm}

SPECIFICATION Spec
CHECK_DEADLOCK FALSE

INVARIANT SwitchTypeOK
INVARIANT VlanIsolation
INVARIANT TagDiscipline
