CONSTANTS
  a = a
  b = b
  c = c
  p1 = p1
  p2 = p2
  NoPort = NoPort
  UnknownMac = UnknownMac
  Macs <- MCMacs
  PortIds <- MCPorts
  Size <- MCSize

INIT MtInit
NEXT MtNext

PROPERTY NoEvictionBelowCapacity
