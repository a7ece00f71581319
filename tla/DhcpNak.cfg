SPECIFICATION Spec
CONSTANTS
  Macs = {c1, c2, c3}
  freeMac = freeMac
  MAX_LEASES = 3
  OctetMod = 16
  BaseOctet = 5
  NoAddr = NoAddr
  Pcbs = {u1, u2}
  NoPcb = NoPcb
  MaxQueue = 2
INVARIANT
  NakMeansNotFree
