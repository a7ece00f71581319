SPECIFICATION Spec
CONSTANTS
  Macs = {c1, c2, c3, c4}
  freeMac = freeMac
  MAX_LEASES = 2
  OctetMod = 16
  BaseOctet = 5
  NoAddr = NoAddr
  Pcbs = {u1, u2}
  NoPcb = NoPcb
  MaxQueue = 1
SYMMETRY Symmetry
INVARIANTS
  TypeOK
  PcbExact
  SharedOnlyByRestart
  
  ArpAgrees
PROPERTY
  PoolSpec
