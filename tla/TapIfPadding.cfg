\* The smallest driver that can send a frame.
SPECIFICATION Spec
CONSTANTS
  Pbufs = {b1}
  NoPbuf = NoPbuf
  TxBufs = {o1}
  MboxSize = 1
  MaxFrames = 1
  MaxSignals = 2
INVARIANTS
  PaddingReclaimed
