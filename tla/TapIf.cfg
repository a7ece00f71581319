\* Fewer buffers than frames, and room for one frame in the stack.
SPECIFICATION Spec
CONSTANTS
  Pbufs = {b1, b2}
  NoPbuf = NoPbuf
  TxBufs = {o1}
  MboxSize = 1
  MaxFrames = 3
  MaxSignals = 3
INVARIANTS
  TypeOK
  PbufsAccounted
  NoLostWakeup
PROPERTIES
  FramesRead
