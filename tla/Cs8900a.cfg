\* Fewer retries than in the code.
SPECIFICATION DriverSpec
CONSTANTS
  Frames = {f1, f2}
  NoFrame = NoFrame
  Retries = 1
  Chains <- MCChains
  FrameByte <- MCFrameByte
  InitSeq <- MCInitSeq
INVARIANTS
  DriverTypeOK
  FrameKept
  SpaceKept
  CyclesMatch
  StartConfigures
PROPERTIES
  EventKept
  OutputReturns
