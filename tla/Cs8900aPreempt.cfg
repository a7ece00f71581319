\* One frame and one retry are enough for the threads to meet.
SPECIFICATION Spec
CONSTANTS
  Frames = {f1}
  NoFrame = NoFrame
  Retries = 1
INVARIANTS
  FrameThere
