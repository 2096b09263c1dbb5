SPECIFICATION Spec
CONSTANTS
  U32 = 1048576
  BlockMs = 20
  AudioFrame <- Frames
  NoFrame = NoFrame
  Jumps <- Lost
  MaxFrames = 3
  MaxResets = 1
  ImageSize = {s1, s2}
  NoSize = NoSize
  MaxImages = 5
INVARIANTS AudioTypeOK PlayedInOrder NothingPlaysBetweenFrames ClockFollowsStream OneContext DrawnWhole
PROPERTIES StopReturns
CHECK_DEADLOCK FALSE
