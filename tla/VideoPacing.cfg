SPECIFICATION PacingSpec
CONSTANTS
  RTP_VIDEO_CLOCK = 90
  U32 = 1048576
  PtsSteps = {3, 6, 7, 90}
  PollSteps = {22}
  MaxShown = 6
INVARIANTS DriftBounded
CHECK_DEADLOCK FALSE
