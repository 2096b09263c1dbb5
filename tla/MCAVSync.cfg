SPECIFICATION FairSpec
CONSTANTS
  RTP_VIDEO_CLOCK = 90
  U32 = 131072
  VideoFrame <- AnyOrder
  AudioFrame = {a1}
  NoFrame = NoFrame
  BufferingMs = 300
  TimerSteps = {500}
  AudioSteps = {500}
  MaxClock = 2500
INVARIANTS TypeOK RefsCountOwners BufferingHasVideo PacedByTimer
PROPERTIES OldestIsShown ResumesWhenFilled ImplementsPlayoutBuffer
CHECK_DEADLOCK FALSE
