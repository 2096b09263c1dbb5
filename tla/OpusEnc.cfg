SPECIFICATION EncSpec
CONSTANTS
  Frame = {f1, f2, f3}
  Null = Null
  FrameSamples = 6
  PerMs = 3
  Blocks = {1, 4, 5, 14}
  MaxCalls = 4
INVARIANTS EachFrameListed FramesInOrder NtpOfFirstSample
CHECK_DEADLOCK FALSE
