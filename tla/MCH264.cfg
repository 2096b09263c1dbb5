SPECIFICATION Spec
CONSTANTS
  Stream <- Packets
  MaxFrameSize = 34
  NoFrame = NoFrame
  MaxSyncs = 1
INVARIANTS TypeOK
PROPERTIES WholeFrames
CHECK_DEADLOCK FALSE
