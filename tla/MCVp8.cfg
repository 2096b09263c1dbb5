SPECIFICATION Spec
CONSTANTS
  Stream <- Untidy
  MaxFrameSize = 36
  NoFrame = NoFrame
  MaxSyncs = 1
INVARIANTS TypeOK WholeFrames
PROPERTIES SyncPointHonoured
CHECK_DEADLOCK FALSE
