SPECIFICATION FairSpec
CONSTANTS
  Sent <- Datagrams
  PayloadType = 96
  MaxWaiting = 2
INVARIANTS TypeOK OneRead InUseExists FramesOwned
PROPERTIES AllRead TearEnds
CHECK_DEADLOCK FALSE
