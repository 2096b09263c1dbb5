SPECIFICATION FairSpec
CONSTANTS
  MediaBound <- TwoAndOne
  MediaTotal = 2
INVARIANTS TypeOK RefsCountOwners ContextOutlivesFrames InUseExists ClockExists NothingLeft
PROPERTIES DestroyEnds
CHECK_DEADLOCK FALSE
