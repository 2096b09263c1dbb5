SPECIFICATION Spec
CONSTANTS
  MediaBound <- TwoAndOne
  MediaTotal = 2
INVARIANTS SyncIsTested
CHECK_DEADLOCK FALSE
