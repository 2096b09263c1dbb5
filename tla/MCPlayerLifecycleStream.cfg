SPECIFICATION Spec
CONSTANTS
  MediaBound <- TwoAndOne
  MediaTotal = 2
INVARIANTS ParsesWithDepacketizer
CHECK_DEADLOCK FALSE
