SPECIFICATION FairSpec
CONSTANTS
  m1 = m1
  m2 = m2
  m3 = m3
  stats = stats
  qos = qos
  Module = {m1, m2, m3}
  Counted = {m1, m2}
  EventType = {stats, qos}
  EvtMask <- Masks
  MaxEvents = 3
INVARIANTS BusTypeOK RecipientsExist
PROPERTIES EventsDispatched BusEnds
CHECK_DEADLOCK FALSE
