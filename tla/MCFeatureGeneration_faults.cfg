\* One event, pushed, overlapping, dying and failing at every request.
SPECIFICATION FairSpec
CONSTANTS
  i1 = i1  m1 = m1  m2 = m2  w1 = w1  w2 = w2
  NoMessage = NoMessage
  NoEvent = NoEvent
  Identifiers = {i1}
  Messages = {m1}
  WellFormed = {m1}
  IdentifierOf <- Identifies
  InsightDays = {0, 1}
  MaxDeliveries = 3
  Workers = {w1, w2}
  Faults = {"crash", "overlap", "redeliver", "readError", "persistLost", "publishLost", "lostAnswer", "overrun"}
CHECK_DEADLOCK FALSE
INVARIANTS
  TypeOK
  AckedIsPublished
  NeverMarkedUnpublished
  ExclusiveUnlessDisturbed
PROPERTIES
  EventuallyPublished
  ContractSpec
