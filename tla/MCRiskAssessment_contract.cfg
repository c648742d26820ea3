\* A push and a command about one order, dying and losing what they write, and a
\* kill switch message beside.
SPECIFICATION FairSpec
CONSTANTS
  a1 = a1  k1 = k1  m1 = m1  n1 = n1  c1 = c1  w1 = w1  w2 = w2
  NoMessage = NoMessage
  NoReason = NoReason
  NoRequest = NoRequest
  Identifiers = {a1, k1}
  Assessments = {a1}
  Messages = {m1, n1}
  Commands = {c1}
  KillSwitchMessages = {n1}
  WellFormed = {m1, n1, c1}
  IdentifierOf <- Identifies
  ComplianceCodes = {}
  MaxToggles = 0
  MaxDeliveries = 2
  Workers = {w1, w2}
  Faults = {"redeliver", "crash", "persistLost", "publishLost"}
CHECK_DEADLOCK FALSE
PROPERTIES
  EventuallyAnnounced
  ContractSpec
