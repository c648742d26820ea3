\* A handler dies after saving its decision: the redelivery decides again.
SPECIFICATION Spec
CONSTANTS
  a1 = a1  k1 = k1  m1 = m1  n1 = n1  c1 = c1  w1 = w1  w2 = w2
  NoMessage = NoMessage
  NoReason = NoReason
  NoRequest = NoRequest
  Identifiers = {a1, k1}
  Assessments = {a1}
  Messages = {m1}
  Commands = {}
  KillSwitchMessages = {}
  WellFormed = {m1}
  IdentifierOf <- Identifies
  ComplianceCodes = {"COMPLIANCE_RESTRICTED_SYMBOL"}
  MaxToggles = 0
  MaxDeliveries = 2
  Workers = {w1, w2}
  Faults = {"crash"}
SYMMETRY WorkerSymmetry
CHECK_DEADLOCK FALSE
PROPERTIES
  DecisionIsFinal
