\* Every fault at once: two approvals of one order, handlers overlapping.
SPECIFICATION Spec
CONSTANTS
  o1 = o1  o2 = o2  o3 = o3  m1 = m1  m2 = m2  m3 = m3  w1 = w1  w2 = w2
  Orders = {o1}
  Messages = {m1, m2}
  Workers = {w1, w2}
  OrderOf <- TwoApprovals
  WellFormed = {m1, m2}
  NoMessage = NoMessage
  NoReason = NoReason
  ReasonCodes = {"EXECUTION_BROKER_TIMEOUT", "EXECUTION_MARKET_CLOSED"}
  MaxDeliveries = 2
  MaxAttempts = 3
  MaxRetries = 0
  Faults = {"crash", "overlap", "redeliver", "readError", "persistLost", "publishLost", "lostAnswer"}
SYMMETRY WorkerSymmetry
CHECK_DEADLOCK FALSE
INVARIANTS
  TypeOK
  ResultIsTheBrokers
  AckedIsSettled
  PlacedOnce
  SavedThenReported
PROPERTIES
  ContractSpec
