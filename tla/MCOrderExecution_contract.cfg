\* Several orders, some of them exposed: the contract holds, and all is resolved.
SPECIFICATION FairSpec
CONSTANTS
  o1 = o1  o2 = o2  o3 = o3  m1 = m1  m2 = m2  m3 = m3  w1 = w1  w2 = w2
  Orders = {o1, o2, o3}
  Messages = {m1, m2, m3}
  Workers = {w1, w2}
  OrderOf <- OneApprovalEach
  WellFormed = {m1, m2}
  NoMessage = NoMessage
  NoReason = NoReason
  ReasonCodes = {"EXECUTION_BROKER_TIMEOUT", "EXECUTION_MARKET_CLOSED"}
  MaxDeliveries = 2
  MaxAttempts = 3
  MaxRetries = 1
  Faults = {"redeliver", "crash", "lostAnswer"}
CHECK_DEADLOCK FALSE
PROPERTIES
  ContractSpec
  EventuallyResolved
