\* One signal, published twice, with every fault.
SPECIFICATION Spec
CONSTANTS
  i1 = i1  m1 = m1  m2 = m2  w1 = w1  w2 = w2
  NoMessage = NoMessage
  Identifiers = {i1}
  Messages = {m1, m2}
  IdentifierOf <- Identifies
  MaxDeliveries = 2
  Workers = {w1, w2}
  Faults = {"crash", "overlap", "redeliver", "readError", "persistLost", "publishLost", "lostAnswer"}
SYMMETRY Symmetry
CHECK_DEADLOCK FALSE
INVARIANTS
  TypeOK
  OneOrderPerSignal
  AckedIsProposed
PROPERTIES
  ContractSpec
