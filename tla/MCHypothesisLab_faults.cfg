\* A proposal, or a demo result, beside a demo result and a request of the BFF, with every fault.
SPECIFICATION Spec
CONSTANTS
  i1 = i1  i2 = i2  m1 = m1  m2 = m2  w1 = w1  w2 = w2  h1 = h1  h2 = h2  h3 = h3
  r1 = r1
  NoMessage = NoMessage
  NoHypothesis = NoHypothesis
  Identifiers = {i1, i2}
  Messages = {m1, m2}
  WellFormed = {m1, m2}
  IdentifierOf <- Identifies
  Hypotheses = {h1, h2, h3}
  InDemo = {h1}
  Requests = {r1}
  Grounds <- AllGrounds
  Cases <- SomeCases
  MaxDeliveries = 2
  Workers = {w1, w2}
  Faults = {"crash", "overlap", "redeliver", "readError", "persistLost", "publishLost", "lostAnswer", "overrun"}
SYMMETRY Symmetry
CHECK_DEADLOCK FALSE
INVARIANTS
  TypeOK
  AckedIsTold
  PromotedByTheRules
  OneVerdict
  OneHypothesisPerProposal
PROPERTIES
  ContractSpec

