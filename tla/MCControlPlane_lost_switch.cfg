\* A start or stop request overlaps a change of the kill switch and undoes it.
SPECIFICATION Spec
CONSTANTS
  o1 = o1  r1 = r1  r2 = r2  r3 = r3
  Orders = {o1}
  InitialOrders <- SomeOrders
  Requests = {r1, r2}
  Faults = {"overlap"}
CHECK_DEADLOCK FALSE
PROPERTIES
  KillSwitchOnlyByRequest
