\* Three requests about one order and the runtime, overlapping and failing.
SPECIFICATION Spec
CONSTANTS
  o1 = o1  r1 = r1  r2 = r2  r3 = r3
  Orders = {o1}
  InitialOrders <- SomeOrders
  Requests = {r1, r2, r3}
  Faults = {"overlap", "crash", "readError", "writeError", "lostAnswer", "publishLost"}
SYMMETRY RequestSymmetry
CHECK_DEADLOCK FALSE
INVARIANTS
  TypeOK
  AnnouncedWasWritten
  SuccessIsDone
  SwitchAsAnnounced
PROPERTIES
  KillSwitchHalts
  StatusFollowsDesign
