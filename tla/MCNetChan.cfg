CONSTANTS
  Messages = {m1, m2}
  Fault = fault
  Breaks = {"closed", "silent"}
  Pinging = TRUE
SYMMETRY MessageSymmetry
SPECIFICATION Spec
INVARIANTS
  TypeOK
  NoHoles
  NothingMissing
  CloseIsComplete
  SendTaskIsTrue
  ClosedSenderIsDrained
PROPERTIES
  PingLoopIsFair
CHECK_DEADLOCK FALSE
