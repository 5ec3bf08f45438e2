CONSTANTS
  Messages = {m1}
  Fault = fault
  Breaks = {"closed", "silent"}
  Pinging = FALSE
SPECIFICATION FairSpec
PROPERTIES
  WrittenIsReceived
  EndOfStreamEndsLoops
CHECK_DEADLOCK FALSE
