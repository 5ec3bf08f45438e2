CONSTANTS
  Messages = {m1}
  Fault = fault
  Breaks = {}
  Pinging = FALSE
SPECIFICATION FairSpec
PROPERTY CloseIsSent
CHECK_DEADLOCK FALSE
