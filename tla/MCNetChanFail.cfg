CONSTANTS
  Messages = {m1, m2}
  Fault = fault
  Breaks = {}
  Pinging = FALSE
SPECIFICATION FairSpec
PROPERTY AllSendersFail
CHECK_DEADLOCK FALSE
