CONSTANTS
  Senders = {s1}
  Receivers = {r1}
  Closers = {c1}
  NoThread = NoThread
  SendLimit = 1
  RecvLimit = 1
  WaiterCapacity = 1
  PromiseCapacity = 1
  Outcomes = {"ok"}
SPECIFICATION FairSpec
PROPERTY LateCallsCancelled
CHECK_DEADLOCK FALSE
