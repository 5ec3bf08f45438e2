CONSTANTS
  Senders = {s1}
  Receivers = {r1}
  Closers = {c1}
  NoThread = NoThread
  SendLimit = 2
  RecvLimit = 1
  WaiterCapacity = 1
  PromiseCapacity = 1
  Outcomes = {"ok"}
SPECIFICATION FairSpec
PROPERTY ReceiveReachesWaiters
CHECK_DEADLOCK FALSE
