CONSTANTS
  Senders = {s1, s2}
  Receivers = {r1}
  Closers = {c1, c2}
  NoThread = NoThread
  SendLimit = 1
  RecvLimit = 2
  WaiterCapacity = 2
  PromiseCapacity = 2
  Outcomes = {"ok", "failed", "cancelled", "thrown"}
SPECIFICATION FairSpec
PROPERTIES CallsReturn DeliveryDecidesSend CloseCompletes LateSendDecided
CHECK_DEADLOCK FALSE
