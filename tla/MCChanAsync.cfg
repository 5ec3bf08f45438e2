CONSTANTS
  Senders = {s1, s2}
  Receivers = {r1, r2}
  Closers = {c1}
  NoThread = NoThread
  SendLimit = 2
  RecvLimit = 2
  WaiterCapacity = 2
  PromiseCapacity = 2
  Outcomes = {"ok", "cancelled", "thrown"}
SYMMETRY ThreadSymmetry
SPECIFICATION Spec
INVARIANTS TypeOK QueuesDisjoint MatchedOnce SendTellsFate PairOrder ClosedEmpty
PROPERTIES WaitersOnlyLeave TasksSettleOnce ImplementsFifo
CHECK_DEADLOCK FALSE
