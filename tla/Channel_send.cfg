SPECIFICATION FairSpec
CONSTANTS
  Handler = {o1, s1}
  RunOnce = {o1}
  Message = {m1, m2}
  Waiter = {w1}
  None = None
INVARIANTS
  TypeOK
  WaitGroupCounts
  EveryHandlerFired
  ExpiredNotFired
  StreamKeepsTicking
PROPERTIES
  WaitCoversDeliveries
  NoStartAfterLeaving
  EveryHandlerCalled
