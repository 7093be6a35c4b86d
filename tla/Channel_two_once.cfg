\* Two runOnce handlers share the channel with a stream.
SPECIFICATION Spec
CONSTANTS
  Handler = {o1, o2, s1}
  RunOnce = {o1, o2}
  Message = {m1, m2}
  Waiter = {w1}
  None = None
INVARIANTS
  StreamKeepsTicking
