SPECIFICATION Spec
CONSTANTS
  i1 = i1
  i2 = i2
  t1 = t1
  t2 = t2
  Invocations <- TwoInvocations
  Timers <- TwoTimers
  Intervals <- OnlyOne
  MaxAge = 2
  NoTimer = NoTimer
INVARIANTS Inv InvokeOrder
