SPECIFICATION PartsSpec
CONSTANTS
  NumObjects = 3
  Nobody = Nobody
  Invocations = {i1, i2}
  Timers = {t1}
  MaxCalls = 5
INVARIANTS NoUseAfterFree CallsOwnFunction OneValue
PROPERTIES ConstructorEnds CallsReturn InvokedRuns StopEndsLoop TimerKeepsFiring
CHECK_DEADLOCK FALSE
