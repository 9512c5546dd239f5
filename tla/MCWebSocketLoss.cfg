SPECIFICATION Spec
CONSTANTS
  Fragments = {1}
  MaxCalls <- ServerOnce
  Echo = {"server"}
INVARIANT LossIsTold
CHECK_DEADLOCK FALSE
