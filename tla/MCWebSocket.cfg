SPECIFICATION Spec
CONSTANTS
  Fragments = {2}
  MaxCalls <- ServerOnce
  Echo = {"server"}
PROPERTY SessionEnds
CHECK_DEADLOCK FALSE
