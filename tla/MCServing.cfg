SPECIFICATION PartsSpec
CONSTANTS
  Clients = {c1, c2, c3}
  Self = Self
  None = None
  MaxFailures = 2
  Subscribers = {1, 2}
  Senders = {s1, s2}
  MaxEvents = 2
  MaxHops = 3
INVARIANTS Inv EventsInv ClientInv
PROPERTIES RefusedOnlyAtEnd NobodyWaitsForEver DestructorEnds NobodyHeldUp RequestEnds
CHECK_DEADLOCK FALSE
