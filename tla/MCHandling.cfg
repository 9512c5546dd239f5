SPECIFICATION PartsSpec
CONSTANTS
  Requests <- MCRequests
  Lengths <- MCLengths
  TextSizes = {0, 3}
  Sources <- MCSources
  Kinds = {"pass", "stop", "forbid", "answer", "throw"}
  PageSize = 5
  MaxCalls = 3
  Clients = {1}
  Targets <- MCTargets
  Points <- MCPoints
  Servers <- MCServers
  Root = s1
  MaxChanges = 3
  s1 = s1
  s2 = s2
  Mounts = Mounts
  None = None
  Fragments = {2}
  SessionCalls <- MCSessionCalls
  Echo = {"server"}
INVARIANTS Inv InterceptorsInOrder Answered PartialIsExact RightServer SessionInv
