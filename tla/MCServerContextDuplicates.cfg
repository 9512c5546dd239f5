SPECIFICATION Spec
CONSTANTS
  Requests <- MCRequests
  Lengths <- MCLengths
  TextSizes = {0, 3}
  Sources <- MCSources
  Kinds = {"pass", "stop", "forbid", "answer", "throw"}
  PageSize = 5
  MaxCalls = 3
INVARIANT DuplicatesRefused
