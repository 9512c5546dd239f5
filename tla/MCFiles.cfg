SPECIFICATION PartsSpec
CONSTANTS
  a = a
  b = b
  F = F
  G = G
  Names <- MCNames
  Mountable <- MCMountable
  Root = Root
  None = None
  Torrents <- MCTorrents
  Writers = {w1, w2}
  Beyond = 1
  MaxBlock = 2
  MaxStray = 1
  MaxWrites = 2
  MaxFailures = 1
  MaxDepth = 2
  MaxEntries = 2
SYMMETRY Symmetry
INVARIANTS Inv Listings BlocksInPlace LocksGivenBack
PROPERTY HiddenUntouched
