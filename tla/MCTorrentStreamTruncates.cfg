SPECIFICATION Spec
CONSTANTS
  Torrents <- SmallTorrents
  Writers = {w1}
  Nobody = Nobody
  Beyond = 0
  MaxBlock = 1
  MaxStray = 0
  MaxWrites = 2
  MaxFailures = 0
INVARIANT WrittenStays
