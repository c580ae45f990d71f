CONSTANTS
  Header = 4
  Windows = TRUE
  PageSize = 4
  ReserveSize = 16
  CommitSize = 4
  Sizes = {5, 15}
  Aligns = {1, 4}
  Pops = {}
  Width = 8
  MaxBlocks = 3
  MaxTemps = 2
  MaxLive = 3
SPECIFICATION Spec
INVARIANT RegionsUsable
CHECK_DEADLOCK FALSE
