CONSTANTS
  Items = {a, b}
  NoItem = none
  RequestedSizes <- MCRequestedSizes
  MaxItems = 4
  Capacity = 3
  Gens = 3
  Areas = {"a", "b"}
  Tiles = {"t"}
  Options = {0, 1}
  MaxFramesInFlight = 2
  Images = {1, 2, 3}
  NodesPerList = 2
  LoadedSets = {{}, {"car", "building", "texture"}, {"tile", "road", "texture", "building", "car"}}
  Shift = 0
  Zero = 0
  Thieves = {"s", "t"}
  MaxPushes = 3
  MaxPops = 2
  Keys = {1, 2, 3}
  MaxHeap = 6
  TileIds = {"t", "u"}
  RasterIds = {"r"}
  Inputs = {"a", "b"}
  Ttl = 1
  MaxTime = 4
  LongAnswers = {"a"}
  LongHashes = {"b"}
  Parts = 2
  MaxMessages = 3
  MaxReads = 3
  MaxPoolItems = 3
  MaxGen = 3
  Capabilities <- MCCapabilities
  ExtraImages = 1
  Machines <- MCMachines
  Validation = TRUE
  Required <- NeededExtensions
  FramebufferDims = {1, 3, 9}
  Header = 4
  Windows = TRUE
  PageSize = 4
  ReserveSize = 16
  CommitSize = 4
  Sizes = {6, 28}
  Aligns = {1, 4}
  Pops = {6}
  Width = 7
  MaxBlocks = 3
  MaxTemps = 2
  MaxLive = 2
  BlockSize = 24
  ObjectSizes = {2, 5}
  ObjectAligns = {1}
  Stride = 2
  MaxObjects = 3
  ChunkCapacity = 2
  MapKeys = {1, 3, 4}
  TableSize = 2
  MaxInserted = 5
  ArraySlots = {1, 2}
  Types <- MCTypes
  NodeSize = 8
  MinIdx = 4
  MaxIdx = 8
  Counts = {1, 7}
  MaxNodes = 3
  MaxLength = 8
SPECIFICATION ComponentsSpec
INVARIANTS
  RingInv
  HandlesExact
  EachValueTakenOnce
  HeapIsASet
  ArenaSound
  DestructorsSound
  OwnersExact
  NodesOwnedOnce
  ContainersExact
  BuildsSeeFinishedData
  OverlayFollowsOption
  ResourcesReleasedOnce
  MetaVouchesForData
  ReadsWholeMessages
  FramesSound
  DeviceFits
  CityContentSound
  ConversionsSound
PROPERTY ImplementsFifo
CHECK_DEADLOCK FALSE
