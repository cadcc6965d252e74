CONSTANTS
  Size = 35
  MaxAllocs = 5
  NUM_TOP_BINS = 4
  RequestSizes = {0, 7, 17}
SPECIFICATION Spec
VIEW View
INVARIANTS
  TypeOK
  NodesAccounted
  NeighborsChained
  StorageAccounted
  Coalesced
  BinListsLinked
  FitFound
  ReportAllocatable
PROPERTY ImplementsRegions
