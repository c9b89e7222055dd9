SPECIFICATION Spec
CONSTANTS
  DiskCount = 1
  Names = {"X", "Y"}
  Data = {0, 1, 2}
  DirSize = 2
  BlockCount = 3
  EntryBlocks = 2
  Units = 2
  HandleCount = 2
  FileContents <- MCContents
  ReadSizes = {1}
  SectorData = {2}
  Delivered <- MCDelivered
  TornAt = {1}
  LastHandle = FALSE
  MaxCalls = 5
INVARIANTS TypeOK DirectorySound HandlesLive CleanIsStored
PROPERTIES StoreSpec
CHECK_DEADLOCK FALSE
