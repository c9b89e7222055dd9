SPECIFICATION Spec
CONSTANTS
  DiskCount = 1
  Names = {"X", "Y"}
  Data = {0, 1, 2}
  DirSize = 2
  BlockCount = 3
  EntryBlocks = 2
  Units = 2
  HandleCount = 1
  FileContents <- FewContents
  ReadSizes = {1}
  SectorData = {2}
  Delivered <- MCDelivered
  TornAt = {1}
  LastHandle = TRUE
  MaxCalls = 4
PROPERTIES FailedPutHarmless
CHECK_DEADLOCK FALSE
