SPECIFICATION Spec
CONSTANTS
  a = a
  nl = nl
  entry = entry
  elsewhere = elsewhere
  cell = cell
  Bytes <- MCBytes
  NL = nl
  PCs <- MCPCs
  Entry = entry
  Cells <- MCCells
  MaxBps = 1
  BpChoices <- Watchpoint
  SnapInterval = 2
  Budgets = {3}
  MaxSteps = 3
  MaxHostOps = 3
  LoadsMidLine = FALSE
PROPERTY WatchpointFires
