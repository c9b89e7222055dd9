SPECIFICATION FairSpec
CONSTANTS
  a = a
  nl = nl
  entry = entry
  elsewhere = elsewhere
  cell = cell
  Bytes <- MCBytes
  NL = nl
  PCs <- MCPCs
  Entry = entry
  Cells = {}
  MaxBps = 1
  BpChoices <- PcBps
  SnapInterval = 0
  Budgets = {2}
  MaxSteps = 2
  MaxHostOps = 3
  LoadsMidLine = FALSE
PROPERTIES
  MachineSpec
  CallReturns
  MachineProgress
