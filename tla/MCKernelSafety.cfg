SPECIFICATION Spec
CONSTANTS
  a = a
  nl = nl
  entry = entry
  elsewhere = elsewhere
  cell = cell
  Bytes <- MCBytes
  NL = nl
  PCs <- MCPCs
  Entry = entry
  Cells <- MCCells
  MaxBps = 1
  BpChoices <- MCBpChoices
  SnapInterval = 2
  Budgets = {1, 3}
  MaxSteps = 3
  MaxHostOps = 2
  LoadsMidLine = TRUE
INVARIANTS
  TypeOK
  FlowConserved
  CallLatched
  HaltReasoned
  SnapshotBound
  StopTruthful
  BreakpointReported
  MetaFresh
