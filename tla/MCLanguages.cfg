SPECIFICATION Spec
CONSTANTS
  ByteMod = 8
  HalfMod = 4
  AddrMod = 1024
  Org = 64
  CellPage = 2
  Unbanked = 3
  CapPage = 4
  MaxCells = 30
  Chunk = 4
  DepthMax = 2
  CodeCap = 160
  BfSources <- MCBfSources
  BfConfigs <- MCBfConfigs
  Typed <- MCTyped
  MaxInstr = 700
  Fuel = 60
  MaxTapes = 4
  MaxStates = 4
  MaxSyms = 4
  MaxRules = 6
  InputMax = 3
  TmCap = 1267
  Blank0 = 1
  StepWord = 4
  Powers <- MCPowers
  Page = 4
  BankBase = 8
  FixedPages = 3
  RegionPages = 3
  FullPages = 16
  Texts <- MCTexts
  Machines <- MCMachines
  StepMax = 14
  AsmByte = 4
  IntMod = 64
  AsmOrg = 2
  OutMax = 9
  SymMax = 2
  AsmCap = 8
  HexNames <- MCHexNames
  AsmSources <- MCAsmSources
  Operands <- MCOperands
INVARIANTS BrainfuckRuns MachineRuns TwoPassesAgree CpuExact
CHECK_DEADLOCK FALSE
