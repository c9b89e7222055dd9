SPECIFICATION Spec
CONSTANTS
  Length = 3
  Backing = 4
  BankBase = 1
  BankEnd = 1
  PageSize = 2
  Tapes = 2
  Programs <- MCPrograms
  Interval = 2
  TraceCap = 3
  Budgets = {1, 3}
  Breaks = TRUE
  MaxSeeks = 2
  MaxTicks = 3
  StampMod = 16
INVARIANTS TypeOK AgesReal CellsCounted DirtyFaithful TraceHonest FaultStands
CHECK_DEADLOCK FALSE
