SPECIFICATION Spec
CONSTANTS
  Bytes = {1}
  Masks = {0, 1}
  Kinds = {"CONOUT", "HLT"}
  MaxSteps = 3
  Interval = 1
  Slots = 3
  LogCap = 2
  LoadSlots = 2
  QueueCap = 2
  Budgets = {1, 3}
  MaxInputs = 2
  Habits = {}
  MaxSeeks = 2
  MaxTicks = 3
  TickMod = 16
INVARIANTS OutputDelivered
CHECK_DEADLOCK FALSE
