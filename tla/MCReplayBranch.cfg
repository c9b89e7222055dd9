SPECIFICATION Spec
CONSTANTS
  Bytes = {1, 2}
  Masks = {0, 1}
  Kinds = {"PLAIN", "CONIN"}
  MaxSteps = 3
  Interval = 1
  Slots = 5
  LogCap = 2
  LoadSlots = 2
  QueueCap = 2
  Budgets = {1, 3}
  MaxInputs = 2
  Habits = {"BRANCH"}
  MaxSeeks = 2
  MaxTicks = 3
  TickMod = 16
INVARIANTS TimelineFidelity
CHECK_DEADLOCK FALSE
