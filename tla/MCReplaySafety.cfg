SPECIFICATION FairSpec
CONSTANTS
  Bytes = {1}
  Masks = {0, 1}
  Kinds = {"CONIN", "KEYS", "CONOUT", "HLT"}
  MaxSteps = 3
  Interval = 1
  Slots = 2
  LogCap = 1
  LoadSlots = 1
  QueueCap = 2
  Budgets = {2}
  MaxInputs = 2
  Habits = {}
  MaxSeeks = 2
  MaxTicks = 3
  TickMod = 16
INVARIANTS TypeOK TimelineFidelity FailedSeekHarmless OutputReal AnchorKept
PROPERTIES CallsReturn
CHECK_DEADLOCK FALSE
