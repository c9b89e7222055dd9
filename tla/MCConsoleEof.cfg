SPECIFICATION Spec
CONSTANTS
  Hosts = {"RAW", "COOKED"}
  PushCap = 1
  TtyCap = 1
  HoldMs = 2
  TimeMod = 16
  Starts = {0, 13}
  MaxMs = 3
  MaxTyped = 2
  MaxPushes = 2
  HangsUp = TRUE
  BiosCap = 2
  ApiCap = 3
  Printers <- MCPrinters
  Interval = 2
  MaxCalls = 4
INVARIANTS EofLast
CHECK_DEADLOCK FALSE
