SPECIFICATION Spec
CONSTANTS
  MAX_MESSAGES = 1
  MAX_LOG_ENTRIES = 2
  MaxLogs = 2
  MaxFaults = 0
INVARIANT FinalLogsPrinted
CHECK_DEADLOCK FALSE
