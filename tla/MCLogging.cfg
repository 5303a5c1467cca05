SPECIFICATION FairSpec
CONSTANTS
  MAX_MESSAGES = 1
  MAX_LOG_ENTRIES = 2
  MaxLogs = 4
  MaxFaults = 1
INVARIANTS TypeOK LossIsRecorded LogsBeforeStopPrinted
PROPERTIES ImplementsLossyLog EveryLogGetsOut
CHECK_DEADLOCK FALSE
