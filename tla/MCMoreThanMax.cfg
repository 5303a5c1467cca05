CONSTANTS
  MAX_BREAKS_PER_SECOND = 3
  BILLION = 3
  MaxAppends = 7
CONSTANT Times <- MCTimes
SPECIFICATION Spec
INVARIANT ViolationOnlyAboveMax
CHECK_DEADLOCK FALSE
