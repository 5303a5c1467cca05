\* 3 slots, a window of 3 clock units, up to 7 appends: the ring wraps twice.
CONSTANTS
  MAX_BREAKS_PER_SECOND = 3
  BILLION = 3
  MaxAppends = 7
CONSTANT Times <- MCTimes
SPECIFICATION Spec
INVARIANTS TypeOK RingHoldsLatestBreaks
PROPERTY ImplementsWindow
CHECK_DEADLOCK FALSE
