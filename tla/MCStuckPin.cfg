\* An output pin that pin_io_cleanup cannot clear.
SPECIFICATION Spec
INVARIANT StuckPinReported
CHECK_DEADLOCK FALSE
