\* A second is six periods, a note one.
SPECIFICATION Spec
CONSTANTS
  NUM_NOTES = 2
  period_ns <- MCPeriods
  duty_ns <- MCDuties
  MaxIoFaults = 2
  MAX_BREAKS_PER_SECOND = 3
  BILLION = 6
  BEAM_PERIOD_NS = 1
  BEAM_TICKS_PER_SEC = 2
  BEAM_ALIGNMENT_WARN_TICKS = 4
  UINT32 = 8
  note_duration = 1
  MaxLate = 1
  MaxTime = 17
  MaxBreaks = 4
INVARIANTS
  TypeOK
  HeldBeamWarned
  PollsPaced
  SoundedBreaksSpaced
  SilenceBehindViolation
  PlayKeepsItsWord
  SilentBetweenNotes
PROPERTY OneBreakPerHold
CHECK_DEADLOCK FALSE
