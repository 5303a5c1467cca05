CONSTANTS
  NUM_NOTES = 2
  NOTE_DIST_MIN_CM = 5
  NOTE_DIST_MAX_CM = 61
  BEAM_ALIGNMENT_WARN_TICKS = 2
  Builds = {"bbb"}
  MaxFaults = 0
SPECIFICATION Spec
PROPERTY NoNoteStartsInSafeState
CHECK_DEADLOCK FALSE
