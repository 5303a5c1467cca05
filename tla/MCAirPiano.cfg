\* Safety of both builds: three notes, so that the light moves in steps, and
\* one failing lock or pin call anywhere.
CONSTANTS
  NUM_NOTES = 3
  NOTE_DIST_MIN_CM = 5
  NOTE_DIST_MAX_CM = 61
  BEAM_ALIGNMENT_WARN_TICKS = 2
  Builds = {"bbb", "emu"}
  MaxFaults = 1
SPECIFICATION Spec
INVARIANTS TypeOK LedsFollowFailsafe AtMostOneLateNote QuietAfterExit
CHECK_DEADLOCK FALSE
