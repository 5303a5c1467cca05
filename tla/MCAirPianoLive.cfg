\* Liveness of both builds: two notes, no failing call.
CONSTANTS
  NUM_NOTES = 2
  NOTE_DIST_MIN_CM = 5
  NOTE_DIST_MAX_CM = 61
  BEAM_ALIGNMENT_WARN_TICKS = 2
  Builds = {"bbb", "emu"}
  MaxFaults = 0
SPECIFICATION FairSpec
PROPERTIES SafeStateReached DisplayConverges AlarmReasserted StopEndsThreads
  QuitEndsProgram
CHECK_DEADLOCK FALSE
