---- MODULE Notes ----
(***************************************************************************)
(* The notes of notes.h and the distances that select them.  The code      *)
(* computes in floats; here a distance is a whole number of any unit, and  *)
(* the conversion to int32_t rounds down, as it is of no negative number.  *)
(***************************************************************************)
EXTENDS Integers

CONSTANTS NUM_NOTES,  \* notes, and LEDs
          NOTE_DIST_MIN_CM, NOTE_DIST_MAX_CM

ASSUME NotesAssumption ==
  /\ NUM_NOTES \in Nat \ {0}
  /\ NOTE_DIST_MIN_CM \in Int /\ NOTE_DIST_MAX_CM \in Int
  /\ NOTE_DIST_MIN_CM < NOTE_DIST_MAX_CM

Notes == 0..(NUM_NOTES - 1)
C4_INDEX == 0
NOTE_INDEX_MAX_INCL == NUM_NOTES - 1
INVALID_NOTE_INDEX == NUM_NOTES

note_is_valid(n) == n \in Notes

range == NOTE_DIST_MAX_CM - NOTE_DIST_MIN_CM

clamped(dist_cm) ==
  IF dist_cm < NOTE_DIST_MIN_CM THEN NOTE_DIST_MIN_CM
  ELSE IF dist_cm > NOTE_DIST_MAX_CM THEN NOTE_DIST_MAX_CM
  ELSE dist_cm

(* The upper end of the range would be one note too many.                  *)
note_from_distance_cm(dist_cm) ==
  LET index == ((clamped(dist_cm) - NOTE_DIST_MIN_CM) * NUM_NOTES) \div range
  IN IF index > NOTE_INDEX_MAX_INCL THEN NOTE_INDEX_MAX_INCL ELSE index
====
