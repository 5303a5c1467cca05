---- MODULE Notes_proofs ----
(***************************************************************************)
(* What note_from_distance_cm selects, for every number of notes and every *)
(* range of distances.                                                     *)
(***************************************************************************)
EXTENDS Notes, TLAPS

(* Division by the range, at every dividend.                               *)
LEMMA Quotient ==
  ASSUME NEW a \in Int
  PROVE  /\ a \div range \in Int
         /\ range * (a \div range) <= a
         /\ a < range * (a \div range) + range
  BY NotesAssumption DEF range

(* The quotient is the only number of its kind.                            *)
LEMMA QuotientBounds ==
  ASSUME NEW a \in Int, NEW q \in Int
  PROVE  /\ range * q <= a => q <= a \div range
         /\ a < range * q + range => a \div range <= q
<1> range \in Int /\ range > 0
  BY NotesAssumption DEF range
<1> DEFINE d == a \div range
<1>1. d \in Int /\ range * d <= a /\ a < range * d + range
  BY Quotient
<1> HIDE DEF d
<1>2. ASSUME range * q <= a PROVE q <= d
  <2> SUFFICES ASSUME q >= d + 1 PROVE FALSE
    BY <1>1
  <2>1. range * q >= range * (d + 1)
    BY <1>1
  <2>2. range * (d + 1) = range * d + range
    BY <1>1
  <2> QED
    BY <1>1, <1>2, <2>1, <2>2
<1>3. ASSUME a < range * q + range PROVE d <= q
  <2> SUFFICES ASSUME d >= q + 1 PROVE FALSE
    BY <1>1
  <2>1. range * d >= range * (q + 1)
    BY <1>1
  <2>2. range * (q + 1) = range * q + range
    BY <1>1
  <2> QED
    BY <1>1, <1>3, <2>1, <2>2
<1> QED
  BY <1>2, <1>3 DEF d

(* A clamped distance lies in the range, and clamping keeps the order.     *)
LEMMA Clamping ==
  ASSUME NEW d \in Int
  PROVE  /\ clamped(d) \in NOTE_DIST_MIN_CM..NOTE_DIST_MAX_CM
         /\ \A e \in Int : d <= e => clamped(d) <= clamped(e)
  BY NotesAssumption DEF clamped

(* Every distance selects a note of the table (console_thread.c and        *)
(* distance_thread.c publish the result without asking).                   *)
THEOREM NoteIsValid ==
  ASSUME NEW d \in Int
  PROVE  note_is_valid(note_from_distance_cm(d))
<1> DEFINE a == (clamped(d) - NOTE_DIST_MIN_CM) * NUM_NOTES
<1>1. clamped(d) - NOTE_DIST_MIN_CM \in Nat
  BY Clamping, NotesAssumption
<1>2. a \in Nat
  BY <1>1, NotesAssumption
<1>3. a \div range \in Int /\ 0 <= a \div range
  <2>1. range * 0 <= a
    BY <1>2, NotesAssumption DEF range
  <2> HIDE DEF a
  <2> QED
    BY <1>2, <2>1, Quotient, QuotientBounds
<1> HIDE DEF a
<1>4. note_from_distance_cm(d) = IF a \div range > NUM_NOTES - 1 THEN NUM_NOTES - 1
                                 ELSE a \div range
  BY DEF note_from_distance_cm, NOTE_INDEX_MAX_INCL, a
<1> QED
  BY <1>3, <1>4, NotesAssumption DEF note_is_valid, Notes

(* A hand that moves away never selects a lower note.                      *)
THEOREM NotesAscend ==
  ASSUME NEW d \in Int, NEW e \in Int, d <= e
  PROVE  note_from_distance_cm(d) <= note_from_distance_cm(e)
<1> DEFINE a == (clamped(d) - NOTE_DIST_MIN_CM) * NUM_NOTES
           b == (clamped(e) - NOTE_DIST_MIN_CM) * NUM_NOTES
<1>1. clamped(d) \in Int /\ clamped(e) \in Int /\ clamped(d) <= clamped(e)
  BY Clamping, NotesAssumption
<1>2. a \in Int /\ b \in Int /\ a <= b
  BY <1>1, NotesAssumption
<1> HIDE DEF a, b
<1>3. a \div range \in Int /\ b \div range \in Int
  BY <1>2, Quotient
<1>4. a \div range <= b \div range
  <2>1. range * (a \div range) <= a
    BY <1>2, Quotient
  <2>2. range * (a \div range) <= b
    BY <1>2, <1>3, <2>1, NotesAssumption DEF range
  <2> QED
    BY <1>2, <1>3, <2>2, QuotientBounds
<1>5. /\ note_from_distance_cm(d) = IF a \div range > NUM_NOTES - 1 THEN NUM_NOTES - 1
                                    ELSE a \div range
      /\ note_from_distance_cm(e) = IF b \div range > NUM_NOTES - 1 THEN NUM_NOTES - 1
                                    ELSE b \div range
  BY DEF note_from_distance_cm, NOTE_INDEX_MAX_INCL, a, b
<1> QED
  BY <1>3, <1>4, <1>5, NotesAssumption

(* Every note has a distance, if the range is that fine.                   *)
THEOREM EveryNoteSelected ==
  ASSUME range >= NUM_NOTES, NEW n \in Notes
  PROVE  \E d \in NOTE_DIST_MIN_CM..NOTE_DIST_MAX_CM : note_from_distance_cm(d) = n
<1> range \in Nat /\ NUM_NOTES \in Nat /\ NUM_NOTES > 0 /\ n \in Nat /\ n < NUM_NOTES
  BY NotesAssumption DEF range, Notes
<1>1. PICK k \in Nat : range * n <= k * NUM_NOTES /\ k * NUM_NOTES < range * n + range
  <2> DEFINE m == range * n + NUM_NOTES - 1
             k == m \div NUM_NOTES
  <2>1. m \in Nat
    OBVIOUS
  <2> HIDE DEF m
  <2>2. k \in Nat /\ NUM_NOTES * k <= m /\ m < NUM_NOTES * k + NUM_NOTES
    BY <2>1
  <2> HIDE DEF k
  <2>3. range * n <= k * NUM_NOTES /\ k * NUM_NOTES < range * n + range
    BY <2>2 DEF m
  <2> QED
    BY <2>2, <2>3
<1>2. k <= range
  <2> SUFFICES ASSUME k >= range + 1 PROVE FALSE
    OBVIOUS
  <2>1. k * NUM_NOTES >= (range + 1) * NUM_NOTES
    OBVIOUS
  <2>2. (range + 1) * NUM_NOTES = range * NUM_NOTES + NUM_NOTES
    OBVIOUS
  <2>3. range * NUM_NOTES >= range * (n + 1)
    OBVIOUS
  <2>4. range * (n + 1) = range * n + range
    OBVIOUS
  <2> QED
    BY <1>1, <2>1, <2>2, <2>3, <2>4
<1> DEFINE d == NOTE_DIST_MIN_CM + k
<1>3. d \in NOTE_DIST_MIN_CM..NOTE_DIST_MAX_CM
  BY <1>2, NotesAssumption DEF range
<1>4. clamped(d) - NOTE_DIST_MIN_CM = k
  BY <1>3, NotesAssumption DEF clamped
<1>5. (k * NUM_NOTES) \div range = n
  <2>1. k * NUM_NOTES \in Int
    OBVIOUS
  <2>2. (k * NUM_NOTES) \div range \in Int
    BY <2>1, Quotient
  <2> QED
    BY <1>1, <2>1, <2>2, QuotientBounds
<1> QED
  BY <1>3, <1>4, <1>5 DEF note_from_distance_cm, NOTE_INDEX_MAX_INCL
====
