---- MODULE AirPiano_proofs ----
(***************************************************************************)
(* The safety invariants of AirPiano, for every number of notes, every     *)
(* warning threshold and every number of failing calls.                    *)
(***************************************************************************)
EXTENDS AirPiano, Notes_proofs

(* Where the light is at every point of the display thread's pass, but for  *)
(* LEDs that missed a write.                                                *)
LedInv ==
  /\ lit \subseteq {current_index} \union missed
  /\ dispPc = "start" => lit = {} /\ missed = {} /\ dispFailsafe = 0
  /\ dispPc = "tick" /\ stop = 0 /\ current_index \notin missed =>
       (current_index \in lit <=> dispFailsafe = 0)
  /\ dispPc \in {"read", "shiftOff"} =>
       /\ dispFailsafe = 0
       /\ current_index \notin missed => (current_index \in lit <=> waking = 0)
  /\ dispPc = "shiftOff" => dispNote \in Notes /\ dispNote # current_index
  /\ dispPc \in {"shiftOn", "relight"} => dispFailsafe = 0
  /\ dispPc = "dark" => dispFailsafe = 1

(* Only a playable reading is written to the shared state.                  *)
WriteInv == distPc = "write" => reading \in Notes

(* No note has started late while one let through before is on its way.     *)
LateInv ==
  /\ lateNotes <= 1
  /\ failsafe = 0 => lateNotes = 0
  /\ beamPc \in {"fetch", "play"} => lateNotes = 0

(* Sound belongs to the beam thread's sleep; main cleans up after the join. *)
QuietInv ==
  /\ pwm # Silent => beamPc = "sound"
  /\ mainPc = "done" => ThreadsJoined /\ (build = "bbb" => lit \subseteq missed)

(* TypeOK is not inductive alone: that current_index stays an LED needs     *)
(* LedInv, which says what the display thread knows between its two pin     *)
(* calls.                                                                   *)
IInv == TypeOK /\ LedInv /\ WriteInv /\ LateInv /\ QuietInv

(* Every distance of the emulator selects a note.                           *)
LEMMA Selected ==
  /\ note_from_distance_cm(10) \in Notes
  /\ \A d \in ConsoleDistances : note_from_distance_cm(d) \in Notes
<1>1. ConsoleDistances \subseteq Int
  BY DEF ConsoleDistances
<1> QED
  BY <1>1, NoteIsValid DEF note_is_valid

(* A write to an LED moves no other; if it works the LED is as asked.       *)
LEMMA SwitchingOn ==
  ASSUME TypeOK, NEW p \in Notes, SwitchOn(p)
  PROVE  /\ lit' \subseteq Notes /\ missed' \subseteq Notes
         /\ faults' \in 0..MaxFaults
         /\ \A q : q # p => (q \in lit' <=> q \in lit)
         /\ \A q : q # p => (q \in missed' <=> q \in missed)
         /\ p \notin missed' => p \in lit'
<1>1. CASE CallWorks /\ lit' = lit \union {p} /\ missed' = missed \ {p}
  BY <1>1 DEF TypeOK, CallWorks
<1>2. CASE CallFails /\ UNCHANGED lit /\ missed' = missed \union {p}
  BY <1>2, PianoAssumption DEF TypeOK, CallFails
<1> QED
  BY <1>1, <1>2 DEF SwitchOn

(* Switching an LED off changes no other; it is off, or missed the write.  *)
LEMMA SwitchingOff ==
  ASSUME TypeOK, NEW p \in Notes, SwitchOff(p)
  PROVE  /\ lit' \subseteq Notes /\ missed' \subseteq Notes
         /\ faults' \in 0..MaxFaults
         /\ \A q : q # p => (q \in lit' <=> q \in lit)
         /\ \A q : q # p => (q \in missed' <=> q \in missed)
         /\ p \notin missed' => p \notin lit'
<1>1. CASE CallWorks /\ lit' = lit \ {p} /\ missed' = missed \ {p}
  BY <1>1 DEF TypeOK, CallWorks
<1>2. CASE CallFails /\ UNCHANGED lit /\ missed' = missed \union {p}
  BY <1>2, PianoAssumption DEF TypeOK, CallFails
<1> QED
  BY <1>1, <1>2 DEF SwitchOff

(* After the cleanup an LED is on only if it could not be cleared, or in    *)
(* the emulator.                                                            *)
LEMMA Cleaning ==
  ASSUME TypeOK, MainCleanup
  PROVE  /\ lit' \subseteq Notes /\ missed' \subseteq Notes
         /\ faults' \in 0..MaxFaults
         /\ \/ lit' \subseteq missed'
            \/ build = "emu" /\ UNCHANGED leds
<1>1. CASE build = "emu"
  BY <1>1 DEF TypeOK, MainCleanup, leds
<1>2. CASE build # "emu"
  <2> PICK stay \in SUBSET Notes :
        /\ IF stay = {} THEN CallWorks ELSE CallFails
        /\ lit' = lit \intersect stay /\ missed' = stay
    BY <1>2 DEF MainCleanup
  <2>1. faults' \in 0..MaxFaults
    BY PianoAssumption DEF TypeOK, CallWorks, CallFails
  <2> QED
    BY <2>1 DEF TypeOK
<1> QED
  BY <1>1, <1>2

(* Every step keeps the types.                                              *)
LEMMA TypeOKStep ==
  ASSUME TypeOK, LedInv, WriteInv, [Next]_vars
  PROVE  TypeOK'
<1> USE PianoAssumption, NotesAssumption DEF TypeOK, WriteInv, Notes, C4_INDEX,
             INVALID_NOTE_INDEX, Silent, Failed,
             BeyondNotes, BeyondSensor, Readings, Alarming, note_is_valid,
             shared, leds, beamVars, distVars, dispVars, CallWorks, CallFails
<1>1. CASE Beam
  <2>1. CASE BeamTick
    BY <2>1 DEF BeamTick, BeamLevels
  <2>2. CASE BeamViolation
    BY <2>2 DEF BeamViolation, RaiseFailsafe
  <2>3. CASE BeamGate
    BY <2>3 DEF BeamGate
  <2>4. CASE BeamFetch
    BY <2>4 DEF BeamFetch
  <2>5. CASE BeamPlay
    BY <2>5 DEF BeamPlay
  <2>6. CASE BeamSilence
    BY <2>6 DEF BeamSilence
  <2>7. CASE BeamExit
    BY <2>7 DEF BeamExit
  <2> QED
    BY <1>1, <2>1, <2>2, <2>3, <2>4, <2>5, <2>6, <2>7 DEF Beam
<1>2. CASE Distance
  <2>1. CASE DistanceMeasure
    BY <2>1, Selected DEF DistanceMeasure
  <2>2. CASE DistanceAlarm
    BY <2>2 DEF DistanceAlarm, RaiseFailsafe
  <2>3. CASE DistanceWrite
    BY <2>3 DEF DistanceWrite
  <2>4. CASE DistanceExit
    BY <2>4 DEF DistanceExit
  <2> QED
    BY <1>2, <2>1, <2>2, <2>3, <2>4 DEF Distance
<1>3. CASE Display
  <2>1. CASE DisplayStart
    <3>1. CASE SwitchOn(current_index)
      BY <2>1, <3>1, SwitchingOn DEF DisplayStart
    <3>2. CASE UNCHANGED <<leds, faults>>
      BY <2>1, <3>2 DEF DisplayStart
    <3> QED
      BY <2>1, <3>1, <3>2 DEF DisplayStart
  <2>2. CASE DisplayTick
    BY <2>2 DEF DisplayTick
  <2>3. CASE DisplayRead
    BY <2>3 DEF DisplayRead, AfterUpdate
  <2>4. CASE DisplayShiftOff
    BY <2>4, SwitchingOff DEF DisplayShiftOff, LedInv
  <2>5. CASE DisplayShiftOn
    BY <2>5, SwitchingOn DEF DisplayShiftOn, AfterUpdate
  <2>6. CASE DisplayRelight
    BY <2>6, SwitchingOn DEF DisplayRelight
  <2>7. CASE DisplayDark
    BY <2>7, SwitchingOff DEF DisplayDark
  <2>8. CASE DisplayExit
    BY <2>8 DEF DisplayExit
  <2> QED
    BY <1>3, <2>1, <2>2, <2>3, <2>4, <2>5, <2>6, <2>7, <2>8 DEF Display
<1>4. CASE ConsoleOwn
  <2>1. CASE ConsoleLoop
    BY <2>1 DEF ConsoleLoop, ConsoleRest
  <2>2. CASE ConsoleEnter
    BY <2>2 DEF ConsoleEnter, RaiseFailsafe, ConsoleRest
  <2>3. CASE ConsoleOverride
    BY <2>3 DEF ConsoleOverride, ConsoleRest
  <2> QED
    BY <1>4, <2>1, <2>2, <2>3 DEF ConsoleOwn
<1>5. CASE ConsoleCommand
  <2>1. CASE ConsoleNothing
    BY <2>1 DEF ConsoleNothing, ConsoleRest
  <2>2. CASE ConsoleQuit
    BY <2>2 DEF ConsoleQuit, ConsoleRest
  <2>3. CASE ConsoleEnterCmd
    BY <2>3 DEF ConsoleEnterCmd, ConsoleAsk, ConsoleRest
  <2>4. CASE ConsoleExitCmd
    BY <2>4 DEF ConsoleExitCmd, ConsoleAsk, ConsoleRest
  <2>5. CASE ConsoleToggleBeam
    BY <2>5 DEF ConsoleToggleBeam, ConsoleRest
  <2>6. CASE ConsoleSetDistance
    BY <2>6, Selected DEF ConsoleSetDistance, ConsoleRest
  <2> QED
    BY <1>5, <2>1, <2>2, <2>3, <2>4, <2>5, <2>6 DEF ConsoleCommand
<1>6. CASE handle_sigint
  BY <1>6 DEF handle_sigint
<1>7. CASE MainCleanup
  BY <1>7, Cleaning DEF MainCleanup, ThreadsJoined
<1>8. CASE UNCHANGED vars
  BY <1>8 DEF vars
<1> QED
  BY <1>1, <1>2, <1>3, <1>4, <1>5, <1>6, <1>7, <1>8 DEF Next

(* Only the display thread and main move the light.                         *)
LEMMA LedInvStep ==
  ASSUME TypeOK, LedInv, [Next]_vars
  PROVE  LedInv'
<1> USE PianoAssumption, NotesAssumption DEF TypeOK, LedInv, Notes, C4_INDEX,
             INVALID_NOTE_INDEX, Silent, note_is_valid, shared, leds,
             beamVars, distVars, dispVars, CallWorks, CallFails
<1>1. CASE Beam
  <2>1. CASE BeamTick
    BY <2>1 DEF BeamTick, BeamLevels
  <2>2. CASE BeamViolation
    BY <2>2 DEF BeamViolation, RaiseFailsafe
  <2>3. CASE BeamGate
    BY <2>3 DEF BeamGate
  <2>4. CASE BeamFetch
    BY <2>4 DEF BeamFetch
  <2>5. CASE BeamPlay
    BY <2>5 DEF BeamPlay
  <2>6. CASE BeamSilence
    BY <2>6 DEF BeamSilence
  <2>7. CASE BeamExit
    BY <2>7 DEF BeamExit
  <2> QED
    BY <1>1, <2>1, <2>2, <2>3, <2>4, <2>5, <2>6, <2>7 DEF Beam
<1>2. CASE Distance
  <2>1. CASE DistanceMeasure
    BY <2>1 DEF DistanceMeasure
  <2>2. CASE DistanceAlarm
    BY <2>2 DEF DistanceAlarm, RaiseFailsafe
  <2>3. CASE DistanceWrite
    BY <2>3 DEF DistanceWrite
  <2>4. CASE DistanceExit
    BY <2>4 DEF DistanceExit
  <2> QED
    BY <1>2, <2>1, <2>2, <2>3, <2>4 DEF Distance
<1>3. CASE Display
  <2>1. CASE DisplayStart
    <3>1. CASE stop = 0
      BY <2>1, <3>1, SwitchingOn DEF DisplayStart
    <3>2. CASE stop # 0
      BY <2>1, <3>2 DEF DisplayStart
    <3> QED
      BY <2>1, <3>1, <3>2 DEF DisplayStart
  <2>2. CASE DisplayTick
    BY <2>2 DEF DisplayTick
  <2>3. CASE DisplayRead
    BY <2>3 DEF DisplayRead, AfterUpdate
  <2>4. CASE DisplayShiftOff
    BY <2>4, SwitchingOff DEF DisplayShiftOff
  <2>5. CASE DisplayShiftOn
    BY <2>5, SwitchingOn DEF DisplayShiftOn, AfterUpdate
  <2>6. CASE DisplayRelight
    BY <2>6, SwitchingOn DEF DisplayRelight
  <2>7. CASE DisplayDark
    BY <2>7, SwitchingOff DEF DisplayDark
  <2>8. CASE DisplayExit
    BY <2>8 DEF DisplayExit
  <2> QED
    BY <1>3, <2>1, <2>2, <2>3, <2>4, <2>5, <2>6, <2>7, <2>8 DEF Display
<1>4. CASE ConsoleOwn
  <2>1. CASE ConsoleLoop
    BY <2>1 DEF ConsoleLoop, ConsoleRest
  <2>2. CASE ConsoleEnter
    BY <2>2 DEF ConsoleEnter, RaiseFailsafe, ConsoleRest
  <2>3. CASE ConsoleOverride
    BY <2>3 DEF ConsoleOverride, ConsoleRest
  <2> QED
    BY <1>4, <2>1, <2>2, <2>3 DEF ConsoleOwn
<1>5. CASE ConsoleCommand
  <2>1. CASE ConsoleNothing
    BY <2>1 DEF ConsoleNothing, ConsoleRest
  <2>2. CASE ConsoleQuit
    BY <2>2 DEF ConsoleQuit, ConsoleRest
  <2>3. CASE ConsoleEnterCmd
    BY <2>3 DEF ConsoleEnterCmd, ConsoleAsk, ConsoleRest
  <2>4. CASE ConsoleExitCmd
    BY <2>4 DEF ConsoleExitCmd, ConsoleAsk, ConsoleRest
  <2>5. CASE ConsoleToggleBeam
    BY <2>5 DEF ConsoleToggleBeam, ConsoleRest
  <2>6. CASE ConsoleSetDistance
    BY <2>6 DEF ConsoleSetDistance, ConsoleRest
  <2> QED
    BY <1>5, <2>1, <2>2, <2>3, <2>4, <2>5, <2>6 DEF ConsoleCommand
<1>6. CASE handle_sigint
  BY <1>6 DEF handle_sigint
<1>7. CASE MainCleanup
  BY <1>7, Cleaning DEF MainCleanup, ThreadsJoined
<1>8. CASE UNCHANGED vars
  BY <1>8 DEF vars
<1> QED
  BY <1>1, <1>2, <1>3, <1>4, <1>5, <1>6, <1>7, <1>8 DEF Next

(* A reading is fixed from its measurement to its write.                    *)
LEMMA WriteInvStep ==
  ASSUME TypeOK, WriteInv, [Next]_vars
  PROVE  WriteInv'
<1> USE PianoAssumption, NotesAssumption DEF TypeOK, WriteInv, Notes, C4_INDEX,
             INVALID_NOTE_INDEX, Silent, note_is_valid, Failed, BeyondNotes,
             BeyondSensor, Readings, Alarming, shared, leds, beamVars,
             distVars, dispVars, CallWorks, CallFails
<1>1. CASE Beam
  BY <1>1 DEF Beam, BeamTick, BeamViolation, BeamGate, BeamFetch,
     BeamPlay, BeamSilence, BeamExit, BeamLevels, RaiseFailsafe
<1>2. CASE Distance
  <2>1. CASE DistanceMeasure
    BY <2>1 DEF DistanceMeasure
  <2>2. CASE DistanceAlarm
    BY <2>2 DEF DistanceAlarm, RaiseFailsafe
  <2>3. CASE DistanceWrite
    BY <2>3 DEF DistanceWrite
  <2>4. CASE DistanceExit
    BY <2>4 DEF DistanceExit
  <2> QED
    BY <1>2, <2>1, <2>2, <2>3, <2>4 DEF Distance
<1>3. CASE Display
  BY <1>3 DEF Display, DisplayStart, DisplayTick, DisplayRead,
     DisplayShiftOff, DisplayShiftOn, DisplayRelight, DisplayDark,
     DisplayExit, AfterUpdate
<1>4. CASE ConsoleOwn
  BY <1>4 DEF ConsoleOwn, ConsoleLoop, ConsoleEnter, ConsoleOverride,
     RaiseFailsafe, ConsoleRest
<1>5. CASE ConsoleCommand
  BY <1>5 DEF ConsoleCommand, ConsoleNothing, ConsoleQuit,
     ConsoleEnterCmd, ConsoleExitCmd, ConsoleToggleBeam,
     ConsoleSetDistance, ConsoleAsk, ConsoleRest
<1>6. CASE handle_sigint
  BY <1>6 DEF handle_sigint
<1>7. CASE MainCleanup
  BY <1>7, Cleaning DEF MainCleanup, ThreadsJoined
<1>8. CASE UNCHANGED vars
  BY <1>8 DEF vars
<1> QED
  BY <1>1, <1>2, <1>3, <1>4, <1>5, <1>6, <1>7, <1>8 DEF Next

(* A raise finds lateNotes at 0; a start while the failsafe is on makes it  *)
(* 1, and the next break finds the gate shut.                               *)
LEMMA LateInvStep ==
  ASSUME TypeOK, LateInv, [Next]_vars
  PROVE  LateInv'
<1> USE PianoAssumption, NotesAssumption DEF TypeOK, LateInv, shared, leds,
             beamVars, distVars, dispVars, CallWorks, CallFails
<1>1. CASE Beam
  <2>1. CASE BeamTick
    BY <2>1 DEF BeamTick, BeamLevels
  <2>2. CASE BeamViolation
    BY <2>2 DEF BeamViolation, RaiseFailsafe
  <2>3. CASE BeamGate
    BY <2>3 DEF BeamGate
  <2>4. CASE BeamFetch
    BY <2>4 DEF BeamFetch
  <2>5. CASE BeamPlay
    BY <2>5 DEF BeamPlay
  <2>6. CASE BeamSilence
    BY <2>6 DEF BeamSilence
  <2>7. CASE BeamExit
    BY <2>7 DEF BeamExit
  <2> QED
    BY <1>1, <2>1, <2>2, <2>3, <2>4, <2>5, <2>6, <2>7 DEF Beam
<1>2. CASE Distance
  BY <1>2 DEF Distance, DistanceMeasure, DistanceAlarm, DistanceWrite,
     DistanceExit, RaiseFailsafe
<1>3. CASE Display
  BY <1>3 DEF Display, DisplayStart, DisplayTick, DisplayRead,
     DisplayShiftOff, DisplayShiftOn, DisplayRelight, DisplayDark,
     DisplayExit, AfterUpdate
<1>4. CASE ConsoleOwn
  BY <1>4 DEF ConsoleOwn, ConsoleLoop, ConsoleEnter, ConsoleOverride,
     RaiseFailsafe, ConsoleRest
<1>5. CASE ConsoleCommand
  BY <1>5 DEF ConsoleCommand, ConsoleNothing, ConsoleQuit,
     ConsoleEnterCmd, ConsoleExitCmd, ConsoleToggleBeam,
     ConsoleSetDistance, ConsoleAsk, ConsoleRest
<1>6. CASE handle_sigint
  BY <1>6 DEF handle_sigint
<1>7. CASE MainCleanup
  BY <1>7, Cleaning DEF MainCleanup, ThreadsJoined
<1>8. CASE UNCHANGED vars
  BY <1>8 DEF vars
<1> QED
  BY <1>1, <1>2, <1>3, <1>4, <1>5, <1>6, <1>7, <1>8 DEF Next

(* A sound ends before its thread does, and the LEDs are cleared last.      *)
LEMMA QuietInvStep ==
  ASSUME TypeOK, QuietInv, [Next]_vars
  PROVE  QuietInv'
<1> USE PianoAssumption, NotesAssumption DEF TypeOK, QuietInv, ThreadsJoined, Silent,
             shared, leds, beamVars, distVars, dispVars, CallWorks, CallFails
<1>1. CASE Beam
  <2>1. CASE BeamTick
    BY <2>1 DEF BeamTick, BeamLevels
  <2>2. CASE BeamViolation
    BY <2>2 DEF BeamViolation, RaiseFailsafe
  <2>3. CASE BeamGate
    BY <2>3 DEF BeamGate
  <2>4. CASE BeamFetch
    BY <2>4 DEF BeamFetch
  <2>5. CASE BeamPlay
    BY <2>5 DEF BeamPlay
  <2>6. CASE BeamSilence
    BY <2>6 DEF BeamSilence
  <2>7. CASE BeamExit
    BY <2>7 DEF BeamExit
  <2> QED
    BY <1>1, <2>1, <2>2, <2>3, <2>4, <2>5, <2>6, <2>7 DEF Beam
<1>2. CASE Distance
  BY <1>2 DEF Distance, DistanceMeasure, DistanceAlarm, DistanceWrite,
     DistanceExit, RaiseFailsafe
<1>3. CASE Display
  BY <1>3 DEF Display, DisplayStart, DisplayTick, DisplayRead,
     DisplayShiftOff, DisplayShiftOn, DisplayRelight, DisplayDark,
     DisplayExit, AfterUpdate
<1>4. CASE ConsoleOwn
  BY <1>4 DEF ConsoleOwn, ConsoleLoop, ConsoleEnter, ConsoleOverride,
     RaiseFailsafe, ConsoleRest
<1>5. CASE ConsoleCommand
  BY <1>5 DEF ConsoleCommand, ConsoleNothing, ConsoleQuit,
     ConsoleEnterCmd, ConsoleExitCmd, ConsoleToggleBeam,
     ConsoleSetDistance, ConsoleAsk, ConsoleRest
<1>6. CASE handle_sigint
  BY <1>6 DEF handle_sigint
<1>7. CASE MainCleanup
  BY <1>7, Cleaning DEF MainCleanup, ThreadsJoined
<1>8. CASE UNCHANGED vars
  BY <1>8 DEF vars
<1> QED
  BY <1>1, <1>2, <1>3, <1>4, <1>5, <1>6, <1>7, <1>8 DEF Next

(* The invariant holds in every behaviour, with or without fairness.        *)
THEOREM Invariance == Spec => []IInv
<1>1. Init => IInv
  BY PianoAssumption, NotesAssumption
  DEF Init, SharedInit, BeamInit, DistanceInit, DisplayInit, IInv, TypeOK,
      LedInv, WriteInv, LateInv, QuietInv, ThreadsJoined, Notes, C4_INDEX,
      INVALID_NOTE_INDEX, Silent, Failed, BeyondNotes, BeyondSensor, Readings
<1>2. IInv /\ [Next]_vars => IInv'
  BY TypeOKStep, LedInvStep, WriteInvStep, LateInvStep, QuietInvStep DEF IInv
<1> QED
  BY <1>1, <1>2, PTL DEF Spec

(* Every variable keeps its type; in particular the display thread never    *)
(* asks for an LED outside the array (display_thread.c).                    *)
THEOREM TypeCorrect == Spec => []TypeOK
BY Invariance, PTL DEF IInv

(* One LED at most, on exactly when the display thread last saw no failsafe *)
(* (display_thread.c), for every number of notes and of failing locks.      *)
THEOREM LedsCorrect == Spec => []LedsFollowFailsafe
<1>1. IInv => LedsFollowFailsafe
  BY DEF IInv, TypeOK, LedInv, LedsFollowFailsafe
<1> QED
  BY <1>1, Invariance, PTL

(* At most one note starts between the raise of the failsafe and its        *)
(* override (beam_thread.c output_note).                                    *)
THEOREM LateNotesBounded == Spec => []AtMostOneLateNote
<1>1. IInv => AtMostOneLateNote
  BY DEF IInv, LateInv, AtMostOneLateNote
<1> QED
  BY <1>1, Invariance, PTL

(* After main's cleanup the board is silent and dark (main.c).              *)
THEOREM ExitIsQuiet == Spec => []QuietAfterExit
<1>1. IInv => QuietAfterExit
  BY DEF IInv, QuietInv, QuietAfterExit, ThreadsJoined
<1> QED
  BY <1>1, Invariance, PTL
====
