---- MODULE AirPiano ----
(***************************************************************************)
(* The beam, distance, display and console threads around the state they   *)
(* share: failsafe_state, distance_state, the stop flag, the LED pins and  *)
(* the PWM buzzer.  A step is one access to shared state with the local    *)
(* computation around it; the shared cells are read and written under      *)
(* their mutex and never two at a time, so an access is atomic; a loop's   *)
(* test of stop goes with the access that follows it.                      *)
(*                                                                         *)
(* Abstracted: log and message calls (their results are ignored by every   *)
(* caller; see Logging), the clock (a sleep is a point where any other     *)
(* thread may run), and the answer of the timestamp queue (either answer;  *)
(* see TimestampQueue).  A distance is the note it selects, or one of the  *)
(* three kinds of reading that select none.                                *)
(***************************************************************************)
EXTENDS Notes

CONSTANTS BEAM_ALIGNMENT_WARN_TICKS,  \* ticks broken before the warning
          Builds,                     \* subset of {"bbb", "emu"}
          MaxFaults                   \* bound: failing lock or pin calls

ASSUME PianoAssumption ==
  /\ BEAM_ALIGNMENT_WARN_TICKS \in Nat \ {0, 1}
  /\ Builds \subseteq {"bbb", "emu"}
  /\ MaxFaults \in Nat

VARIABLES
  build,         \* pin and PWM drivers linked in: "bbb" or "emu"
  stop,          \* stop.c
  failsafe,      \* failsafe_state_shared.failsafe_state.failsafe
  dist,          \* distance_state_shared.distance_state.note_index
  emuPin,        \* pin_io_emu's state of PIN_IN_BEAM: 1 intact, 0 broken
  lit,           \* LEDs that are on
  missed,        \* history: LEDs the latest write to which failed
  pwm,           \* note the buzzer sounds, or Silent
  beamPc, curr, broken_ticks, beamNote,
  distPc, reading,
  dispPc, current_index, dispFailsafe, waking, dispNote,
  consPc,
  mainPc,
  faults,        \* failing calls so far
  lateNotes      \* history: notes started since failsafe was last raised

leds == <<lit, missed>>
shared == <<stop, failsafe, dist, emuPin, leds, pwm>>
beamVars == <<beamPc, curr, broken_ticks, beamNote>>
distVars == <<distPc, reading>>
dispVars == <<dispPc, current_index, dispFailsafe, waking, dispNote>>
vars == <<build, shared, beamVars, distVars, dispVars, consPc, mainPc, faults,
          lateNotes>>

Silent == -1

(* Kinds of distance reading besides the playable ones (which are the note *)
(* they select), in the order of the distance.                             *)
Failed == -1                   \* negative: echo timeout
BeyondNotes == NUM_NOTES       \* over NOTE_DIST_MAX_CM
BeyondSensor == NUM_NOTES + 1  \* over FAILSAFE_MAX_DIST_CM_INCL
Readings == Failed..BeyondSensor
Alarming == {Failed, BeyondSensor}

(* The shared cells as their init functions leave them, and the emulated   *)
(* pin as zeroed memory: a broken beam.                                    *)
SharedInit ==
  /\ stop = 0
  /\ failsafe = 0
  /\ dist = INVALID_NOTE_INDEX
  /\ emuPin = 0
  /\ lit = {} /\ missed = {}
  /\ pwm = Silent

BeamInit == beamPc = "tick" /\ curr = 1 /\ broken_ticks = 0 /\ beamNote = 0

DistanceInit == distPc = "tick" /\ reading = 0

DisplayInit ==
  /\ dispPc = "start" /\ current_index = C4_INDEX
  /\ dispFailsafe = 0 /\ waking = 0 /\ dispNote = 0

Init ==
  /\ build \in Builds
  /\ SharedInit /\ BeamInit /\ DistanceInit /\ DisplayInit
  /\ consPc = "loop"
  /\ mainPc = "join"
  /\ faults = 0
  /\ lateNotes = 0

(* A call fails: its lock, or the access to a pin, reports an error.       *)
CallFails == faults < MaxFaults /\ faults' = faults + 1
CallWorks == UNCHANGED faults

(* pin_io_set of an LED; its callers look at no result, and only the       *)
(* board's writes can fail.                                                *)
SwitchOn(p) ==
  \/ CallWorks /\ lit' = lit \union {p} /\ missed' = missed \ {p}
  \/ build = "bbb" /\ CallFails /\ UNCHANGED lit /\ missed' = missed \union {p}

SwitchOff(p) ==
  \/ CallWorks /\ lit' = lit \ {p} /\ missed' = missed \ {p}
  \/ build = "bbb" /\ CallFails /\ UNCHANGED lit /\ missed' = missed \union {p}

----
(* Beam thread *)

(* pin_io_read(PIN_IN_BEAM): the level of the sensor, or what the console  *)
(* of the emulator last set.                                              *)
BeamLevels == IF build = "emu" THEN {emuPin} ELSE {0, 1}

(* One pass of the loop up to the first shared access after the pin read.  *)
(* A failing pin read (of the board) leaves curr as it was.  On a falling  *)
(* edge the timestamp queue decides between the failsafe and the note.     *)
BeamTick ==
  /\ beamPc = "tick" /\ stop = 0
  /\ \/ CallWorks /\ curr' \in BeamLevels
     \/ build = "bbb" /\ CallFails /\ curr' = curr
  /\ broken_ticks' = IF curr' = 1 THEN 0
                     ELSE IF broken_ticks < BEAM_ALIGNMENT_WARN_TICKS
                     THEN broken_ticks + 1 ELSE broken_ticks
  /\ IF curr' = 0 /\ broken_ticks' < BEAM_ALIGNMENT_WARN_TICKS /\ curr # 0
     THEN beamPc' \in {"violation", "gate"}
     ELSE UNCHANGED beamPc
  /\ UNCHANGED <<build, shared, beamNote, distVars, dispVars, consPc, mainPc,
                 lateNotes>>

(* failsafe_state_shared_set(1); its callers go on when it fails.          *)
RaiseFailsafe ==
  \/ CallWorks /\ failsafe' = 1
  \/ CallFails /\ UNCHANGED failsafe

BeamViolation ==
  /\ beamPc = "violation"
  /\ RaiseFailsafe
  /\ beamPc' = "tick"
  /\ UNCHANGED <<build, stop, dist, emuPin, leds, pwm, curr, broken_ticks,
                 beamNote, distVars, dispVars, consPc, mainPc, lateNotes>>

(* Mutant: a note that is already published is played unasked.             *)
BeamGateUnchecked ==
  /\ beamPc = "gate"
  /\ beamPc' = "fetch"
  /\ UNCHANGED <<build, shared, curr, broken_ticks, beamNote, distVars,
                 dispVars, consPc, mainPc, faults, lateNotes>>

(* output_note asks for the failsafe; an error counts as failsafe.         *)
BeamGate ==
  /\ beamPc = "gate"
  /\ \/ CallWorks /\ beamPc' = IF failsafe = 0 THEN "fetch" ELSE "tick"
     \/ CallFails /\ beamPc' = "tick"
  /\ UNCHANGED <<build, shared, curr, broken_ticks, beamNote, distVars,
                 dispVars, consPc, mainPc, lateNotes>>

(* output_note reads the note; beamNote is that copy, 0 once it is used.   *)
BeamFetch ==
  /\ beamPc = "fetch"
  /\ \/ /\ CallWorks
        /\ IF note_is_valid(dist) THEN beamNote' = dist /\ beamPc' = "play"
                                  ELSE UNCHANGED beamNote /\ beamPc' = "tick"
     \/ CallFails /\ beamPc' = "tick" /\ UNCHANGED beamNote
  /\ UNCHANGED <<build, shared, curr, broken_ticks, distVars, dispVars,
                 consPc, mainPc, lateNotes>>

BeamPlay ==
  /\ beamPc = "play"
  /\ pwm' = beamNote
  /\ beamPc' = "sound"
  /\ beamNote' = 0
  /\ lateNotes' = lateNotes + failsafe
  /\ UNCHANGED <<build, stop, failsafe, dist, emuPin, leds, curr,
                 broken_ticks, distVars, dispVars, consPc, mainPc,
                 faults>>

(* Mutant: a stop during the note skips pwm_stop.                          *)
BeamSilenceUnlessStopped ==
  /\ beamPc = "sound"
  /\ pwm' = IF stop = 1 THEN pwm ELSE Silent
  /\ beamPc' = IF stop = 1 THEN "done" ELSE "tick"
  /\ UNCHANGED <<build, stop, failsafe, dist, emuPin, leds, curr,
                 broken_ticks, beamNote, distVars, dispVars, consPc, mainPc,
                 faults, lateNotes>>

(* The note's duration has elapsed.                                        *)
BeamSilence ==
  /\ beamPc = "sound"
  /\ pwm' = Silent
  /\ beamPc' = "tick"
  /\ UNCHANGED <<build, stop, failsafe, dist, emuPin, leds, curr,
                 broken_ticks, beamNote, distVars, dispVars, consPc, mainPc,
                 faults, lateNotes>>

BeamExit ==
  /\ beamPc = "tick" /\ stop = 1
  /\ pwm' = Silent
  /\ beamPc' = "done"
  /\ UNCHANGED <<build, stop, failsafe, dist, emuPin, leds, curr,
                 broken_ticks, beamNote, distVars, dispVars, consPc, mainPc,
                 faults, lateNotes>>

Beam == \/ BeamTick \/ BeamViolation \/ BeamGate \/ BeamFetch \/ BeamPlay
        \/ BeamSilence \/ BeamExit

----
(* Distance thread *)

(* Mutant: an alarm is raised only after a reading without one.            *)
DistanceMeasureEdge ==
  /\ distPc = "tick" /\ stop = 0
  /\ reading' \in IF build = "emu" THEN {note_from_distance_cm(10)}
                 ELSE Readings
  /\ distPc' = CASE reading' \in Alarming /\ reading \notin Alarming -> "alarm"
                 [] note_is_valid(reading') /\ build = "bbb" -> "write"
                 [] OTHER -> "tick"
  /\ UNCHANGED <<build, shared, beamVars, dispVars, consPc, mainPc, faults,
                 lateNotes>>

(* measure_distance: the emulated sensor always reads 10 cm.  A reading    *)
(* between the notes and the sensor's maximum is dropped.                  *)
DistanceMeasure ==
  /\ distPc = "tick" /\ stop = 0
  /\ reading' \in IF build = "emu" THEN {note_from_distance_cm(10)}
                 ELSE Readings
  /\ distPc' = CASE reading' \in Alarming -> "alarm"
                 [] note_is_valid(reading') /\ build = "bbb" -> "write"
                 [] OTHER -> "tick"
  /\ UNCHANGED <<build, shared, beamVars, dispVars, consPc, mainPc, faults,
                 lateNotes>>

DistanceAlarm ==
  /\ distPc = "alarm"
  /\ RaiseFailsafe
  /\ distPc' = "tick"
  /\ UNCHANGED <<build, stop, dist, emuPin, leds, pwm, beamVars, reading,
                 dispVars, consPc, mainPc, lateNotes>>

DistanceWrite ==
  /\ distPc = "write"
  /\ \/ CallWorks /\ dist' = reading
     \/ CallFails /\ UNCHANGED dist
  /\ distPc' = "tick"
  /\ UNCHANGED <<build, stop, failsafe, emuPin, leds, pwm, beamVars, reading,
                 dispVars, consPc, mainPc, lateNotes>>

DistanceExit ==
  /\ distPc = "tick" /\ stop = 1
  /\ distPc' = "done"
  /\ UNCHANGED <<build, shared, beamVars, reading, dispVars, consPc, mainPc,
                 faults, lateNotes>>

Distance == DistanceMeasure \/ DistanceAlarm \/ DistanceWrite \/ DistanceExit

----
(* Display thread *)

(* Before its loop the thread lights the first LED.                        *)
DisplayStart ==
  /\ dispPc = "start"
  /\ IF stop = 0 THEN SwitchOn(current_index) ELSE UNCHANGED <<leds, faults>>
  /\ dispPc' = "tick"
  /\ UNCHANGED <<build, stop, failsafe, dist, emuPin, pwm, beamVars,
                 distVars, current_index, dispFailsafe, waking,
                 dispNote, consPc, mainPc, lateNotes>>

(* The loop pulls the failsafe; an error counts as failsafe.  waking is    *)
(* prev_failsafe in a pass that finds the failsafe cleared.                *)
DisplayTick ==
  /\ dispPc = "tick" /\ stop = 0
  /\ \/ CallWorks /\ dispFailsafe' = failsafe
     \/ CallFails /\ dispFailsafe' = 1
  /\ waking' = IF dispFailsafe = 1 /\ dispFailsafe' = 0 THEN 1 ELSE 0
  /\ dispPc' = CASE dispFailsafe' = 0 -> "read"
                 [] dispFailsafe' = 1 /\ dispFailsafe = 0 -> "dark"
                 [] OTHER -> "tick"
  /\ UNCHANGED <<build, shared, beamVars, distVars, current_index, dispNote,
                 consPc, mainPc, lateNotes>>

(* Mutant: no reset of the light on the way out of the failsafe.           *)
AfterUpdateNoRelight == "tick"

(* Where a pass goes once update_display is over.                          *)
AfterUpdate == IF waking = 1 THEN "relight" ELSE "tick"

(* Mutant: a note is followed without asking whether it is valid.          *)
DisplayReadUnchecked ==
  /\ dispPc = "read"
  /\ CallWorks
  /\ dispNote' = dist
  /\ dispPc' = IF dispNote' # current_index THEN "shiftOff" ELSE AfterUpdate
  /\ UNCHANGED <<build, shared, beamVars, distVars, current_index,
                 dispFailsafe, waking, consPc, mainPc, lateNotes>>

(* update_display reads the note (an error leaves the last one); only a    *)
(* valid note other than the one shown moves the light.                    *)
DisplayRead ==
  /\ dispPc = "read"
  /\ \/ CallWorks /\ dispNote' = dist
     \/ CallFails /\ UNCHANGED dispNote
  /\ dispPc' = IF note_is_valid(dispNote') /\ dispNote' # current_index
               THEN "shiftOff" ELSE AfterUpdate
  /\ UNCHANGED <<build, shared, beamVars, distVars, current_index,
                 dispFailsafe, waking, consPc, mainPc, lateNotes>>

(* The light moves one LED towards the note: off, then on.                 *)
DisplayShiftOff ==
  /\ dispPc = "shiftOff"
  /\ SwitchOff(current_index)
  /\ current_index' = IF dispNote < current_index THEN current_index - 1
                      ELSE current_index + 1
  /\ dispPc' = "shiftOn"
  /\ UNCHANGED <<build, stop, failsafe, dist, emuPin, pwm, beamVars,
                 distVars, dispFailsafe, waking, dispNote, consPc,
                 mainPc, lateNotes>>

(* Mutant: the light does not come on again after the shift.               *)
DisplayShiftOnForgotten ==
  /\ dispPc = "shiftOn"
  /\ dispPc' = AfterUpdate
  /\ UNCHANGED <<build, shared, beamVars, distVars, current_index,
                 dispFailsafe, waking, dispNote, consPc, mainPc, faults,
                 lateNotes>>

DisplayShiftOn ==
  /\ dispPc = "shiftOn"
  /\ SwitchOn(current_index)
  /\ dispPc' = AfterUpdate
  /\ UNCHANGED <<build, stop, failsafe, dist, emuPin, pwm, beamVars,
                 distVars, current_index, dispFailsafe, waking,
                 dispNote, consPc, mainPc, lateNotes>>

(* First pass out of the failsafe: the current LED on again.               *)
DisplayRelight ==
  /\ dispPc = "relight"
  /\ SwitchOn(current_index)
  /\ waking' = 0
  /\ dispPc' = "tick"
  /\ UNCHANGED <<build, stop, failsafe, dist, emuPin, pwm, beamVars,
                 distVars, current_index, dispFailsafe, dispNote, consPc,
                 mainPc, lateNotes>>

(* Mutant: the light is put out only if no note is shown.                  *)
DisplayDarkFirstLed ==
  /\ dispPc = "dark"
  /\ SwitchOff(C4_INDEX)
  /\ dispPc' = "tick"
  /\ UNCHANGED <<build, stop, failsafe, dist, emuPin, pwm, beamVars,
                 distVars, current_index, dispFailsafe, waking, dispNote,
                 consPc, mainPc, lateNotes>>

(* First pass in the failsafe: the current LED off.                        *)
DisplayDark ==
  /\ dispPc = "dark"
  /\ SwitchOff(current_index)
  /\ dispPc' = "tick"
  /\ UNCHANGED <<build, stop, failsafe, dist, emuPin, pwm, beamVars,
                 distVars, current_index, dispFailsafe, waking,
                 dispNote, consPc, mainPc, lateNotes>>

DisplayExit ==
  /\ dispPc = "tick" /\ stop = 1
  /\ dispPc' = "done"
  /\ UNCHANGED <<build, shared, beamVars, distVars, current_index,
                 dispFailsafe, waking, dispNote, consPc, mainPc,
                 faults, lateNotes>>

Display == \/ DisplayStart \/ DisplayTick \/ DisplayRead \/ DisplayShiftOff
           \/ DisplayShiftOn \/ DisplayRelight \/ DisplayDark \/ DisplayExit

----
(* Console thread *)

ConsoleRest == <<build, beamVars, distVars, dispVars, mainPc>>

(* Mutant: the loop reads another line before it looks at stop.            *)
ConsoleLoopUntested ==
  /\ consPc = "loop"
  /\ consPc' = "fgets"
  /\ UNCHANGED <<shared, ConsoleRest, faults, lateNotes>>

(* The loop test; past it the thread blocks in fgets.                      *)
ConsoleLoop ==
  /\ consPc = "loop"
  /\ consPc' = IF stop = 0 THEN "fgets" ELSE "done"
  /\ UNCHANGED <<shared, ConsoleRest, faults, lateNotes>>

(* fgets returns: nothing to do (end of input, a line that is refused or   *)
(* not a command, or stop was set meanwhile).                              *)
ConsoleNothing ==
  /\ consPc = "fgets"
  /\ consPc' = "loop"
  /\ UNCHANGED <<shared, ConsoleRest, faults, lateNotes>>

ConsoleQuit ==
  /\ consPc = "fgets" /\ stop = 0
  /\ stop' = 1
  /\ consPc' = "loop"
  /\ UNCHANGED <<failsafe, dist, emuPin, leds, pwm, ConsoleRest, faults,
                 lateNotes>>

(* 'f' and 'r' first read the failsafe.  If that fails the program stops;  *)
(* if there is nothing to change only a note is logged.                    *)
ConsoleAsk(from, next) ==
  /\ consPc = "fgets" /\ stop = 0
  /\ \/ CallWorks /\ UNCHANGED stop
        /\ consPc' = IF failsafe = from THEN next ELSE "loop"
     \/ CallFails /\ stop' = 1 /\ consPc' = "loop"
  /\ UNCHANGED <<failsafe, dist, emuPin, leds, pwm, ConsoleRest, lateNotes>>

ConsoleEnterCmd == ConsoleAsk(0, "enter")
ConsoleExitCmd == ConsoleAsk(1, "exit")

(* ... and then write it; if that fails nothing happens.                   *)
ConsoleEnter ==
  /\ consPc = "enter"
  /\ RaiseFailsafe
  /\ consPc' = "loop"
  /\ UNCHANGED <<stop, dist, emuPin, leds, pwm, ConsoleRest, lateNotes>>

ConsoleOverride ==
  /\ consPc = "exit"
  /\ \/ CallWorks /\ failsafe' = 0 /\ lateNotes' = 0
     \/ CallFails /\ UNCHANGED <<failsafe, lateNotes>>
  /\ consPc' = "loop"
  /\ UNCHANGED <<stop, dist, emuPin, leds, pwm, ConsoleRest>>

(* 'b' in the emulator: toggle_state always equals the emulated pin.       *)
ConsoleToggleBeam ==
  /\ consPc = "fgets" /\ stop = 0 /\ build = "emu"
  /\ emuPin' = 1 - emuPin
  /\ consPc' = "loop"
  /\ UNCHANGED <<stop, failsafe, dist, leds, pwm, ConsoleRest, faults,
                 lateNotes>>

(* '0'..'9' in the emulator: a distance of 0, 10 .. 90 cm, playable or not. *)
ConsoleDistances == {10 * i : i \in 0..9}

ConsoleSetDistance ==
  /\ consPc = "fgets" /\ stop = 0 /\ build = "emu"
  /\ \/ /\ CallWorks
        /\ \E d \in ConsoleDistances : dist' = note_from_distance_cm(d)
     \/ CallFails /\ UNCHANGED dist
  /\ consPc' = "loop"
  /\ UNCHANGED <<stop, failsafe, emuPin, leds, pwm, ConsoleRest, lateNotes>>

ConsoleCommand ==
  \/ ConsoleNothing \/ ConsoleQuit \/ ConsoleEnterCmd \/ ConsoleExitCmd
  \/ ConsoleToggleBeam \/ ConsoleSetDistance

(* What the console does without waiting for a line of input.              *)
ConsoleOwn == ConsoleLoop \/ ConsoleEnter \/ ConsoleOverride

----
(* Environment, signal handler and main *)

handle_sigint ==
  /\ stop' = 1
  /\ UNCHANGED <<build, failsafe, dist, emuPin, leds, pwm, beamVars,
                 distVars, dispVars, consPc, mainPc, faults, lateNotes>>

(* Mutant: the display thread is not joined.                               *)
ThreadsJoinedButDisplay ==
  beamPc = "done" /\ distPc = "done" /\ consPc = "done"

ThreadsJoined == /\ beamPc = "done" /\ distPc = "done"
                 /\ dispPc = "done" /\ consPc = "done"

(* main joins the threads, then pin_io_cleanup clears the output pins (the *)
(* emulated driver only says so); some may stay, see PinIo.                *)
MainCleanup ==
  /\ mainPc = "join" /\ ThreadsJoined
  /\ IF build = "emu" THEN UNCHANGED <<leds, faults>>
     ELSE \E stay \in SUBSET Notes :
            /\ IF stay = {} THEN CallWorks ELSE CallFails
            /\ lit' = lit \intersect stay /\ missed' = stay
  /\ mainPc' = "done"
  /\ UNCHANGED <<build, stop, failsafe, dist, emuPin, pwm, beamVars,
                 distVars, dispVars, consPc, lateNotes>>

Next ==
  \/ Beam \/ Distance \/ Display \/ ConsoleOwn \/ ConsoleCommand
  \/ handle_sigint \/ MainCleanup

Spec == Init /\ [][Next]_vars

(* Each thread's loop sleeps until its next period at its own real-time    *)
(* priority, so a thread that is ready gets the processor; the user owes   *)
(* the console no input.                                                   *)
Fairness ==
  /\ WF_vars(Beam) /\ WF_vars(Distance) /\ WF_vars(Display)
  /\ WF_vars(ConsoleOwn) /\ WF_vars(MainCleanup)

FairSpec == Spec /\ Fairness

----
(* Properties *)

(* Types; current_index is always an LED of the array, although the display *)
(* thread steps it up and down without a bound.                            *)
TypeOK ==
  /\ build \in Builds
  /\ stop \in {0, 1} /\ failsafe \in {0, 1} /\ emuPin \in {0, 1}
  /\ dist \in Notes \union {INVALID_NOTE_INDEX}
  /\ lit \subseteq Notes /\ missed \subseteq Notes
  /\ pwm \in Notes \union {Silent}
  /\ beamPc \in {"tick", "violation", "gate", "fetch", "play", "sound", "done"}
  /\ curr \in {0, 1}
  /\ broken_ticks \in 0..BEAM_ALIGNMENT_WARN_TICKS
  /\ beamNote \in Notes
  /\ distPc \in {"tick", "alarm", "write", "done"}
  /\ reading \in Readings
  /\ dispPc \in {"start", "tick", "read", "shiftOff", "shiftOn", "relight",
                "dark", "done"}
  /\ current_index \in Notes
  /\ dispFailsafe \in {0, 1} /\ waking \in {0, 1}
  /\ dispNote \in Notes \union {INVALID_NOTE_INDEX}
  /\ consPc \in {"loop", "fgets", "enter", "exit", "done"}
  /\ mainPc \in {"join", "done"}
  /\ faults \in 0..MaxFaults
  /\ lateNotes \in Nat

(* Of the LEDs whose latest write worked, none but the current one is on,  *)
(* and between two passes of the display thread that one is on exactly     *)
(* when the thread last saw no failsafe: it comes back after an override   *)
(* whether or not the note moved meanwhile, whatever the failsafe did      *)
(* between two passes, and one failing write disturbs no other LED.        *)
LedsFollowFailsafe ==
  /\ lit \subseteq {current_index} \union missed
  /\ dispPc = "tick" /\ stop = 0 /\ current_index \notin missed =>
       (current_index \in lit <=> dispFailsafe = 0)

(* The failsafe does not silence a note that was let through before it,    *)
(* but at most that one starts: until the operator overrides it, no later  *)
(* beam break sounds, even when locks fail.                                *)
AtMostOneLateNote == lateNotes <= 1

(* Once main has cleaned up, nothing sounds and (on the board) no LED is   *)
(* on but one that cannot be cleared: the threads that drive the pins are  *)
(* gone before the pins are reset.                                         *)
QuietAfterExit ==
  mainPc = "done" => pwm = Silent /\ (build = "bbb" => lit \subseteq missed)

(* A failsafe that nobody overrides silences the buzzer and puts out the   *)
(* LEDs for good, but one that missed its write, which is not repeated.    *)
SafeStateReached ==
  <>[](failsafe = 1 /\ stop = 0) => <>[](pwm = Silent /\ lit \subseteq missed)

(* When the note stays the same outside the failsafe, the light reaches    *)
(* it, however many LEDs away, and stays, but for LEDs that missed a write.*)
DisplayConverges ==
  \A n \in Notes :
    <>[](dist = n /\ failsafe = 0 /\ stop = 0) =>
      <>[](lit \ missed = {n} \ missed)

(* A sensor that keeps failing puts the system back into the safe state    *)
(* after every override.                                                   *)
AlarmReasserted ==
  <>[](reading \in Alarming /\ stop = 0) => []<>(failsafe = 1)

(* After stop, the threads that need no input end and the buzzer is off.   *)
StopEndsThreads ==
  (stop = 1) ~> /\ beamPc = "done" /\ distPc = "done" /\ dispPc = "done"
                /\ pwm = Silent

(* After stop, unless the console is waiting for a line, main cleans up:   *)
(* 'q' ends the program without further input.                             *)
QuitEndsProgram == (stop = 1 /\ consPc # "fgets") ~> (mainPc = "done")

(* README: "Safe-state (LEDs turn off and sound is not output)".  Read     *)
(* weakly: no note starts to sound while the failsafe is on.  The beam     *)
(* thread asks for the failsafe before it fetches the note and not again.  *)
NoNoteStartsInSafeState ==
  [][pwm = Silent /\ pwm' # Silent => failsafe = 0]_vars

(* Slides: "If the distance sensor detects a value outside of the playable *)
(* note range, no audio will be produced".  Read weakly: the beam thread   *)
(* does not fetch a note while the latest completed measurement is beyond  *)
(* the notes.  The distance thread drops such a reading and leaves the     *)
(* last playable note published.                                           *)
OutOfRangeIsSilent ==
  [][beamPc = "fetch" /\ beamPc' = "play" => reading # BeyondNotes]_vars
====
