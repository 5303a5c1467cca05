---- MODULE BeamThread ----
(***************************************************************************)
(* beam_thread.c against the clock: when the thread polls, what a note's   *)
(* duration hides from the timestamp queue, when it warns of a beam held   *)
(* broken, and what its writes do to the buzzer.  It composes the thread   *)
(* with TimestampQueue, Timing and PwmSysfs; AirPiano has the same thread  *)
(* among the others, without time.                                         *)
(*                                                                         *)
(* Time passes in sleeps.  A sleep ends at most MaxLate late; that stands  *)
(* for every delay of a pass, as a delayed poll and a delayed wake-up are  *)
(* the same.  Logging takes no time and changes nothing here.              *)
(***************************************************************************)
EXTENDS PwmSysfs, Timing, Sequences

CONSTANTS MAX_BREAKS_PER_SECOND,
          BEAM_PERIOD_NS, BEAM_TICKS_PER_SEC, BEAM_ALIGNMENT_WARN_TICKS,
          UINT32,         \* values of broken_ticks
          note_duration,  \* args->note_duration
          MaxLate,        \* bound: lateness of a wake-up
          MaxTime,        \* bound: the clock at the last poll
          MaxBreaks       \* bound: breaks queued

ASSUME BeamAssumption ==
  /\ MAX_BREAKS_PER_SECOND \in 1..255     \* head is a uint8_t
  /\ BEAM_PERIOD_NS \in Nat \ {0} /\ BEAM_TICKS_PER_SEC \in Nat \ {0}
  /\ BEAM_ALIGNMENT_WARN_TICKS \in Nat \ {0, 1}
  /\ UINT32 \in Nat /\ UINT32 > BEAM_ALIGNMENT_WARN_TICKS + BEAM_TICKS_PER_SEC
  /\ note_duration \in Nat \ {0}
  /\ MaxLate \in Nat /\ MaxTime \in Nat /\ MaxBreaks \in Nat

VARIABLES
  stop, now,                 \* stop.c, CLOCK_MONOTONIC
  beamPc, curr, broken_ticks,
  next_time,                 \* a TIME_TYPE
  queue, head, violation, breaks,
  sounded,   \* history: for each queued break, whether its note was full
  intact,    \* history: an intact beam was read since the last break
  quiet,     \* history: polls of a broken beam since it broke or the warning
  polls      \* history: polls so far

Queue == INSTANCE TimestampQueue
           WITH Times <- Nat, MaxAppends <- MaxBreaks

queueVars == <<queue, head, violation, breaks>>
history == <<sounded, intact, quiet, polls>>
beamVars == <<stop, now, beamPc, curr, broken_ticks, next_time, queueVars,
              history>>
vars == <<beamVars, pwmVars>>

(* The program starts when the clock is past its first second; within it   *)
(* every break is a violation (see SlidingWindow).                         *)
StartTime == BILLION

Init ==
  /\ PwmInit
  /\ Queue!Init
  /\ stop = 0 /\ now = StartTime
  /\ beamPc = "poll" /\ curr = 1 /\ broken_ticks = 0
  /\ next_time = ns_to_time(StartTime)
  /\ sounded = <<>> /\ intact = TRUE /\ quiet = 0 /\ polls = 0

----
(* A beam that is broken now and was not at the last poll.                 *)
(* Mutant: told by the tick count.                                         *)
FallingEdgeByTicks == curr' = 0 /\ broken_ticks' = 1

FallingEdge ==
  /\ curr' = 0 /\ curr # 0
  /\ broken_ticks' < BEAM_ALIGNMENT_WARN_TICKS

(* Mutant: the threshold itself is not warned about.                       *)
WarnOneLate ==
  /\ curr' = 0
  /\ broken_ticks' > BEAM_ALIGNMENT_WARN_TICKS
  /\ (broken_ticks' - BEAM_ALIGNMENT_WARN_TICKS - 1) % BEAM_TICKS_PER_SEC = 0

(* The alignment warning.                                                  *)
Warn ==
  /\ curr' = 0
  /\ broken_ticks' >= BEAM_ALIGNMENT_WARN_TICKS
  /\ (broken_ticks' - BEAM_ALIGNMENT_WARN_TICKS) % BEAM_TICKS_PER_SEC = 0

(* A failing read leaves the last level.                                   *)
pin_io_read ==
  \/ curr' \in {0, 1} /\ UNCHANGED ioFaults
  \/ curr' = curr /\ WriteFails(TRUE)

(* A pass of the loop up to output_note.                                   *)
Poll ==
  /\ beamPc = "poll" /\ stop = 0 /\ now <= MaxTime
  /\ pin_io_read
  /\ broken_ticks' = IF curr' = 0 THEN (broken_ticks + 1) % UINT32 ELSE 0
  /\ quiet' = IF curr' = 1 \/ Warn THEN 0 ELSE quiet + 1
  /\ polls' = polls + 1
  /\ IF FallingEdge
     THEN /\ Queue!AppendTimestamp(now)
          /\ sounded' = Append(sounded, FALSE) /\ intact' = FALSE
          /\ beamPc' = IF violation' THEN "wait" ELSE "output"
     ELSE /\ intact' = (intact \/ curr' = 1)
          /\ beamPc' = "wait"
          /\ UNCHANGED <<queueVars, sounded>>
  /\ UNCHANGED <<stop, now, next_time, channel, call, asked, err, clean,
                 offFailed>>

(* Mutant: the wake-up times go on from before the note.                   *)
UpdateNextTimeNot == UNCHANGED next_time

(* get_current_time(&next_time) after output_note, with or without a note. *)
UpdateNextTime == next_time' = ns_to_time(now)

(* output_note ends without a note: failsafe, error, or no valid note yet. *)
OutputNothing ==
  /\ beamPc = "output"
  /\ UpdateNextTime
  /\ beamPc' = "wait"
  /\ UNCHANGED <<stop, now, curr, broken_ticks, queueVars, history, pwmVars>>

OutputNote ==
  /\ beamPc = "output"
  /\ \E n \in PwmNotes : pwm_play(n)
  /\ beamPc' = "play"
  /\ UNCHANGED <<stop, now, curr, broken_ticks, next_time, queueVars, history>>

OutputWrite ==
  /\ beamPc = "play"
  /\ PlayWrite
  /\ UNCHANGED beamVars

(* sleep_relative_ns(note_duration), whatever pwm_play returned.  A stop   *)
(* cuts it short if its signal comes to this thread or is already there.   *)
OutputSleep ==
  /\ beamPc = "play" /\ call = "none"
  /\ \/ /\ \E late \in 0..MaxLate : now' = now + note_duration + late
        /\ sounded' = [sounded EXCEPT ![Len(sounded)] = TRUE]
     \/ stop = 1 /\ now' \in now..(now + note_duration) /\ UNCHANGED sounded
  /\ beamPc' = "stop"
  /\ UNCHANGED <<stop, curr, broken_ticks, next_time, queueVars, intact, quiet,
                 polls, pwmVars>>

(* Mutant: after a stop nothing is left to do.                             *)
OutputStopUnlessStopped ==
  /\ beamPc = "stop"
  /\ IF stop = 0 THEN pwm_stop ELSE UNCHANGED pwmVars
  /\ UpdateNextTime
  /\ beamPc' = "wait"
  /\ UNCHANGED <<stop, now, curr, broken_ticks, queueVars, history>>

OutputStop ==
  /\ beamPc = "stop"
  /\ pwm_stop
  /\ UpdateNextTime
  /\ beamPc' = "wait"
  /\ UNCHANGED <<stop, now, curr, broken_ticks, queueVars, history>>

(* The next wake-up time is one period after the last, not after this      *)
(* pass; a time in the past, or a stop, is no wait at all.                 *)
Wait ==
  /\ beamPc = "wait"
  /\ next_time' = time_add_ns(next_time, BEAM_PERIOD_NS)
  /\ LET due == time_to_ns(next_time')
         wake == IF due > now THEN due ELSE now
     IN \/ now' \in wake..(wake + MaxLate)
        \/ stop = 1 /\ now' \in now..wake
  /\ beamPc' = "poll"
  /\ UNCHANGED <<stop, curr, broken_ticks, queueVars, history, pwmVars>>

Exit ==
  /\ beamPc = "poll" /\ stop = 1
  /\ pwm_stop
  /\ beamPc' = "done"
  /\ UNCHANGED <<stop, now, curr, broken_ticks, next_time, queueVars, history>>

SetStop ==
  /\ stop' = 1
  /\ UNCHANGED <<now, beamPc, curr, broken_ticks, next_time, queueVars,
                 history, pwmVars>>

Next == \/ Poll \/ OutputNothing \/ OutputNote \/ OutputWrite \/ OutputSleep
        \/ OutputStop \/ Wait \/ Exit \/ SetStop

Spec == Init /\ [][Next]_vars

----
(* Properties *)

(* Types; the wake-up time is a normal timespec whatever was added to it.  *)
TypeOK ==
  /\ PwmTypeOK
  /\ Queue!TypeOK
  /\ stop \in {0, 1} /\ now \in Nat
  /\ beamPc \in {"poll", "output", "play", "stop", "wait", "done"}
  /\ curr \in {0, 1} /\ broken_ticks \in 0..(UINT32 - 1)
  /\ next_time \in TIME_TYPE
  /\ sounded \in Seq(BOOLEAN) /\ Len(sounded) = Len(breaks)
  /\ intact \in BOOLEAN /\ quiet \in Nat /\ polls \in Nat

(* A hand that breaks the beam once is one break, however long it stays,   *)
(* through the alignment warnings, a wrap of the tick count and failing    *)
(* reads: between two queued breaks the beam was seen intact.              *)
OneBreakPerHold == [][breaks' # breaks => intact]_vars

(* A beam held broken is warned about after BEAM_ALIGNMENT_WARN_TICKS, and *)
(* from then on every BEAM_TICKS_PER_SEC polls.  A tick count that wraps   *)
(* begins anew, which delays one warning and loses none for good.          *)
HeldBeamWarned ==
  quiet < BEAM_TICKS_PER_SEC + (IF broken_ticks < BEAM_ALIGNMENT_WARN_TICKS
                                THEN BEAM_ALIGNMENT_WARN_TICKS ELSE 0)

(* The polls keep to their rate: late ones are made up for, but never are  *)
(* there more than the periods since the start.                            *)
PollsPaced == polls * BEAM_PERIOD_NS <= now - StartTime + BEAM_PERIOD_NS

(* The next break is at least the note and two periods after one that      *)
(* sounded: there is no burst of polls to make up for the note, and a      *)
(* break takes an intact beam in between.                                  *)
SoundedBreaksSpaced ==
  \A i \in 1..(Len(breaks) - 1) :
    sounded[i] =>
      breaks[i + 1] - breaks[i] >= note_duration + 2 * BEAM_PERIOD_NS

(* With notes long enough that the queue's second is full of them, beam    *)
(* breaks alone never bring the failsafe while they sound: one of the      *)
(* breaks behind a violation was silent.                                   *)
LongNotes == (MAX_BREAKS_PER_SECOND - 1)
               * (note_duration + 2 * BEAM_PERIOD_NS) >= BILLION
SilenceBehindViolation ==
  violation /\ LongNotes =>
    \E i \in 1..(Len(breaks) - 1) :
      i > Len(breaks) - MAX_BREAKS_PER_SECOND /\ ~sounded[i]

(* pwm_play keeps its word: if it reports success the note asked for       *)
(* sounds with its own period and duty cycle, and it does succeed whenever *)
(* no write failed by itself in it, whatever note was played before and    *)
(* whatever failed then.                                                   *)
PlayKeepsItsWord ==
  beamPc = "play" /\ call = "none" =>
    /\ err = "SUCCESS" => Sounds(asked)
    /\ clean => err = "SUCCESS"

(* Outside a note the buzzer sounds only if the last attempt to disable it *)
(* failed, or none was made yet on one an earlier run had left on.         *)
SilentBetweenNotes ==
  beamPc \in {"poll", "output", "wait", "done"} /\ enable = 1 => offFailed
====
