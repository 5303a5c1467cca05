---- MODULE BeamThread_proofs ----
(***************************************************************************)
(* For every period, duration, warning rate, note table and number of      *)
(* slots, and however late the thread is woken up: the properties of       *)
(* BeamThread.                                                             *)
(***************************************************************************)
EXTENDS BeamThread, Timing_proofs, TLAPS

(* What is proved about the queue by itself.                               *)
QueueProofs == INSTANCE TimestampQueue_proofs
                 WITH Times <- Nat, MaxAppends <- MaxBreaks

(* When the next pass is due, as a number.                                 *)
due_ns == time_to_ns(next_time)

(* What the latest break is, and whether its note was full.                *)
LastBreak == breaks[Len(breaks)]
LastSounded == breaks # <<>> /\ sounded[Len(breaks)]

(* Between two writes of pwm_play: what the channel holds already.  Only   *)
(* the result of the disabling write and of the duty cycle's reset go      *)
(* unnoticed, and they can only fail by themselves (not clean), the reset  *)
(* also on a channel without a period, where the duty cycle is 0 anyway.   *)
PlayInv ==
  /\ period = 0 => duty = 0
  /\ call # "none" => err = "SUCCESS"
  /\ call \in {"zero", "period"} /\ clean => enable = 0
  /\ call = "period" /\ clean => duty = 0
  /\ call \in {"duty", "enable"} => period = period_ns[asked]
  /\ call = "enable" => duty = duty_ns[asked]
  /\ call # "none" => beamPc = "play"

(* The edge detection remembers the beam that the history does.            *)
EdgeInv == curr = 1 => intact

(* The polls since the last warning, told by the tick count; before the    *)
(* first warning of a wrapped count, up to one round of warnings is open.  *)
TickInv ==
  /\ broken_ticks < BEAM_ALIGNMENT_WARN_TICKS =>
       quiet <= BEAM_TICKS_PER_SEC + broken_ticks
  /\ broken_ticks >= BEAM_ALIGNMENT_WARN_TICKS =>
       quiet = (broken_ticks - BEAM_ALIGNMENT_WARN_TICKS) % BEAM_TICKS_PER_SEC

(* The wake-up times leave a period for each poll done.                    *)
PaceInv ==
  /\ StartTime <= now
  /\ StartTime + polls * BEAM_PERIOD_NS
       <= due_ns + (IF beamPc = "poll" THEN 0 ELSE BEAM_PERIOD_NS)
  /\ beamPc = "poll" /\ stop = 0 => due_ns <= now

(* The period since a pass that saw the beam intact.                       *)
SeenIntact == IF curr = 1 THEN BEAM_PERIOD_NS ELSE 0

(* After a break that sounded the next pass is due a period after the end  *)
(* of the note, and a pass that saw the beam intact is one period more.    *)
GapInv ==
  /\ breaks # <<>> => LastBreak <= now
  /\ beamPc \in {"output", "play"} => ~LastSounded
  /\ beamPc \in {"output", "play", "stop"} => breaks # <<>> /\ curr = 0
  /\ beamPc = "stop" /\ LastSounded => LastBreak + note_duration <= now
  /\ beamPc = "wait" /\ LastSounded =>
       LastBreak + note_duration + SeenIntact <= due_ns
  /\ beamPc = "poll" /\ stop = 0 /\ LastSounded =>
       LastBreak + note_duration + BEAM_PERIOD_NS + SeenIntact <= due_ns

(* A row of breaks that all sounded adds up.                               *)
Spacing == note_duration + 2 * BEAM_PERIOD_NS
RowInv ==
  \A i \in 1..Len(breaks) :
    (\A j \in i..(Len(breaks) - 1) : sounded[j]) =>
      (Len(breaks) - i) * Spacing <= LastBreak - breaks[i]

(* A violation is the queue's: MAX_BREAKS_PER_SECOND breaks in a second.   *)
ViolationInv ==
  violation =>
    /\ MAX_BREAKS_PER_SECOND <= Len(breaks)
    /\ LastBreak - breaks[Len(breaks) - MAX_BREAKS_PER_SECOND + 1] < BILLION

(* The inductive invariant.                                                *)
IInv ==
  /\ TypeOK /\ QueueProofs!IInv
  /\ PlayInv /\ PlayKeepsItsWord /\ SilentBetweenNotes
  /\ EdgeInv /\ TickInv
  /\ PaceInv /\ PollsPaced
  /\ GapInv /\ SoundedBreaksSpaced /\ RowInv
  /\ ViolationInv

----
(* The composed queue is the queue proved about, with its assumption met.  *)
LEMMA QueueMeetsAssumption == QueueProofs!QueueAssumption
BY BeamAssumption, TimingAssumption DEF QueueProofs!QueueAssumption

(* What an append does, as the thread sees it: the history grows by the    *)
(* break, and a violation is MAX_BREAKS_PER_SECOND breaks in a second.     *)
LEMMA QueueAppends ==
  ASSUME QueueProofs!IInv, NEW t \in Nat, t >= BILLION,
         Queue!AppendTimestamp(t)
  PROVE  /\ QueueProofs!IInv'
         /\ breaks \in Seq(Nat) /\ breaks' = Append(breaks, t)
         /\ violation' \in BOOLEAN
         /\ ViolationInv'
<1>1. QueueProofs!AppendTimestamp(t)
  BY DEF Queue!AppendTimestamp, Queue!Advance, Queue!NotEarlier,
         Queue!MAX_QUEUE_INDEX_INCL,
         QueueProofs!AppendTimestamp, QueueProofs!Advance,
         QueueProofs!NotEarlier, QueueProofs!MAX_QUEUE_INDEX_INCL
<1>2. /\ QueueProofs!IInv'
      /\ violation' = (t - QueueProofs!NthLatest(MAX_BREAKS_PER_SECOND)'
                         < BILLION)
  BY <1>1, QueueMeetsAssumption, QueueProofs!AppendStep
<1>3. /\ breaks \in Seq(Nat) /\ breaks' = Append(breaks, t)
      /\ violation' \in BOOLEAN
  BY <1>1, <1>2 DEF QueueProofs!AppendTimestamp, QueueProofs!IInv,
                    QueueProofs!TypeOK
<1>4. breaks'[Len(breaks')] = t /\ Len(breaks') \in Nat
  BY <1>3
<1>. DEFINE oldest == QueueProofs!NthLatest(MAX_BREAKS_PER_SECOND)'
<1>0. violation' => t - oldest < BILLION
  BY <1>2
<1>5. ASSUME violation', ~(MAX_BREAKS_PER_SECOND <= Len(breaks'))
      PROVE  FALSE
  <2>1. oldest = 0
    BY <1>5 DEF QueueProofs!NthLatest
  <2>2. t - 0 < BILLION
    BY <1>0, <1>5, <2>1
  <2>. QED
    BY <2>2, TimingAssumption
<1>6. ViolationInv'
  BY <1>0, <1>4, <1>5 DEF ViolationInv, LastBreak, QueueProofs!NthLatest
<1>. QED
  BY <1>2, <1>3, <1>6

(* Replacing the last element of a sequence.                               *)
LEMMA ReplaceLast ==
  ASSUME NEW S, NEW s \in Seq(S), s # <<>>, NEW e \in S
  PROVE  /\ [s EXCEPT ![Len(s)] = e] \in Seq(S)
         /\ Len([s EXCEPT ![Len(s)] = e]) = Len(s)
         /\ \A i \in 1..Len(s) :
              [s EXCEPT ![Len(s)] = e][i] = IF i = Len(s) THEN e ELSE s[i]
<1>1. PICK n \in 1..Len(s) : n = Len(s)
  OBVIOUS
<1>2. [s EXCEPT ![n] = e] \in Seq(S)
  OBVIOUS
<1>3. Len([s EXCEPT ![n] = e]) = Len(s)
  OBVIOUS
<1>4. \A i \in 1..Len(s) : [s EXCEPT ![n] = e][i] = IF i = n THEN e ELSE s[i]
  OBVIOUS
<1>. QED
  BY <1>1, <1>2, <1>3, <1>4

(* Only a falling edge of the beam touches the queue, and it appends now.  *)
LEMMA QueueStep ==
  ASSUME IInv, [Next]_vars
  PROVE  /\ QueueProofs!IInv'
         /\ breaks \in Seq(Nat) /\ now \in Nat /\ violation' \in BOOLEAN
         /\ \/ UNCHANGED queueVars
            \/ /\ Poll /\ FallingEdge
               /\ breaks' = Append(breaks, now) /\ ViolationInv'
<1>1. /\ breaks \in Seq(Nat) /\ violation \in BOOLEAN
      /\ now \in Nat /\ now >= BILLION
  BY TimingAssumption DEF IInv, TypeOK, PaceInv, StartTime, Queue!TypeOK
<1>2. CASE UNCHANGED queueVars
  <2>1. QueueProofs!IInv'
    BY <1>2 DEF IInv, queueVars, QueueProofs!IInv, QueueProofs!TypeOK,
                QueueProofs!RingHoldsLatestBreaks, QueueProofs!NthLatest,
                QueueProofs!Sorted
  <2>. QED
    BY <1>1, <1>2, <2>1 DEF queueVars
<1>3. CASE Poll /\ FallingEdge
  <2>1. Queue!AppendTimestamp(now)
    BY <1>3 DEF Poll
  <2>. QED
    BY <1>1, <1>3, <2>1, QueueAppends DEF IInv
<1>4. Poll /\ ~FallingEdge => UNCHANGED queueVars
  BY DEF Poll
<1>5. Next => Poll \/ UNCHANGED queueVars
  BY DEF Next, OutputNothing, OutputNote, OutputWrite, OutputSleep,
         OutputStop, Wait, Exit, SetStop, beamVars
<1>6. UNCHANGED vars => UNCHANGED queueVars
  BY DEF vars, beamVars
<1>. QED
  BY <1>2, <1>3, <1>4, <1>5, <1>6

(* A write to the channel keeps the types of what it may change.           *)
LEMMA DisableTypes ==
  ASSUME PwmTypeOK, Disable
  PROVE  /\ enable' \in {0, 1} /\ offFailed' \in BOOLEAN
         /\ ioFaults' \in 0..MaxIoFaults /\ UNCHANGED <<period, duty>>
<1>1. ioFaults \in 0..MaxIoFaults /\ MaxIoFaults \in Nat /\ enable \in {0, 1}
  BY PwmAssumption DEF PwmTypeOK
<1>2. /\ \/ UNCHANGED ioFaults /\ enable' = 0 /\ offFailed' = FALSE
         \/ /\ ioFaults < MaxIoFaults /\ ioFaults' = ioFaults + 1
            /\ UNCHANGED enable /\ offFailed' = TRUE
      /\ UNCHANGED <<period, duty>>
  BY DEF Disable, WriteWorks, WriteFails, TakesEnable
<1>3. enable' \in {0, 1} /\ offFailed' \in BOOLEAN
  BY <1>1, <1>2
<1>4. ioFaults' \in 0..MaxIoFaults
  BY <1>1, <1>2
<1>. QED
  BY <1>2, <1>3, <1>4

(* A write of pwm_play keeps the types of the channel and of the call.     *)
LEMMA WriteTypes ==
  ASSUME PwmTypeOK, PlayWrite
  PROVE  PwmTypeOK'
<1>1. /\ period_ns[asked] \in Nat /\ duty_ns[asked] \in Nat
      /\ ioFaults \in 0..MaxIoFaults /\ MaxIoFaults \in Nat
  BY PwmAssumption DEF PwmTypeOK
<1>3. CASE PlayDisable
  BY <1>3, DisableTypes DEF PlayDisable, Continue, PwmTypeOK
<1>4. CASE PlayZeroDuty
  <2>1. ioFaults' \in 0..MaxIoFaults
    BY <1>1, <1>4 DEF PlayZeroDuty, WriteWorks, WriteFails
  <2>. QED
    BY <1>4, <2>1 DEF PlayZeroDuty, Continue, PwmTypeOK
<1>5. CASE PlayPeriod
  <2>1. ioFaults' \in 0..MaxIoFaults
    BY <1>1, <1>5 DEF PlayPeriod, WriteWorks, WriteFails
  <2>. QED
    BY <1>1, <1>5, <2>1 DEF PlayPeriod, Continue, Fail, PwmTypeOK
<1>6. CASE PlayDuty
  <2>1. ioFaults' \in 0..MaxIoFaults
    BY <1>1, <1>6 DEF PlayDuty, WriteWorks, WriteFails
  <2>. QED
    BY <1>1, <1>6, <2>1 DEF PlayDuty, Continue, Fail, PwmTypeOK
<1>7. CASE PlayEnable
  <2>1. ioFaults' \in 0..MaxIoFaults
    BY <1>1, <1>7 DEF PlayEnable, WriteWorks, WriteFails
  <2>. QED
    BY <1>7, <2>1 DEF PlayEnable, Continue, Fail, PwmTypeOK
<1>. QED
  BY <1>3, <1>4, <1>5, <1>6, <1>7 DEF PlayWrite

(* So does the start of a pwm_play.                                        *)
LEMMA PlayTypes ==
  ASSUME PwmTypeOK, NEW n \in PwmNotes, pwm_play(n)
  PROVE  PwmTypeOK'
BY DEF PwmTypeOK, pwm_play, channel

(* So does pwm_stop.                                                       *)
LEMMA StopTypes ==
  ASSUME PwmTypeOK, pwm_stop
  PROVE  PwmTypeOK'
BY DisableTypes DEF pwm_stop, PwmTypeOK

(* The types of the channel, whatever the thread does.                     *)
LEMMA PwmTypeStep ==
  ASSUME PwmTypeOK, [Next]_vars
  PROVE  PwmTypeOK'
<1>1. CASE UNCHANGED pwmVars
  BY <1>1 DEF pwmVars, channel, PwmTypeOK
<1>2. CASE Poll
  <2>1. ioFaults \in 0..MaxIoFaults /\ MaxIoFaults \in Nat
    BY PwmAssumption DEF PwmTypeOK
  <2>2. ioFaults' = ioFaults \/ (ioFaults < MaxIoFaults /\ ioFaults' = ioFaults + 1)
    BY <1>2 DEF Poll, pin_io_read, WriteFails
  <2>3. ioFaults' \in 0..MaxIoFaults
    BY <2>1, <2>2
  <2>. QED
    BY <1>2, <2>3 DEF Poll, channel, PwmTypeOK
<1>3. CASE OutputNote
  BY <1>3, PlayTypes DEF OutputNote
<1>4. CASE OutputWrite
  BY <1>4, WriteTypes DEF OutputWrite
<1>5. CASE OutputStop \/ Exit
  BY <1>5, StopTypes DEF OutputStop, Exit
<1>. QED
  BY <1>1, <1>2, <1>3, <1>4, <1>5
  DEF Next, OutputNothing, OutputSleep, Wait, SetStop, vars

(* A wake-up is not before the pass it ends, nor before it is due.         *)
LEMMA WaitStep ==
  ASSUME TypeOK, Wait
  PROVE  /\ now' \in Nat /\ now <= now'
         /\ next_time' \in TIME_TYPE
         /\ due_ns' = due_ns + BEAM_PERIOD_NS
         /\ stop = 0 => due_ns' <= now'
<1>1. /\ next_time \in TIME_TYPE /\ BEAM_PERIOD_NS \in Nat
      /\ now \in Nat /\ MaxLate \in Nat
  BY BeamAssumption DEF TypeOK
<1>2. /\ next_time' \in TIME_TYPE
      /\ time_to_ns(next_time') = time_to_ns(next_time) + BEAM_PERIOD_NS
  BY <1>1, AddIsSum DEF Wait
<1>3. time_to_ns(next_time') \in Int
  BY <1>2, TimingAssumption DEF time_to_ns, TIME_TYPE
<1>. DEFINE due == time_to_ns(next_time')
            wake == IF due > now THEN due ELSE now
<1>4. \/ now' \in wake..(wake + MaxLate)
      \/ stop = 1 /\ now' \in now..wake
  BY DEF Wait
<1>5. wake \in Nat /\ now <= wake /\ due <= wake
  BY <1>1, <1>3
<1>6. now' \in Nat /\ now <= now'
  BY <1>1, <1>4, <1>5
<1>7. stop = 0 => due <= now'
  BY <1>1, <1>3, <1>4, <1>5
<1>. QED
  BY <1>2, <1>6, <1>7 DEF due_ns

(* UpdateNextTime and the initial state: due at once.                      *)
LEMMA DueNow ==
  ASSUME NEW t \in Nat
  PROVE  ns_to_time(t) \in TIME_TYPE /\ time_to_ns(ns_to_time(t)) = t
BY RoundTrip

(* A note takes its duration, or what a stop leaves of it.                 *)
LEMMA SleepStep ==
  ASSUME TypeOK, OutputSleep, breaks # <<>>
  PROVE  /\ now' \in Nat /\ now <= now'
         /\ sounded' \in Seq(BOOLEAN) /\ Len(sounded') = Len(sounded)
         /\ \A i \in 1..(Len(breaks) - 1) : sounded'[i] = sounded[i]
         /\ \/ now + note_duration <= now'
            \/ sounded' = sounded
<1>1. /\ now \in Nat /\ note_duration \in Nat /\ MaxLate \in Nat
      /\ sounded \in Seq(BOOLEAN) /\ Len(sounded) = Len(breaks)
      /\ breaks \in Seq(Nat)
  BY BeamAssumption DEF TypeOK, Queue!TypeOK
<1>2. sounded # <<>> /\ Len(breaks) \in Nat
  BY <1>1
<1>3. ASSUME NEW late \in 0..MaxLate, now' = now + note_duration + late,
             sounded' = [sounded EXCEPT ![Len(sounded)] = TRUE]
      PROVE  /\ now' \in Nat /\ now <= now' /\ now + note_duration <= now'
             /\ sounded' \in Seq(BOOLEAN) /\ Len(sounded') = Len(sounded)
             /\ \A i \in 1..(Len(breaks) - 1) : sounded'[i] = sounded[i]
  <2>1. now' \in Nat /\ now <= now' /\ now + note_duration <= now'
    BY <1>1, <1>3
  <2>2. /\ sounded' \in Seq(BOOLEAN) /\ Len(sounded') = Len(sounded)
        /\ \A i \in 1..Len(sounded) :
             sounded'[i] = IF i = Len(sounded) THEN TRUE ELSE sounded[i]
    <3>1. PICK full \in BOOLEAN : full = TRUE
      OBVIOUS
    <3>2. sounded' = [sounded EXCEPT ![Len(sounded)] = full]
      BY <1>3, <3>1
    <3>3. /\ sounded' \in Seq(BOOLEAN) /\ Len(sounded') = Len(sounded)
          /\ \A i \in 1..Len(sounded) :
               sounded'[i] = IF i = Len(sounded) THEN full ELSE sounded[i]
      BY <1>1, <1>2, <3>2, ReplaceLast
    <3>. QED
      BY <3>1, <3>3
  <2>3. \A i \in 1..(Len(breaks) - 1) : i \in 1..Len(sounded) /\ i # Len(sounded)
    BY <1>1, <1>2
  <2>. QED
    BY <2>1, <2>2, <2>3
<1>4. ASSUME now' \in now..(now + note_duration), UNCHANGED sounded
      PROVE  now' \in Nat /\ now <= now'
  BY <1>1, <1>4
<1>5. \/ \E late \in 0..MaxLate :
           /\ now' = now + note_duration + late
           /\ sounded' = [sounded EXCEPT ![Len(sounded)] = TRUE]
      \/ now' \in now..(now + note_duration) /\ UNCHANGED sounded
  BY DEF OutputSleep
<1>. QED
  BY <1>1, <1>3, <1>4, <1>5

(* Types.                                                                  *)
LEMMA TypeStep ==
  ASSUME IInv, [Next]_vars
  PROVE  TypeOK'
<1>0. /\ TypeOK /\ stop \in {0, 1} /\ now \in Nat
      /\ curr \in {0, 1} /\ broken_ticks \in 0..(UINT32 - 1)
      /\ next_time \in TIME_TYPE
      /\ sounded \in Seq(BOOLEAN) /\ Len(sounded) = Len(breaks)
      /\ intact \in BOOLEAN /\ quiet \in Nat /\ polls \in Nat
      /\ breaks \in Seq(Nat)
  BY DEF IInv, TypeOK, Queue!TypeOK
<1>1. PwmTypeOK'
  BY <1>0, PwmTypeStep DEF TypeOK
<1>2. Queue!TypeOK'
  BY QueueStep DEF QueueProofs!IInv, QueueProofs!TypeOK, Queue!TypeOK,
                   QueueProofs!Slots, Queue!Slots,
                   QueueProofs!MAX_QUEUE_INDEX_INCL, Queue!MAX_QUEUE_INDEX_INCL
<1>3. CASE Poll
  <2>1. curr' \in {0, 1}
    BY <1>0, <1>3 DEF Poll, pin_io_read
  <2>2. broken_ticks' \in 0..(UINT32 - 1)
    BY <1>0, <1>3, BeamAssumption DEF Poll
  <2>3. quiet' \in Nat /\ polls' \in Nat /\ intact' \in BOOLEAN
    <3>1. intact' \in BOOLEAN
      <4>1. CASE FallingEdge
        BY <1>3, <4>1 DEF Poll
      <4>2. CASE ~FallingEdge
        BY <1>3, <4>2, Zenon DEF Poll
      <4>. QED
        BY <4>1, <4>2
    <3>2. quiet' \in Nat /\ polls' \in Nat
      BY <1>0, <1>3 DEF Poll
    <3>. QED
      BY <3>1, <3>2
  <2>4. beamPc' \in {"wait", "output"} /\ UNCHANGED <<stop, now, next_time>>
    BY <1>3 DEF Poll
  <2>5. sounded' \in Seq(BOOLEAN) /\ Len(sounded') = Len(breaks')
    <3>1. CASE FallingEdge
      <4>1. breaks' = Append(breaks, now)
        BY <1>3, <3>1 DEF Poll, Queue!AppendTimestamp
      <4>2. PICK silent \in BOOLEAN : silent = FALSE
        OBVIOUS
      <4>3. sounded' = Append(sounded, silent)
        BY <1>3, <3>1, <4>2 DEF Poll
      <4>4. sounded' \in Seq(BOOLEAN) /\ Len(sounded') = Len(sounded) + 1
        BY <1>0, <4>3
      <4>. QED
        BY <1>0, <4>1, <4>4
    <3>2. CASE ~FallingEdge
      BY <1>0, <1>3, <3>2 DEF Poll, queueVars
    <3>. QED
      BY <3>1, <3>2
  <2>. QED
    BY <1>0, <1>1, <1>2, <2>1, <2>2, <2>3, <2>4, <2>5 DEF TypeOK
<1>4. CASE OutputNothing \/ OutputStop
  <2>1. next_time' \in TIME_TYPE
    BY <1>0, <1>4, DueNow DEF OutputNothing, OutputStop, UpdateNextTime
  <2>. QED
    BY <1>0, <1>1, <1>2, <1>4, <2>1
    DEF TypeOK, OutputNothing, OutputStop, queueVars, history
<1>5. CASE OutputSleep
  <2>1. breaks # <<>>
    BY <1>5 DEF IInv, GapInv, OutputSleep
  <2>. QED
    BY <1>0, <1>1, <1>2, <1>5, <2>1, SleepStep DEF TypeOK, OutputSleep, queueVars
<1>6. CASE Wait
  BY <1>0, <1>1, <1>2, <1>6, WaitStep DEF TypeOK, Wait, queueVars, history
<1>7. CASE OutputNote \/ OutputWrite \/ Exit \/ SetStop \/ UNCHANGED vars
  BY <1>0, <1>1, <1>2, <1>7
  DEF TypeOK, OutputNote, OutputWrite, Exit, SetStop, vars, beamVars,
      queueVars, history
<1>. QED
  BY <1>3, <1>4, <1>5, <1>6, <1>7 DEF Next

----
(* The call of pwm_play.  A write of it that can be refused is one that    *)
(* PlayInv makes sure is taken, or fails by itself and is noticed.         *)
LEMMA PlayWriteStep ==
  ASSUME IInv, OutputWrite
  PROVE  PlayInv' /\ PlayKeepsItsWord'
<1>1. /\ enable \in {0, 1} /\ period \in Nat /\ duty \in Nat
      /\ period_ns[asked] \in Nat /\ duty_ns[asked] \in Nat
      /\ 0 < duty_ns[asked] /\ duty_ns[asked] < period_ns[asked]
      /\ ioFaults \in Nat /\ clean \in BOOLEAN
  BY PwmAssumption DEF IInv, TypeOK, PwmTypeOK
<1>2. PlayInv /\ beamPc = "play" /\ beamPc' = "play" /\ PlayWrite
  BY DEF IInv, OutputWrite, beamVars
<1>3. CASE PlayDisable
  <2>1. /\ err = "SUCCESS" /\ UNCHANGED <<period, duty, asked, err>>
        /\ call' = "zero" /\ (clean' => clean /\ ioFaults' = ioFaults)
        /\ \/ enable' = 0
           \/ ioFaults' = ioFaults + 1
    <3>1. clean' => clean /\ ioFaults' = ioFaults
      BY <1>3 DEF PlayDisable, Continue
    <3>2. enable' = 0 \/ ioFaults' = ioFaults + 1
      BY <1>3 DEF PlayDisable, Disable, WriteFails, TakesEnable
    <3>. QED
      BY <1>2, <1>3, <3>1, <3>2 DEF PlayDisable, Disable, Continue, PlayInv
  <2>. QED
    BY <1>1, <1>2, <2>1 DEF PlayInv, PlayKeepsItsWord
<1>4. CASE PlayZeroDuty
  <2>1. /\ err = "SUCCESS" /\ UNCHANGED <<period, enable, asked, err>>
        /\ call = "zero"
        /\ call' = "period" /\ (clean' => clean /\ ioFaults' = ioFaults)
        /\ \/ duty' = 0
           \/ duty' = duty /\ ioFaults' = ioFaults + 1
           \/ duty' = duty /\ ~(0 < period)
    BY <1>2, <1>4 DEF PlayZeroDuty, Continue, PlayInv, WriteWorks, WriteFails,
                      TakesDuty
  <2>. QED
    BY <1>1, <1>2, <2>1 DEF PlayInv, PlayKeepsItsWord
<1>5. CASE PlayPeriod
  <2>1. /\ err = "SUCCESS" /\ UNCHANGED <<enable, duty, asked>>
        /\ call = "period" /\ (clean' => clean /\ ioFaults' = ioFaults)
        /\ \/ period' = period_ns[asked] /\ call' = "duty" /\ err' = err
           \/ /\ period' = period /\ call' = "none" /\ err' = "ERR_GPIO"
              /\ \/ ioFaults' = ioFaults + 1
                 \/ ~(enable = 0 /\ duty < period_ns[asked])
    BY <1>2, <1>5 DEF PlayPeriod, Continue, Fail, PlayInv, WriteWorks,
                      WriteFails, TakesPeriod
  <2>. QED
    BY <1>1, <1>2, <2>1 DEF PlayInv, PlayKeepsItsWord
<1>6. CASE PlayDuty
  <2>1. /\ err = "SUCCESS" /\ UNCHANGED <<enable, period, asked>>
        /\ call = "duty" /\ (clean' => clean /\ ioFaults' = ioFaults)
        /\ \/ duty' = duty_ns[asked] /\ call' = "enable" /\ err' = err
           \/ /\ duty' = duty /\ call' = "none" /\ err' = "ERR_GPIO"
              /\ \/ ioFaults' = ioFaults + 1
                 \/ ~(duty_ns[asked] < period)
    BY <1>2, <1>6 DEF PlayDuty, Continue, Fail, PlayInv, WriteWorks,
                      WriteFails, TakesDuty
  <2>. QED
    BY <1>1, <1>2, <2>1 DEF PlayInv, PlayKeepsItsWord
<1>7. CASE PlayEnable
  <2>1. /\ err = "SUCCESS" /\ UNCHANGED <<period, duty, asked>>
        /\ call = "enable" /\ (clean' => clean /\ ioFaults' = ioFaults)
        /\ call' = "none"
        /\ \/ enable' = 1 /\ err' = err
           \/ /\ enable' = enable /\ err' = "ERR_GPIO"
              /\ \/ ioFaults' = ioFaults + 1
                 \/ ~(period > 0)
    BY <1>2, <1>7 DEF PlayEnable, Continue, Fail, PlayInv, WriteWorks,
                      WriteFails, TakesEnable
  <2>. QED
    BY <1>1, <1>2, <2>1 DEF PlayInv, PlayKeepsItsWord, Sounds
<1>. QED
  BY <1>2, <1>3, <1>4, <1>5, <1>6, <1>7 DEF PlayWrite

(* What the steps of the thread do to the buzzer.                          *)
LEMMA BuzzerStep ==
  ASSUME IInv, [Next]_vars
  PROVE  PlayInv' /\ PlayKeepsItsWord' /\ SilentBetweenNotes'
<1>0. PlayInv /\ PlayKeepsItsWord /\ SilentBetweenNotes /\ enable \in {0, 1}
  BY DEF IInv, TypeOK, PwmTypeOK
<1>1. CASE Poll \/ OutputNothing \/ OutputSleep \/ Wait \/ SetStop
           \/ UNCHANGED vars
  <2>1. /\ UNCHANGED <<enable, period, duty, call, asked, err, clean, offFailed>>
        /\ call # "none" => beamPc' = "play"
        /\ beamPc' = "play" => beamPc = "play"
        /\ beamPc' \in {"poll", "output", "wait", "done"} =>
             beamPc \in {"poll", "output", "wait", "done"}
    <3>1. UNCHANGED <<enable, period, duty, call, asked, err, clean, offFailed>>
      BY <1>1 DEF Poll, OutputNothing, OutputSleep, Wait, SetStop, vars, pwmVars,
                  channel
    <3>2. /\ call # "none" => beamPc' = "play"
          /\ beamPc' = "play" => beamPc = "play"
          /\ beamPc' \in {"poll", "output", "wait", "done"} =>
               beamPc \in {"poll", "output", "wait", "done"}
      BY <1>0, <1>1 DEF PlayInv, Poll, OutputNothing, OutputSleep, Wait, SetStop,
                        vars, beamVars
    <3>. QED
      BY <3>1, <3>2
  <2>. QED
    BY <1>0, <2>1 DEF PlayInv, PlayKeepsItsWord, SilentBetweenNotes, Sounds
<1>2. CASE OutputNote
  BY <1>0, <1>2 DEF OutputNote, pwm_play, channel, PlayInv, PlayKeepsItsWord,
                    SilentBetweenNotes
<1>3. CASE OutputWrite
  <2>1. beamPc' = "play"
    BY <1>3 DEF OutputWrite, beamVars
  <2>. QED
    BY <1>3, <2>1, PlayWriteStep DEF SilentBetweenNotes
<1>4. CASE OutputStop \/ Exit
  <2>1. /\ call = "none" /\ call' = "none" /\ beamPc' \in {"wait", "done"}
        /\ UNCHANGED <<period, duty, asked, err, clean>>
        /\ enable' = 0 \/ offFailed' = TRUE
    BY <1>4 DEF OutputStop, Exit, pwm_stop, Disable
  <2>. QED
    BY <1>0, <2>1 DEF PlayInv, PlayKeepsItsWord, SilentBetweenNotes
<1>. QED
  BY <1>1, <1>2, <1>3, <1>4 DEF Next

----
(* The next multiple of n is where the remainder would get to n.           *)
LEMMA NextRemainder ==
  ASSUME NEW a \in Nat, NEW n \in Nat \ {0}
  PROVE  /\ a % n \in 0..(n - 1)
         /\ (a + 1) % n = IF (a % n) + 1 = n THEN 0 ELSE (a % n) + 1
<1>. DEFINE q == a \div n
            r == a % n
            p == (a + 1) \div n
            s == (a + 1) % n
<1>1. q \in Int /\ r \in 0..(n - 1) /\ a = n * q + r
  OBVIOUS
<1>2. p \in Int /\ s \in 0..(n - 1) /\ a + 1 = n * p + s
  OBVIOUS
<1>. HIDE DEF q, r, p, s
<1>3. n * (p - q) = n * p - n * q /\ n * p \in Int /\ n * q \in Int
  BY <1>1, <1>2
<1>4. n * (p - q) = r + 1 - s
  BY <1>1, <1>2, <1>3
<1>5. PICK d \in Int : d = p - q
  BY <1>1, <1>2
<1>6. d \in {0, 1}
  <2>1. d < 2
    <3>1. ASSUME d >= 2  PROVE FALSE
      <4>1. n * d >= n * 2
        BY <3>1, <1>5
      <4>. QED
        BY <1>1, <1>2, <1>4, <1>5, <4>1
    <3>. QED
      BY <3>1, <1>5
  <2>2. d > -1
    <3>1. ASSUME d <= -1  PROVE FALSE
      <4>1. n * d <= n * (-1)
        BY <3>1, <1>5
      <4>. QED
        BY <1>1, <1>2, <1>4, <1>5, <4>1
    <3>. QED
      BY <3>1, <1>5
  <2>. QED
    BY <1>5, <2>1, <2>2
<1>7. CASE d = 0
  BY <1>1, <1>2, <1>4, <1>5, <1>7 DEF r, s
<1>8. CASE d = 1
  BY <1>1, <1>2, <1>4, <1>5, <1>8 DEF r, s
<1>. QED
  BY <1>6, <1>7, <1>8

(* The edges and the ticks are the reads' business alone.                  *)
LEMMA TickStep ==
  ASSUME IInv, [Next]_vars
  PROVE  EdgeInv' /\ TickInv'
<1>0. /\ EdgeInv /\ TickInv
      /\ broken_ticks \in 0..(UINT32 - 1) /\ quiet \in Nat /\ curr \in {0, 1}
      /\ BEAM_TICKS_PER_SEC \in Nat \ {0}
      /\ BEAM_ALIGNMENT_WARN_TICKS \in Nat \ {0, 1}
      /\ UINT32 \in Nat /\ UINT32 > BEAM_ALIGNMENT_WARN_TICKS + BEAM_TICKS_PER_SEC
  BY BeamAssumption DEF IInv, TypeOK
<1>1. CASE ~Poll
  <2>1. UNCHANGED <<curr, intact, broken_ticks, quiet>>
    BY <1>1 DEF Next, OutputNothing, OutputNote, OutputWrite, OutputSleep,
         OutputStop, Wait, Exit, SetStop, vars, beamVars, history
  <2>. QED
    BY <1>0, <2>1 DEF EdgeInv, TickInv
<1>2. CASE Poll
  <2>0. curr' \in {0, 1}
    BY <1>0, <1>2 DEF Poll, pin_io_read
  <2>1. EdgeInv'
    <3>1. CASE FallingEdge
      BY <3>1 DEF EdgeInv, FallingEdge
    <3>2. CASE ~FallingEdge
      BY <1>2, <3>2 DEF EdgeInv, Poll
    <3>. QED
      BY <3>1, <3>2
  <2>2. CASE curr' = 1
    <3>1. broken_ticks' = 0 /\ quiet' = 0
      BY <1>2, <2>2 DEF Poll
    <3>. QED
      BY <1>0, <2>1, <3>1 DEF TickInv
  <2>3. CASE curr' = 0
    <3>. DEFINE W == BEAM_ALIGNMENT_WARN_TICKS
                T == BEAM_TICKS_PER_SEC
    <3>1. /\ broken_ticks' = (broken_ticks + 1) % UINT32
          /\ quiet' = IF Warn THEN 0 ELSE quiet + 1
      BY <1>2, <2>3 DEF Poll
    <3>2. broken_ticks' = IF broken_ticks + 1 = UINT32 THEN 0 ELSE broken_ticks + 1
      BY <1>0, <3>1
    <3>3. Warn <=> broken_ticks' >= W /\ (broken_ticks' - W) % T = 0
      BY <2>3 DEF Warn
    <3>4. CASE broken_ticks + 1 < W
      BY <1>0, <2>1, <3>1, <3>2, <3>3, <3>4 DEF TickInv
    <3>5. CASE broken_ticks + 1 = W
      <4>1. broken_ticks' = W /\ 0 % T = 0
        BY <1>0, <3>2, <3>5
      <4>2. Warn
        BY <1>0, <3>3, <4>1
      <4>3. quiet' = 0
        BY <3>1, <4>2
      <4>. QED
        BY <1>0, <2>1, <4>1, <4>3 DEF TickInv
    <3>6. CASE broken_ticks >= W
      <4>1. /\ broken_ticks - W \in Nat
            /\ quiet = (broken_ticks - W) % T
        BY <1>0, <3>6 DEF TickInv
      <4>2. PICK a \in Nat : a = broken_ticks - W
        BY <4>1
      <4>3. /\ a % T \in 0..(T - 1)
            /\ (a + 1) % T = IF (a % T) + 1 = T THEN 0 ELSE (a % T) + 1
        BY <1>0, NextRemainder
      <4>4. CASE broken_ticks + 1 = UINT32
        BY <1>0, <2>1, <3>1, <3>2, <3>3, <4>1, <4>2, <4>3, <4>4 DEF TickInv
      <4>5. CASE broken_ticks + 1 # UINT32
        <5>1. broken_ticks' = broken_ticks + 1 /\ broken_ticks' - W = a + 1
              /\ broken_ticks' >= W
          BY <1>0, <3>2, <3>6, <4>2, <4>5
        <5>2. quiet' = (a + 1) % T
          BY <1>0, <3>1, <3>3, <4>1, <4>2, <4>3, <5>1
        <5>. QED
          BY <1>0, <2>1, <5>1, <5>2 DEF TickInv
      <4>. QED
        BY <4>4, <4>5
    <3>. QED
      BY <1>0, <3>4, <3>5, <3>6
  <2>. QED
    BY <2>0, <2>2, <2>3
<1>. QED
  BY <1>1, <1>2

(* The tick count says when the latest warning was.                        *)
LEMMA TicksAreFew ==
  ASSUME TypeOK, TickInv
  PROVE  HeldBeamWarned
<1>1. /\ broken_ticks \in Nat /\ quiet \in Nat
      /\ BEAM_TICKS_PER_SEC \in Nat \ {0} /\ BEAM_ALIGNMENT_WARN_TICKS \in Nat
      /\ BEAM_ALIGNMENT_WARN_TICKS # 0
  BY BeamAssumption DEF TypeOK
<1>2. CASE broken_ticks < BEAM_ALIGNMENT_WARN_TICKS
  BY <1>1, <1>2 DEF TickInv, HeldBeamWarned
<1>3. CASE broken_ticks >= BEAM_ALIGNMENT_WARN_TICKS
  <2>1. PICK a \in Nat : a = broken_ticks - BEAM_ALIGNMENT_WARN_TICKS
    BY <1>1, <1>3
  <2>2. a % BEAM_TICKS_PER_SEC \in 0..(BEAM_TICKS_PER_SEC - 1)
    BY <1>1, NextRemainder
  <2>. QED
    BY <1>1, <1>3, <2>1, <2>2 DEF TickInv, HeldBeamWarned
<1>. QED
  BY <1>1, <1>2, <1>3

----
(* What the steps do to the clock and to the time of the next pass.        *)
LEMMA ClockStep ==
  ASSUME TypeOK, [Next]_vars, beamPc \in {"output", "play"} => breaks # <<>>
  PROVE  /\ now \in Nat /\ due_ns \in Int /\ now' \in Nat /\ now <= now'
         /\ \/ UNCHANGED due_ns
            \/ OutputNothing /\ due_ns' = now
            \/ OutputStop /\ due_ns' = now
            \/ Wait /\ due_ns' = due_ns + BEAM_PERIOD_NS
<1>1. now \in Nat /\ due_ns \in Int
  BY TimingAssumption DEF TypeOK, due_ns, time_to_ns, TIME_TYPE
<1>2. CASE Wait
  BY <1>1, <1>2, WaitStep
<1>3. CASE OutputNothing \/ OutputStop
  BY <1>1, <1>3, DueNow DEF OutputNothing, OutputStop, UpdateNextTime, due_ns
<1>4. CASE OutputSleep
  <2>1. UNCHANGED due_ns
    BY <1>4 DEF OutputSleep, due_ns
  <2>2. breaks # <<>>
    BY <1>4 DEF OutputSleep
  <2>. QED
    BY <1>1, <1>4, <2>1, <2>2, SleepStep
<1>5. CASE Poll \/ OutputNote \/ OutputWrite \/ Exit \/ SetStop \/ UNCHANGED vars
  <2>1. UNCHANGED <<now, due_ns>>
    BY <1>5 DEF Poll, OutputNote, OutputWrite, Exit, SetStop, vars, beamVars,
                due_ns
  <2>. QED
    BY <1>1, <2>1
<1>. QED
  BY <1>2, <1>3, <1>4, <1>5 DEF Next

(* One more of anything is one more times its size.                        *)
LEMMA OneMore ==
  ASSUME NEW n \in Int, NEW d \in Int
  PROVE  n * d \in Int /\ (n + 1) * d = n * d + d
OBVIOUS

(* The polls have their periods.                                           *)
LEMMA PaceStep ==
  ASSUME IInv, [Next]_vars
  PROVE  PaceInv' /\ PollsPaced'
<1>. DEFINE P == BEAM_PERIOD_NS
            done == polls * P
<1>0. /\ P \in Nat /\ polls \in Nat /\ done \in Int /\ StartTime \in Nat
      /\ StartTime <= now /\ PaceInv /\ PollsPaced /\ TypeOK
      /\ now \in Nat /\ due_ns \in Int /\ now' \in Nat /\ now <= now'
      /\ stop \in {0, 1}
  BY ClockStep, OneMore, BeamAssumption, TimingAssumption
  DEF IInv, TypeOK, PaceInv, GapInv, StartTime
<1>1. CASE Poll
  <2>1. /\ beamPc = "poll" /\ stop = 0 /\ polls' = polls + 1
        /\ beamPc' # "poll" /\ now' = now /\ due_ns' = due_ns
    BY <1>1 DEF Poll, due_ns
  <2>2. polls' * P = done + P
    BY <1>0, <2>1, OneMore
  <2>. HIDE DEF done
  <2>3. StartTime + done <= due_ns /\ due_ns <= now
    BY <1>0, <2>1 DEF PaceInv, done
  <2>. QED
    BY <1>0, <2>1, <2>2, <2>3 DEF PaceInv, PollsPaced, StartTime
<1>2. CASE ~Poll
  <2>0. UNCHANGED polls
    BY <1>2 DEF Next, OutputNothing, OutputNote, OutputWrite, OutputSleep,
         OutputStop, Wait, Exit, SetStop, vars, beamVars, history
  <2>. HIDE DEF done
  <2>1. StartTime <= now' /\ PollsPaced'
    <3>1. done <= now - StartTime + P
      BY <1>0 DEF PollsPaced, done
    <3>2. /\ StartTime \in Nat /\ now \in Nat /\ now' \in Nat /\ done \in Int
          /\ P \in Nat /\ StartTime <= now /\ now <= now'
      BY <1>0 DEF done
    <3>3. StartTime <= now' /\ done <= now' - StartTime + P
      <4>1. PICK t \in Nat : t = now'
        BY <3>2
      <4>2. /\ now <= t /\ now \in Nat /\ StartTime \in Nat /\ done \in Int
            /\ P \in Nat /\ StartTime <= now
        BY <3>2, <4>1
      <4>3. StartTime <= t /\ done <= t - StartTime + P
        BY ONLY t \in Nat, <3>1, <4>2
      <4>. QED
        BY <4>1, <4>3
    <3>. QED
      BY <2>0, <3>3 DEF PollsPaced, done
  <2>2. CASE OutputNothing \/ OutputStop
    <3>1. beamPc' = "wait" /\ due_ns' = now /\ now' = now
      BY <1>0, <2>2, DueNow DEF OutputNothing, OutputStop, UpdateNextTime, due_ns
    <3>2. done <= now - StartTime + P
      BY <1>0 DEF PollsPaced, done
    <3>3. StartTime + done <= now + P
      BY <1>0, <3>2
    <3>. QED
      BY <1>0, <2>0, <2>1, <3>1, <3>3 DEF PaceInv, done
  <2>3. CASE Wait
    <3>1. /\ beamPc = "wait" /\ beamPc' = "poll" /\ stop' = stop
          /\ due_ns' = due_ns + P /\ (stop = 0 => due_ns' <= now')
      BY <1>0, <2>3, WaitStep DEF Wait
    <3>2. StartTime + done <= due_ns + P
      BY <1>0, <3>1 DEF PaceInv, done
    <3>. QED
      BY <1>0, <2>0, <2>1, <3>1, <3>2 DEF PaceInv, done
  <2>4. CASE OutputNote \/ OutputWrite \/ OutputSleep \/ Exit \/ SetStop
             \/ UNCHANGED vars
    <3>1. /\ UNCHANGED due_ns
          /\ beamPc' = "poll" => beamPc = "poll" /\ now' = now
          /\ stop' = 0 => stop = 0
          /\ beamPc # "poll" => beamPc' # "poll"
      BY <1>0, <2>4
      DEF OutputNote, OutputWrite, OutputSleep, Exit, SetStop, vars, beamVars,
          due_ns
    <3>2. StartTime + done <= due_ns + (IF beamPc = "poll" THEN 0 ELSE P)
      BY <1>0 DEF PaceInv, done
    <3>3. StartTime + done <= due_ns' + (IF beamPc' = "poll" THEN 0 ELSE P)
      BY <1>0, <3>1, <3>2
    <3>4. beamPc' = "poll" /\ stop' = 0 => due_ns' <= now'
      BY <1>0, <3>1 DEF PaceInv
    <3>. QED
      BY <2>0, <2>1, <3>3, <3>4 DEF PaceInv, done
  <2>. QED
    BY <1>2, <2>2, <2>3, <2>4 DEF Next
<1>. QED
  BY <1>1, <1>2

----
(* An append makes the new break the last one and leaves the others.       *)
LEMMA AppendBreak ==
  ASSUME NEW s, NEW b \in Seq(s), NEW t \in s
  PROVE  /\ Len(Append(b, t)) = Len(b) + 1 /\ Len(b) \in Nat
         /\ Append(b, t)[Len(b) + 1] = t
         /\ \A i \in 1..Len(b) : Append(b, t)[i] = b[i]
OBVIOUS

(* What a falling edge leaves behind: a break that has not sounded.        *)
LEMMA EdgeStep ==
  ASSUME IInv, [Next]_vars, ~UNCHANGED queueVars
  PROVE  /\ Poll /\ stop = 0 /\ beamPc = "poll" /\ curr = 1 /\ curr' = 0
         /\ beamPc' \in {"wait", "output"} /\ now' = now
         /\ Len(breaks) \in Nat /\ Len(breaks') = Len(breaks) + 1
         /\ breaks'[Len(breaks) + 1] = now
         /\ \A i \in 1..Len(breaks) : breaks'[i] = breaks[i]
         /\ ~sounded'[Len(breaks) + 1]
         /\ \A i \in 1..Len(breaks) : sounded'[i] = sounded[i]
         /\ ViolationInv'
<1>1. /\ Poll /\ FallingEdge /\ breaks \in Seq(Nat) /\ now \in Nat
      /\ breaks' = Append(breaks, now) /\ ViolationInv'
  BY QueueStep
<1>2. /\ stop = 0 /\ beamPc = "poll" /\ curr = 1 /\ curr' = 0 /\ now' = now
      /\ beamPc' \in {"wait", "output"}
  BY <1>1 DEF IInv, TypeOK, Poll, FallingEdge
<1>3. sounded \in Seq(BOOLEAN) /\ Len(sounded) = Len(breaks)
  BY DEF IInv, TypeOK
<1>4. PICK silent \in BOOLEAN : silent = FALSE
  OBVIOUS
<1>5. sounded' = Append(sounded, silent)
  BY <1>1, <1>4 DEF Poll
<1>6. /\ sounded'[Len(breaks) + 1] = silent
      /\ \A i \in 1..Len(breaks) : sounded'[i] = sounded[i]
  BY <1>3, <1>5, AppendBreak
<1>7. /\ Len(breaks) \in Nat /\ Len(breaks') = Len(breaks) + 1
      /\ breaks'[Len(breaks) + 1] = now
      /\ \A i \in 1..Len(breaks) : breaks'[i] = breaks[i]
  BY <1>1, AppendBreak
<1>. QED
  BY <1>1, <1>2, <1>4, <1>6, <1>7

(* The time that a break that sounded keeps free.                          *)
LEMMA GapStep ==
  ASSUME IInv, [Next]_vars
  PROVE  GapInv'
<1>0. /\ now \in Nat /\ due_ns \in Int /\ now' \in Nat /\ now <= now'
      /\ BEAM_PERIOD_NS \in Nat /\ note_duration \in Nat
      /\ stop \in {0, 1} /\ curr \in {0, 1}
      /\ SeenIntact \in {0, BEAM_PERIOD_NS}
      /\ breaks \in Seq(Nat)
  BY ClockStep, BeamAssumption DEF IInv, TypeOK, GapInv, SeenIntact, Queue!TypeOK
<1>g. GapInv /\ TypeOK
  BY DEF IInv
<1>1. breaks # <<>> => LastBreak \in Nat /\ LastBreak <= now
  BY <1>0, <1>g DEF GapInv, LastBreak
<1>2. CASE ~UNCHANGED queueVars
  <2>1. /\ LastBreak' = now' /\ ~LastSounded' /\ breaks' # <<>>
        /\ curr' = 0 /\ beamPc' \in {"wait", "output"}
    BY <1>0, <1>2, EdgeStep DEF LastBreak, LastSounded
  <2>2. now' <= now'
    BY <1>0
  <2>. QED
    BY <2>1, <2>2 DEF GapInv
<1>3. CASE UNCHANGED queueVars
  <2>1. breaks' = breaks /\ LastBreak' = LastBreak
    BY <1>3 DEF queueVars, LastBreak
  <2>2. CASE Poll
    <3>1. /\ beamPc = "poll" /\ stop = 0 /\ now' = now /\ due_ns' = due_ns
          /\ curr' \in {0, 1}
      BY <1>0, <2>2 DEF Poll, due_ns, pin_io_read
    <3>2. SeenIntact' \in {0, BEAM_PERIOD_NS}
      BY <3>1 DEF SeenIntact
    <3>3. beamPc' = "wait" /\ sounded' = sounded
      <4>1. ~FallingEdge
        <5>1. FallingEdge => breaks' = Append(breaks, now)
          BY <2>2 DEF Poll, Queue!AppendTimestamp
        <5>2. Append(breaks, now) # breaks
          BY <1>0, AppendBreak
        <5>. QED
          BY <2>1, <5>1, <5>2
      <4>. QED
        BY <2>2, <4>1 DEF Poll
    <3>4. LastSounded' = LastSounded
      BY <2>1, <3>3 DEF LastSounded
    <3>5. LastSounded =>
            LastBreak + note_duration + BEAM_PERIOD_NS + SeenIntact <= due_ns
      BY <1>g, <3>1 DEF GapInv
    <3>6. PICK seen \in {0, BEAM_PERIOD_NS} : seen = SeenIntact'
      BY <3>2
    <3>7. LastSounded => LastBreak + note_duration + seen <= due_ns
      <4>1. LastSounded => LastBreak \in Nat
        BY <1>1 DEF LastSounded
      <4>. QED
        BY <1>0, <3>5, <4>1
    <3>8. LastSounded' => LastBreak' + note_duration + SeenIntact' <= due_ns'
      BY <2>1, <3>1, <3>4, <3>6, <3>7
    <3>9. breaks' # <<>> => LastBreak' <= now'
      BY <1>1, <2>1, <3>1
    <3>. QED
      BY <3>3, <3>8, <3>9 DEF GapInv
  <2>3. CASE OutputNothing \/ OutputStop
    <3>1. /\ beamPc' = "wait" /\ due_ns' = now /\ now' = now
          /\ UNCHANGED <<curr, sounded>>
          /\ beamPc = "output" \/ beamPc = "stop"
      BY <1>0, <2>3, DueNow
      DEF OutputNothing, OutputStop, UpdateNextTime, due_ns, history
    <3>2. LastSounded' = LastSounded
      BY <2>1, <3>1 DEF LastSounded
    <3>3. SeenIntact' = 0
      BY <1>0, <1>g, <3>1 DEF GapInv, SeenIntact
    <3>4. LastSounded => LastBreak + note_duration + 0 <= now
      BY <1>0, <1>g, <1>1, <3>1 DEF GapInv, LastSounded
    <3>5. LastSounded' => LastBreak' + note_duration + SeenIntact' <= due_ns'
      BY <2>1, <3>1, <3>2, <3>3, <3>4
    <3>6. breaks' # <<>> => LastBreak' <= now'
      BY <1>1, <2>1, <3>1
    <3>. QED
      BY <3>1, <3>5, <3>6 DEF GapInv
  <2>4. CASE OutputSleep
    <3>1. beamPc = "play" /\ beamPc' = "stop" /\ curr' = curr
      BY <2>4 DEF OutputSleep
    <3>2. breaks # <<>> /\ curr = 0 /\ ~LastSounded
      BY <1>0, <1>g, <3>1 DEF GapInv
    <3>3. LastSounded' => LastBreak + note_duration <= now'
      <4>1. now + note_duration <= now' \/ sounded' = sounded
        BY <1>g, <2>4, <3>2, SleepStep
      <4>2. CASE now + note_duration <= now'
        BY <1>0, <1>1, <3>2, <4>2
      <4>3. CASE sounded' = sounded
        BY <2>1, <3>2, <4>3 DEF LastSounded
      <4>. QED
        BY <4>1, <4>2, <4>3
    <3>. QED
      BY <1>0, <1>g, <1>1, <2>1, <3>1, <3>2, <3>3 DEF GapInv
  <2>5. CASE Wait
    <3>1. /\ beamPc = "wait" /\ beamPc' = "poll" /\ stop' = stop
          /\ due_ns' = due_ns + BEAM_PERIOD_NS
          /\ UNCHANGED <<curr, sounded>>
      BY <1>0, <1>g, <2>5, WaitStep DEF Wait, history
    <3>2. LastSounded' = LastSounded /\ SeenIntact' = SeenIntact
      BY <2>1, <3>1 DEF LastSounded, SeenIntact
    <3>3. PICK due \in Int : due = due_ns'
      BY <1>0, <3>1
    <3>4. LastSounded =>
            LastBreak + note_duration + BEAM_PERIOD_NS + SeenIntact <= due
      <4>1. due = due_ns + BEAM_PERIOD_NS
        BY <3>1, <3>3
      <4>2. LastSounded => LastBreak + note_duration + SeenIntact <= due_ns
        BY <1>g, <3>1 DEF GapInv
      <4>3. LastSounded => LastBreak \in Nat
        BY <1>1 DEF LastSounded
      <4>. QED
        BY <1>0, <4>1, <4>2, <4>3
    <3>5. LastSounded' =>
            LastBreak' + note_duration + BEAM_PERIOD_NS + SeenIntact' <= due_ns'
      BY <2>1, <3>2, <3>3, <3>4
    <3>6. breaks' # <<>> => LastBreak' <= now'
      BY <1>0, <1>1, <2>1
    <3>. QED
      BY <3>1, <3>5, <3>6 DEF GapInv
  <2>6. CASE OutputNote \/ OutputWrite \/ Exit \/ SetStop \/ UNCHANGED vars
    <3>1. /\ UNCHANGED <<curr, sounded, now, due_ns>>
          /\ \/ beamPc = "output" /\ beamPc' = "play"
             \/ beamPc' = "done"
             \/ beamPc' = beamPc /\ (stop' = 0 => stop = 0)
      BY <2>6 DEF OutputNote, OutputWrite, Exit, SetStop, vars, beamVars, history,
                  due_ns
    <3>2. LastSounded' = LastSounded /\ SeenIntact' = SeenIntact
      BY <2>1, <3>1 DEF LastSounded, SeenIntact
    <3>. QED
      BY <1>0, <1>g, <1>1, <2>1, <3>1, <3>2 DEF GapInv
  <2>. QED
    BY <2>2, <2>3, <2>4, <2>5, <2>6 DEF Next
<1>. QED
  BY <1>2, <1>3

(* A falling edge comes two periods after the end of the last note.        *)
LEMMA EdgeIsLate ==
  ASSUME IInv, [Next]_vars, ~UNCHANGED queueVars, LastSounded
  PROVE  LastBreak \in Nat /\ now \in Nat /\ LastBreak + Spacing <= now
<1>1. /\ beamPc = "poll" /\ stop = 0 /\ SeenIntact = BEAM_PERIOD_NS
      /\ breaks # <<>> /\ breaks \in Seq(Nat) /\ now \in Nat /\ due_ns \in Int
      /\ BEAM_PERIOD_NS \in Nat /\ note_duration \in Nat
  BY EdgeStep, ClockStep, BeamAssumption
  DEF IInv, TypeOK, GapInv, SeenIntact, LastSounded, Queue!TypeOK
<1>2. LastBreak \in Nat
  BY <1>1 DEF LastBreak
<1>3. /\ LastBreak + note_duration + BEAM_PERIOD_NS + SeenIntact <= due_ns
      /\ due_ns <= now
  BY <1>1 DEF IInv, GapInv, PaceInv
<1>. QED
  BY <1>1, <1>2, <1>3 DEF Spacing

(* Spacing, one by one and added up.                                       *)
LEMMA RowStep ==
  ASSUME IInv, [Next]_vars
  PROVE  SoundedBreaksSpaced' /\ RowInv' /\ ViolationInv'
<1>. DEFINE L == Len(breaks)
<1>0. /\ breaks \in Seq(Nat) /\ L \in Nat
      /\ \A i \in 1..L : breaks[i] \in Nat
      /\ Spacing \in Nat /\ now \in Nat
      /\ SoundedBreaksSpaced /\ RowInv /\ ViolationInv
      /\ Spacing = note_duration + 2 * BEAM_PERIOD_NS
  BY BeamAssumption DEF IInv, TypeOK, Queue!TypeOK, Spacing
<1>. HIDE DEF Spacing
<1>1. CASE ~UNCHANGED queueVars
  <2>1. /\ Len(breaks') = L + 1 /\ breaks'[L + 1] = now
        /\ \A i \in 1..L : breaks'[i] = breaks[i]
        /\ \A i \in 1..L : sounded'[i] = sounded[i]
        /\ ViolationInv'
    BY <1>1, EdgeStep
  <2>2. L # 0 /\ sounded[L] => breaks[L] + Spacing <= now
    BY <1>0, <1>1, EdgeIsLate DEF LastSounded, LastBreak
  <2>3. SoundedBreaksSpaced'
    <3>1. ASSUME NEW i \in 1..L, sounded[i]
          PROVE  breaks'[i + 1] - breaks'[i] >= Spacing
      <4>1. CASE i = L
        BY <1>0, <2>1, <2>2, <3>1, <4>1
      <4>2. CASE i # L
        <5>1. i \in 1..(L - 1) /\ i + 1 \in 1..L
          BY <1>0, <4>2
        <5>2. breaks[i + 1] - breaks[i] >= Spacing
          BY <1>0, <3>1, <5>1 DEF SoundedBreaksSpaced
        <5>. QED
          BY <2>1, <5>1, <5>2
      <4>. QED
        BY <4>1, <4>2
    <3>2. Len(breaks') - 1 = L
      BY <1>0, <2>1
    <3>. QED
      BY <1>0, <2>1, <3>1, <3>2 DEF SoundedBreaksSpaced
  <2>4. RowInv'
    <3>1. ASSUME NEW i \in 1..(L + 1), \A j \in i..L : sounded'[j]
          PROVE  (L + 1 - i) * Spacing <= now - breaks'[i]
      <4>1. CASE i = L + 1
        <5>1. (L + 1 - i) * Spacing = 0
          BY <1>0, <4>1
        <5>. QED
          BY <1>0, <2>1, <4>1, <5>1
      <4>2. CASE i # L + 1
        <5>1. i \in 1..L /\ L \in i..L
          BY <1>0, <4>2
        <5>2. sounded[L] /\ \A j \in i..(L - 1) : sounded[j]
          <6>1. ASSUME NEW j \in i..L  PROVE sounded[j]
            <7>1. j \in 1..L
              BY <1>0, <5>1
            <7>2. sounded'[j] /\ sounded'[j] = sounded[j]
              BY <2>1, <3>1, <7>1
            <7>. QED
              BY <7>2
          <6>2. \A j \in i..(L - 1) : j \in i..L
            BY <1>0, <5>1
          <6>. QED
            BY <5>1, <6>1, <6>2
        <5>3. (L - i) * Spacing <= breaks[L] - breaks[i]
          BY <1>0, <5>1, <5>2 DEF RowInv, LastBreak
        <5>4. /\ (L - i) * Spacing \in Int
              /\ (L - i + 1) * Spacing = (L - i) * Spacing + Spacing
          BY <1>0, <5>1, OneMore
        <5>5. L + 1 - i = L - i + 1
          BY <1>0, <5>1
        <5>6. breaks[L] + Spacing <= now /\ breaks[L] \in Nat /\ breaks[i] \in Nat
          BY <1>0, <2>2, <5>1, <5>2
        <5>7. PICK row \in Int : row = (L - i) * Spacing
          BY <5>4
        <5>8. row + Spacing <= now - breaks[i]
          <6>1. row <= breaks[L] - breaks[i]
            BY <5>3, <5>7
          <6>. QED
            BY <1>0, <5>6, <6>1
        <5>. QED
          BY <2>1, <5>1, <5>4, <5>5, <5>7, <5>8
      <4>. QED
        BY <4>1, <4>2
    <3>2. Len(breaks') - 1 = L /\ LastBreak' = now
      BY <1>0, <2>1 DEF LastBreak
    <3>. QED
      BY <2>1, <3>1, <3>2 DEF RowInv, Spacing
  <2>. QED
    BY <2>1, <2>3, <2>4
<1>2. CASE UNCHANGED queueVars
  <2>1. breaks' = breaks /\ violation' = violation
    BY <1>2 DEF queueVars
  <2>2. \A i \in 1..(L - 1) : sounded'[i] = sounded[i]
    <3>1. CASE OutputSleep
      BY <3>1, SleepStep DEF IInv, GapInv, OutputSleep
    <3>2. CASE ~OutputSleep
      <4>1. CASE Poll
        <5>1. ~FallingEdge
          <6>1. FallingEdge => breaks' = Append(breaks, now)
            BY <4>1 DEF Poll, Queue!AppendTimestamp
          <6>2. Append(breaks, now) # breaks
            BY <1>0, AppendBreak
          <6>. QED
            BY <2>1, <6>1, <6>2
        <5>. QED
          BY <4>1, <5>1 DEF Poll
      <4>2. CASE ~Poll
        BY <3>2, <4>2 DEF Next, OutputNothing, OutputNote, OutputWrite,
           OutputStop, Wait, Exit, SetStop, vars, beamVars, history
      <4>. QED
        BY <4>1, <4>2
    <3>. QED
      BY <3>1, <3>2
  <2>3. SoundedBreaksSpaced'
    BY <1>0, <2>1, <2>2 DEF SoundedBreaksSpaced
  <2>4. RowInv'
    <3>1. ASSUME NEW i \in 1..L, \A j \in i..(L - 1) : sounded'[j]
          PROVE  (L - i) * Spacing <= LastBreak - breaks[i]
      <4>1. \A j \in i..(L - 1) : sounded[j]
        BY <1>0, <2>2, <3>1
      <4>. QED
        BY <1>0, <4>1 DEF RowInv
    <3>. QED
      BY <2>1, <3>1 DEF RowInv, LastBreak, Spacing
  <2>5. ViolationInv'
    BY <1>0, <2>1 DEF ViolationInv, LastBreak
  <2>. QED
    BY <2>3, <2>4, <2>5
<1>. QED
  BY <1>1, <1>2

(* A row of notes that fills a second leaves no room for a violation.      *)
LEMMA ViolationHasSilence ==
  ASSUME IInv
  PROVE  SilenceBehindViolation
<1>. DEFINE L == Len(breaks)
            N == MAX_BREAKS_PER_SECOND
<1> SUFFICES ASSUME violation, LongNotes,
                    \A i \in 1..(L - 1) : i > L - N => sounded[i]
             PROVE  FALSE
  BY DEF SilenceBehindViolation
<1>1. /\ breaks \in Seq(Nat) /\ L \in Nat /\ N \in 1..255 /\ Spacing \in Nat
      /\ BILLION \in Nat
  BY BeamAssumption, TimingAssumption DEF IInv, TypeOK, Queue!TypeOK, Spacing
<1>2. N <= L /\ LastBreak - breaks[L - N + 1] < BILLION
  BY DEF IInv, ViolationInv
<1>3. PICK i \in 1..L : i = L - N + 1
  BY <1>1, <1>2
<1>4. \A j \in i..(L - 1) : sounded[j]
  BY <1>1, <1>3
<1>5. (L - i) * Spacing <= LastBreak - breaks[i]
  BY <1>3, <1>4 DEF IInv, RowInv
<1>6. L - i = N - 1
  BY <1>1, <1>3
<1>7. (N - 1) * Spacing >= BILLION
  BY DEF LongNotes, Spacing
<1>8. LastBreak \in Nat /\ breaks[i] \in Nat
  BY <1>1, <1>3 DEF LastBreak
<1>9. (N - 1) * Spacing \in Int
  BY <1>1, OneMore
<1>. HIDE DEF N
<1>. QED
  BY <1>1, <1>2, <1>3, <1>5, <1>6, <1>7, <1>8, <1>9

----
(* The thread starts with an empty queue, a beam taken for intact and its  *)
(* first pass due; the channel is as the kernel or an earlier run left it. *)
LEMMA InitIInv ==
  ASSUME Init
  PROVE  IInv
<1>1. /\ stop = 0 /\ now = StartTime /\ StartTime = BILLION
      /\ beamPc = "poll" /\ curr = 1 /\ broken_ticks = 0
      /\ next_time = ns_to_time(StartTime)
      /\ sounded = <<>> /\ intact = TRUE /\ quiet = 0 /\ polls = 0
      /\ PwmInit /\ Queue!Init
  BY DEF Init, StartTime
<1>2. PwmTypeOK /\ PlayInv
  <2>1. /\ call = "none" /\ asked = 0 /\ err = "SUCCESS" /\ ioFaults = 0
        /\ clean = TRUE /\ offFailed = TRUE
        /\ enable \in {0, 1}
    BY <1>1 DEF PwmInit
  <2>2. asked \in PwmNotes /\ ioFaults \in 0..MaxIoFaults
    BY <2>1, PwmAssumption DEF PwmNotes
  <2>3. period \in Nat /\ duty \in Nat /\ (period = 0 => duty = 0)
    <3>1. CASE period = 0 /\ duty = 0
      BY <3>1
    <3>2. ASSUME NEW m \in PwmNotes, NEW n \in PwmNotes,
                 period = period_ns[n], duty \in {0, duty_ns[m]}, duty < period
          PROVE  period \in Nat /\ duty \in Nat /\ (period = 0 => duty = 0)
      <4>1. period_ns[n] \in Nat /\ duty_ns[m] \in Nat
        BY PwmAssumption
      <4>. QED
        BY <3>2, <4>1
    <3>. QED
      BY <1>1, <3>1, <3>2 DEF PwmInit
  <2>. QED
    BY <2>1, <2>2, <2>3 DEF PwmTypeOK, PlayInv
<1>3. QueueProofs!IInv /\ violation = FALSE /\ breaks = <<>>
  <2>1. QueueProofs!Init /\ violation = FALSE /\ breaks = <<>>
    BY <1>1 DEF Queue!Init, QueueProofs!Init, Queue!Slots, QueueProofs!Slots,
                Queue!MAX_QUEUE_INDEX_INCL, QueueProofs!MAX_QUEUE_INDEX_INCL
  <2>. QED
    BY <2>1, QueueMeetsAssumption, QueueProofs!InitIInv
<1>4. Queue!TypeOK
  BY <1>3 DEF QueueProofs!IInv, QueueProofs!TypeOK, Queue!TypeOK,
              QueueProofs!Slots, Queue!Slots,
              QueueProofs!MAX_QUEUE_INDEX_INCL, Queue!MAX_QUEUE_INDEX_INCL
<1>5. next_time \in TIME_TYPE /\ due_ns = BILLION
  BY <1>1, DueNow, TimingAssumption DEF due_ns
<1>6. TypeOK
  <2>1. broken_ticks \in 0..(UINT32 - 1) /\ now \in Nat
    BY <1>1, BeamAssumption, TimingAssumption
  <2>2. sounded \in Seq(BOOLEAN) /\ Len(sounded) = Len(breaks)
    BY <1>1, <1>3
  <2>. QED
    BY <1>1, <1>2, <1>4, <1>5, <2>1, <2>2 DEF TypeOK
<1>7. PlayKeepsItsWord /\ SilentBetweenNotes
  BY <1>1 DEF PwmInit, PlayKeepsItsWord, SilentBetweenNotes
<1>8. EdgeInv /\ TickInv
  BY <1>1, BeamAssumption DEF EdgeInv, TickInv
<1>9. PaceInv /\ PollsPaced
  BY <1>1, <1>5, BeamAssumption, TimingAssumption DEF PaceInv, PollsPaced
<1>10. GapInv /\ SoundedBreaksSpaced /\ RowInv /\ ViolationInv
  <2>1. Len(breaks) = 0
    BY <1>3
  <2>. QED
    BY <1>1, <1>3, <2>1
    DEF GapInv, LastSounded, SoundedBreaksSpaced, RowInv, ViolationInv
<1>. QED
  BY <1>2, <1>3, <1>6, <1>7, <1>8, <1>9, <1>10 DEF IInv

(* IInv is an invariant, for every value of the constants.                 *)
THEOREM Invariance == Spec => []IInv
<1>1. Init => IInv
  BY InitIInv
<1>2. IInv /\ [Next]_vars => IInv'
  <2> SUFFICES ASSUME IInv, [Next]_vars  PROVE IInv'
    OBVIOUS
  <2>1. TypeOK' /\ QueueProofs!IInv'
    BY TypeStep, QueueStep
  <2>2. PlayInv' /\ PlayKeepsItsWord' /\ SilentBetweenNotes'
    BY BuzzerStep
  <2>3. EdgeInv' /\ TickInv'
    BY TickStep
  <2>4. PaceInv' /\ PollsPaced'
    BY PaceStep
  <2>5. GapInv' /\ SoundedBreaksSpaced' /\ RowInv' /\ ViolationInv'
    BY GapStep, RowStep
  <2>. QED
    BY <2>1, <2>2, <2>3, <2>4, <2>5 DEF IInv
<1>. QED
  BY <1>1, <1>2, PTL DEF Spec

(* Type correctness of beam_thread.c's state, the queue's and the          *)
(* channel's: the wake-up time stays a normal timespec.                    *)
THEOREM TypeCorrect == Spec => []TypeOK
BY Invariance, PTL DEF IInv

(* A pwm_play that reports success sounds the note it was asked for, and   *)
(* one in which no write failed by itself succeeds (pwm_sysfs.c), for      *)
(* every table of notes and whatever the channel was left in.              *)
THEOREM PlayCorrect == Spec => []PlayKeepsItsWord
BY Invariance, PTL DEF IInv

(* Between notes and after the exit the buzzer is off, unless the last     *)
(* attempt to disable it failed (output_note, beam_thread_entry).          *)
THEOREM SilenceCorrect == Spec => []SilentBetweenNotes
BY Invariance, PTL DEF IInv

(* One warning of a held beam follows the other in time, also over a wrap  *)
(* of the tick count (beam_thread.c's alignment warning).                  *)
THEOREM WarningCorrect == Spec => []HeldBeamWarned
<1>1. IInv => HeldBeamWarned
  BY TicksAreFew DEF IInv
<1>. QED
  BY <1>1, Invariance, PTL

(* The polls never outrun their periods, however late the thread wakes up  *)
(* and whatever it makes up for.                                           *)
THEOREM PaceCorrect == Spec => []PollsPaced
BY Invariance, PTL DEF IInv

(* A break that sounded keeps the next one its note and two periods away.  *)
THEOREM SpacingCorrect == Spec => []SoundedBreaksSpaced
BY Invariance, PTL DEF IInv

(* With notes long enough to fill the second, a violation has a silent     *)
(* break behind it: playing as one hears it never brings the failsafe.     *)
THEOREM ViolationCorrect == Spec => []SilenceBehindViolation
BY Invariance, ViolationHasSilence, PTL

(* One hold of the beam is one break: every append finds the beam seen     *)
(* intact since the last one (the edge detection of beam_thread_entry).    *)
THEOREM HoldCorrect == Spec => OneBreakPerHold
<1>1. IInv /\ [Next]_vars => (breaks' # breaks => intact)
  BY EdgeStep DEF IInv, EdgeInv, queueVars
<1>2. IInv /\ [Next]_vars => [breaks' # breaks => intact]_vars
  BY <1>1
<1>. QED
  BY <1>2, Invariance, PTL DEF Spec, OneBreakPerHold

----
(* In the beam thread, too, the queue is nothing but its own appends: what *)
(* it answers over the thread's breaks is the sliding window's answer.     *)
THEOREM ThreadKeepsWindow == Spec => QueueProofs!ImplementsWindow
<1>1. Init => QueueProofs!Init
  BY DEF Init, Queue!Init, QueueProofs!Init, Queue!Slots, QueueProofs!Slots,
         Queue!MAX_QUEUE_INDEX_INCL, QueueProofs!MAX_QUEUE_INDEX_INCL
<1>2. IInv /\ [Next]_vars => [QueueProofs!Next]_(QueueProofs!vars)
  <2>. SUFFICES ASSUME IInv, [Next]_vars
                PROVE  [QueueProofs!Next]_(QueueProofs!vars)
    OBVIOUS
  <2>1. CASE Poll
    <3>1. now \in Nat
      BY DEF IInv, TypeOK
    <3>2. CASE Queue!AppendTimestamp(now)
      <4>1. QueueProofs!AppendTimestamp(now)
        BY <3>2
        DEF Queue!AppendTimestamp, Queue!Advance, Queue!NotEarlier,
            Queue!MAX_QUEUE_INDEX_INCL,
            QueueProofs!AppendTimestamp, QueueProofs!Advance,
            QueueProofs!NotEarlier, QueueProofs!MAX_QUEUE_INDEX_INCL
      <4>. QED
        BY <3>1, <4>1 DEF QueueProofs!Next
    <3>3. CASE UNCHANGED queueVars
      BY <3>3 DEF queueVars, QueueProofs!vars
    <3>. QED
      BY <2>1, <3>2, <3>3 DEF Poll
  <2>2. CASE UNCHANGED queueVars
    BY <2>2 DEF queueVars, QueueProofs!vars
  <2>. QED
    BY <2>1, <2>2
    DEF Next, OutputNothing, OutputNote, OutputWrite, OutputSleep, OutputStop,
        Wait, Exit, SetStop, beamVars, vars
<1>3. Spec => QueueProofs!Spec
  BY <1>1, <1>2, Invariance, PTL DEF Spec, QueueProofs!Spec
<1>4. QueueProofs!Spec => QueueProofs!ImplementsWindow
  BY QueueMeetsAssumption, QueueProofs!Refinement
<1>. QED
  BY <1>3, <1>4, PTL

====
