---- MODULE PwmSysfs ----
(***************************************************************************)
(* The buzzer of the board: pwm_sysfs.c over the kernel's PWM channel.     *)
(* pwm_play is five writes to the channel's files, pwm_stop is one.  The   *)
(* channel is external; what it refuses is what the comments of pwm_play   *)
(* say it refuses.  Any write may also fail for a reason of its own.       *)
(***************************************************************************)
EXTENDS Integers

CONSTANTS NUM_NOTES,
          period_ns, duty_ns,  \* NOTE_DATA: of each note
          MaxIoFaults          \* bound: writes that fail by themselves

PwmNotes == 0..(NUM_NOTES - 1)

ASSUME PwmAssumption ==
  /\ NUM_NOTES \in Nat \ {0}
  /\ period_ns \in [PwmNotes -> Nat]
  /\ duty_ns \in [PwmNotes -> Nat]
  /\ \A n \in PwmNotes : 0 < duty_ns[n] /\ duty_ns[n] < period_ns[n]
  /\ MaxIoFaults \in Nat

VARIABLES
  enable, period, duty,  \* the channel
  call,                  \* the next write of the call of pwm_play, or "none"
  asked,                 \* note_index of the latest call
  err,                   \* its result: "SUCCESS" or "ERR_GPIO"
  ioFaults,              \* writes that failed by themselves, so far
  clean,                 \* history: none of them in the latest pwm_play
  offFailed              \* history: the latest disabling write failed, or
                         \*   there was none yet

channel == <<enable, period, duty>>
pwmVars == <<channel, call, asked, err, ioFaults, clean, offFailed>>

(* The channel as the kernel exports it, or as an earlier run left it: a   *)
(* run that was killed may have left it sounding.                          *)
PwmInit ==
  /\ \/ enable = 0 /\ period = 0 /\ duty = 0
     \/ /\ enable \in {0, 1}
        /\ \E m, n \in PwmNotes :
             period = period_ns[n] /\ duty \in {0, duty_ns[m]}
        /\ duty < period
  /\ call = "none" /\ asked = 0 /\ err = "SUCCESS"
  /\ ioFaults = 0 /\ clean = TRUE
  /\ offFailed = TRUE

(* External: a period is taken while the channel is off, and only if the   *)
(* duty cycle stays below it; a channel without a period cannot be on.     *)
TakesEnable(v) == v = 1 => period > 0
TakesPeriod(v) == enable = 0 /\ duty < v
TakesDuty(v) == v < period

(* pwm_write(file, value): it works, or leaves the file as it was.         *)
WriteWorks(taken) == taken /\ UNCHANGED ioFaults
WriteFails(taken) ==
  IF taken THEN ioFaults < MaxIoFaults /\ ioFaults' = ioFaults + 1
           ELSE UNCHANGED ioFaults

(* The end of a write that is part of pwm_play: on to the next one, or out *)
(* with an error if the result is looked at.                               *)
Continue(next) ==
  call' = next /\ UNCHANGED <<asked, err>> /\ clean' = (clean /\ ioFaults' = ioFaults)
Fail ==
  /\ call' = "none" /\ err' = "ERR_GPIO" /\ UNCHANGED asked
  /\ clean' = (clean /\ ioFaults' = ioFaults)

(* A call with a note of the table; others are refused with no write.      *)
pwm_play(n) ==
  /\ call = "none"
  /\ call' = "disable" /\ asked' = n /\ err' = "SUCCESS" /\ clean' = TRUE
  /\ UNCHANGED <<channel, ioFaults, offFailed>>

(* Writing "0" to enable; the result does not matter to pwm_play.          *)
Disable ==
  /\ \/ WriteWorks(TakesEnable(0)) /\ enable' = 0 /\ offFailed' = FALSE
     \/ WriteFails(TakesEnable(0)) /\ UNCHANGED enable /\ offFailed' = TRUE
  /\ UNCHANGED <<period, duty>>

PlayDisable == call = "disable" /\ Disable /\ Continue("zero")

(* Mutant: the old duty cycle is left in place.                            *)
PlayZeroDutySkipped ==
  /\ call = "zero"
  /\ UNCHANGED <<channel, offFailed, ioFaults>>
  /\ Continue("period")

PlayZeroDuty ==
  /\ call = "zero"
  /\ \/ WriteWorks(TakesDuty(0)) /\ duty' = 0
     \/ WriteFails(TakesDuty(0)) /\ UNCHANGED duty
  /\ Continue("period")
  /\ UNCHANGED <<enable, period, offFailed>>

PlayPeriod ==
  /\ call = "period"
  /\ LET v == period_ns[asked]
     IN \/ WriteWorks(TakesPeriod(v)) /\ period' = v /\ Continue("duty")
        \/ WriteFails(TakesPeriod(v)) /\ UNCHANGED period /\ Fail
  /\ UNCHANGED <<enable, duty, offFailed>>

PlayDuty ==
  /\ call = "duty"
  /\ LET v == duty_ns[asked]
     IN \/ WriteWorks(TakesDuty(v)) /\ duty' = v /\ Continue("enable")
        \/ WriteFails(TakesDuty(v)) /\ UNCHANGED duty /\ Fail
  /\ UNCHANGED <<enable, period, offFailed>>

PlayEnable ==
  /\ call = "enable"
  /\ \/ WriteWorks(TakesEnable(1)) /\ enable' = 1 /\ Continue("none")
     \/ WriteFails(TakesEnable(1)) /\ UNCHANGED enable /\ Fail
  /\ UNCHANGED <<period, duty, offFailed>>

PlayWrite == \/ PlayDisable \/ PlayZeroDuty \/ PlayPeriod \/ PlayDuty
             \/ PlayEnable

pwm_stop ==
  /\ call = "none"
  /\ Disable
  /\ UNCHANGED <<call, asked, err, clean>>

PwmNext == (\E n \in PwmNotes : pwm_play(n)) \/ PlayWrite \/ pwm_stop

PwmSpec == PwmInit /\ [][PwmNext]_pwmVars

----
(* Properties *)

PwmTypeOK ==
  /\ enable \in {0, 1} /\ period \in Nat /\ duty \in Nat
  /\ call \in {"none", "disable", "zero", "period", "duty", "enable"}
  /\ asked \in PwmNotes
  /\ err \in {"SUCCESS", "ERR_GPIO"}
  /\ ioFaults \in 0..MaxIoFaults
  /\ clean \in BOOLEAN /\ offFailed \in BOOLEAN

Sounds(n) == enable = 1 /\ period = period_ns[n] /\ duty = duty_ns[n]
====
