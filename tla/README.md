# Air Piano: TLA+ models, checks and proofs

Air Piano is a C program for a BeagleBone Black (and an emulator build). A hand
above an ultrasonic distance sensor selects one of eight notes, breaking an
infrared beam plays it on a PWM buzzer, and eight LEDs show the note. The
program is one process with six threads around a little shared state. This
directory models that state and those threads in TLA+, checks the models with
TLC and proves their main invariants with TLAPS for every value of the
constants. Line numbers below are those of `src/`.

Run `tlc -config X.cfg M` on any run of the table below and `tlapm M_proofs.tla`
on any proof module.

## 1. Inventory

### Components

| Component | State it keeps | Operations | Source |
|---|---|---|---|
| main | `main_struct`: handles, thread ids, launched flags, err_out of each thread | main_init, launch_threads, main_cleanup | main.c |
| beam thread (priority 90, 100 Hz) | prev, curr, broken_ticks, timestamp queue | poll the beam, flag a violation, output_note | beam_thread.c |
| timestamp queue | ring of 10 timestamps, head | init, append | timestamp_queue.c |
| distance thread (70, 30 Hz) | note_index | measure, raise the failsafe, publish the note | distance_thread.c |
| display thread (60, 20 Hz) | current_index, failsafe, prev_failsafe | move the light, dark on failsafe, relight | display_thread.c |
| console thread (40) | input buffer, err | commands q f r, and b 0..9 in the emulator | console_thread.c |
| logging thread (30, 10 Hz) | a copy of the logging state | read and print, one last pass after stop | logging_thread.c |
| failsafe state | one flag, a mutex | init, set, get, cleanup | failsafe_state.c |
| distance state | distance and note index, a mutex | init, write, read, cleanup | distance_state.c |
| logging state | 32 messages, 64 entries, two counts, a mutex | init, message, entry, read, cleanup | logging_state.c |
| stop flag | `volatile sig_atomic_t stop` | set by `q`, by a fatal command, by SIGINT and SIGTERM, by a failed init | stop.c |
| pin drivers | GPIO map, in_use, emulated pin levels | init, set, read, cleanup | pin_io_bbb.c, gpio_bbb_sysfs.c, pin_io_emu.c |
| buzzer | sysfs PWM channel | play, stop | pwm_sysfs.c, pwm_emu.c |
| pure helpers | none | timing arithmetic, note_from_distance_cm, GPIO input validation, launched flags | timing.c, notes.h, gpio_common.c, thread_launched_flags.h |

`gpio_bbb_mmap.c` is in no target of the Makefile. `timestamp_queue_destroy` is
never called.

### Interaction

The threads communicate only through the three mutex-protected states, the
stop flag, the pins and the files. The beam thread reads the failsafe and the
note and may raise the failsafe; the distance thread writes the note and may
raise the failsafe; the display thread reads both; the console raises and
clears the failsafe and (in the emulator) writes the note and the beam pin;
everybody appends to the logging state and the logging thread empties it. No
thread ever holds two of the mutexes. Main does nothing between launch and join.

### What is hard here

- A command or an alarm takes two accesses (ask, then act) and another thread
  may act in between: output_note, `f`, `r`.
- The display thread samples the failsafe; edges between samples are lost.
- Each getter has an error path that must fail safe.
- The logging thread works on a copy while the buffers refill.
- Stop arrives at any time, from a signal or from a thread, also during
  initialisation; the console may be blocked in fgets.
- Any of a dozen initialisation and cleanup steps may fail alone; so may each
  write to a GPIO or PWM file, and most callers look at no result.
- The beam thread is blind while a note sounds, and late wake-ups are made up for.
- At the end of input the console thread spins, above the priority of the logging
  thread.
- Two prompts and a thread read one stdin into buffers that a line may not fit.
- GPIOs and the PWM channel are as an earlier, perhaps killed, run left them.

What makes the components correct, and where it is stated:

| Component | Correct when | Property |
|---|---|---|
| timestamp queue | it answers like a sliding window over all breaks | `ImplementsWindow` |
| beam thread | at most one note escapes a failsafe; silent when the program is over | `AtMostOneLateNote`, `QuietAfterExit` |
| beam thread in time | it keeps its rate, spaces sounding breaks, takes a held beam for one break and warns of it | `PollsPaced`, `SoundedBreaksSpaced`, `SilenceBehindViolation`, `OneBreakPerHold`, `HeldBeamWarned` |
| buzzer | pwm_play does what it reports, whatever was before; silence between notes | `PlayKeepsItsWord`, `SilentBetweenNotes` |
| pin drivers, GPIO input | every logical pin is a switch of its own, cleared at the exit | `ImplementsLogicalPins`, `DirectionsStand`, `ClearedAtExit` |
| prompts, console input | end with the input; a command is a line of its own | `EofEndsSetup`, `CommandsAreLines`, `EachCommandRuns` |
| timing, notes | timespecs add and subtract as nanoseconds; every distance selects a note, in order | `RoundTrip`, `AddIsSum`, `DiffIsDifference`, `NoteIsValid`, `NotesAscend`, `EveryNoteSelected` (theorems) |
| display thread | one LED at most, dark exactly in the failsafe, reaches the note | `LedsFollowFailsafe`, `DisplayConverges` |
| distance thread | a persisting alarm survives overrides | `AlarmReasserted` |
| failsafe | reaches buzzer and LEDs | `SafeStateReached` |
| logging | in order, nothing twice, losses recorded, everything gets out while the console does not spin | `ImplementsLossyLog`, `LossIsRecorded`, `EveryLogGetsOut` |
| main | no use after cleanup, everything released, honest exit code | `ThreadsHaveResources`, `EverythingReleased`, `ExitCodeTells` |
| stop | every thread ends | `StopEndsThreads`, `QuitEndsProgram`, `InitFailureEnds` |

## 2. Modules

| Module | What it is |
|---|---|
| `SlidingWindow` | abstract: the history of breaks and a count over the last second |
| `TimestampQueue` | timestamp_queue.c, shown to implement `SlidingWindow` |
| `Notes` | notes.h: indices, validity, the note of a distance |
| `Timing` | timing.c: timespec arithmetic |
| `AirPiano` | beam, distance, display and console threads over the failsafe, the distance state, stop, LEDs and buzzer; both builds |
| `LossyLog` | abstract: what logging_state.h:7-14 promises |
| `Logging` | logging_state.c and logging_thread.c, and the console around the stop; shown to implement `LossyLog` |
| `Lifecycle` | main.c: initialise, launch, join, clean up, with every failure |
| `PwmSysfs` | pwm_sysfs.c over the kernel's PWM channel, write by write |
| `BeamThread` | beam_thread.c against the clock: composes `TimestampQueue`, `Timing` and `PwmSysfs` |
| `LogicalPins` | abstract: what pin_io.h promises, without GPIO numbers |
| `PinIo` | query_gpio's numbers and both pin drivers over the GPIOs; shown to implement `LogicalPins` |
| `Terminal` | stdin, both prompts of main and the console's buffer, around `PinIo` |
| `*_proofs` | the theorems about each |
| `MC*` | the finite instances |

**TimestampQueue.** `queue` and `head` are the struct's fields, `violation` the
last output; `breaks` is a history of all appended timestamps, which the
properties compare the ring with. `AppendTimestamp` is the whole of
`timestamp_queue_append`; timestamps are nanoseconds since boot as one number.
`SlidingWindow` says "violation" also for breaks in the first second after boot:
the slots start as timestamp zero, so there the code does report one. The error
paths of append need a null pointer or a 292-year difference.

**AirPiano.** One action per access to shared state. A thread's program counter
names the access it is about to make: the beam thread goes `tick` (stop test,
pin read, edge) then `violation`, or `gate` (failsafe_state_shared_get), `fetch`
(distance_state_shared_read), `play` (pwm_play), `sound` (the sleep, then
pwm_stop). The get and set functions lock, copy and unlock, so each is one
atomic access; a failing call (`CallFails`) takes the function's error path, at
most `MaxFaults` times in a behaviour. Sleeping is not a state: between any two
steps of a thread every other thread may run, which includes every timing and
every priority. A distance reading is the note it selects or one of `Failed`,
`BeyondNotes`, `BeyondSensor`; the emulator's sensor always reads 10 cm, and its
console publishes the notes of 0, 10 .. 90 cm, through `Notes`. Whether a beam
break is one too many is either answer here;
`TimestampQueue` says which. `broken_ticks` stops counting at the warning
threshold, past which its value only spaces the warnings. `beamNote` and
`waking` are values of locals, reset when they are dead. `build` picks the pin
driver, and with it the emulator's commands and whether cleanup clears LEDs.
`lateNotes` is a history: the notes started since the failsafe was last raised.
A write to an LED of the board may fail (`SwitchOn`, `SwitchOff`): the LED stays
as it was and joins `missed` until a later write to it works. The properties
about LEDs are relative to `missed`, as the code repeats no write. Buzzer writes
are taken to work here; `BeamThread` has them fail.

**Notes, Timing.** Operators without state. Distances are whole numbers of a unit
as small as one likes, as the float computation is monotone and its conversion
rounds towards zero. `TIME_TYPE` is a record of two fields, its normal form
`tv_nsec` below a billion.

**PwmSysfs.** `enable`, `period` and `duty` are the channel. The kernel refuses
what the comments of pwm_play say it refuses (`TakesPeriod`, `TakesDuty`,
`TakesEnable`, external); any write may also fail by itself, `MaxIoFaults` times.
`call` is the next write of the pwm_play under way. `PwmInit` lets an earlier run
have left the channel with any period and sounding.

**BeamThread.** The clock moves only in the two sleeps; a sleep ends up to `MaxLate`
late, or at once when stop cuts it short. `poll` is the loop up to output_note,
`output` the question whether there is a note, `play` the writes and the note's
sleep, `stop` pwm_stop, `wait` the sleep to the next period. `broken_ticks` wraps at
`UINT32`. `Queue` is the real `TimestampQueue`, fed with the clock. Histories:
`sounded` (whether the note of each break was full), `intact`, `quiet`, `polls`, and
in PwmSysfs `clean` and `offFailed`.

**PinIo.** `map_array` is the GPIO of each logical pin, as typed; `direction` and
`level` are the board's GPIOs, `pin_states` the emulator's. Initialising and clearing
are one pin per step. `uncleared` and `request` are histories. To `LogicalPins` an
output is the level of its GPIO, off before the driver is in use: a request
changes the pin it names or none.

**Terminal.** `pending` is what was typed and not read yet, at most a line. `Chunk` is
fgets (external): up to the newline or the buffer's size. A command is one
character; a list of numbers or a duration is one symbol, which as a first symbol
is parsed or refused. `reader` says who reads next. `ConsoleLine` fills the static
buffer as fgets does, so the rest of an earlier line is still behind the
terminator. `OtherThreadSets` is every pin_io_set of the other threads.

**Logging.** A log is the number of its request on its channel (`message` for
stdout, `entry` for the file). `buf` and `count` are the shared state, `copy` and
`copyCount` the logging thread's local one, `out` what is printed, with `Lost`
for the warning line (which the code prints to stdout for both channels).
`AppendLog` is logging_state_shared_message and _entry alike. `LogRead` copies
and clears in one step, as the code does under its lock; printing is without the
lock and one step per channel. The console appears with what it logs around the
stop it signals and with the loop it falls into at the end of input
(`ConsoleInputEnds`, then `ConsoleSpins` until the stop): it logs nothing there, but
keeps the processor. All other threads are `OtherThreadLogs`.

**LossyLog** keeps one record per channel: numbers and loss marks, and how much
of it is out. A log may be dropped only behind a full buffer's worth of
undelivered logs. `Logging` maps to it with the record *printed, rest of the
copy, buffer*: that reading stays the same when a log moves from the buffer to
the copy and from the copy to the output.

**Lifecycle.** `phase` and `step` are the position in main; each step of
main_init, each pthread_create, each thread's err_out and each cleanup may
fail. `inUse` is the set of in_use flags (and the open log file). `Uses(t)` is
what main puts in a thread's arguments; for the console this is the emulator's
set, which includes the board's. Query of the GPIO numbers belongs to the pins'
initialisation. The launched flags are the set of their bits. A thread is
`running`, `reading` (the console in fgets) or `ended`.

## 3. Runs

| Run | Instance | Shows |
|---|---|---|
| `queue` | 3 slots, second = 3 units, 7 appends, clock 0..7 | types, `RingHoldsLatestBreaks`, `ImplementsWindow`; 6 435 states |
| `queue_more_than_max` | same | violated: the 10th break is flagged, the documents say "more than 10" |
| `piano` | 3 notes, warning after 2 ticks, both builds, 1 failing lock or LED call | types, LEDs, late notes, quiet exit; 5.8 million states |
| `piano_live` | 2 notes, both builds, no failing call, fair | five liveness properties; 276 000 states |
| `safe_state_sound` | 2 notes, board | violated: a note can start in the failsafe |
| `out_of_range_sound` | 2 notes, board | violated: a stale note sounds beyond the range |
| `logging` | 1 message, 2 entries, 4 requests each, 1 failing read, end of input, fair | losses, order, last pass, refinement, progress; 634 000 states |
| `final_logs` | 2 requests each | violated: the last entry may stay unprinted |
| `lifecycle` | the program's own five resources and threads | use after cleanup, release, exit code, end after a failed init; 712 states |
| `stuck_pin` | same | violated: a stuck pin is not reported |
| `beam` | 2 notes, 3 slots, a second of 6 periods, note of 1, lateness 1, 2 failing I/O calls, clock to 17 | timing, warnings, buzzer; 10.6 million states |
| `terminal` | 2 outputs and 1 input on 3 GPIOs, 9 lines, buffers of 3, 3 and 4, 1 failing write, both builds | pins and `LogicalPins`, commands, end of input; 1.32 million states |

Why the bounds are enough. *queue*: 3 slots have a first, a middle and a last
slot; 7 appends wrap the ring twice; the clock runs over more than two windows
from boot, so breaks fall before, on and after both edges of a window. *piano*:
with 3 notes the light passes an LED on its way and both ends of the array are
distinct from the middle; the warning threshold 2 separates a first broken tick
from a held one; one failing call can hit any of the calls at any time (the
proofs cover any number). *piano_live* has 2 notes because the temporal
properties multiply the state space; the light then moves both ways. *logging*:
capacities 1 and 2 with 4 requests overflow both buffers, twice for messages,
with a reader's copy outstanding; different capacities keep the channels apart.
*beam*: a unit of time is a period, so lateness of one unit makes the loop
overrun by a whole period; a second is two sounding breaks long, so that the queue
of three is just full of notes; the tick count wraps at 8, after warnings at 4 and 6,
and the clock ends when a beam held all along has been warned of once more; the notes are in the proportions of
C4 and C5, where the duty cycle of one is the period of the other, the case the
second write of pwm_play is for; two failures can spoil a play and the stop behind
it. *terminal*: three pins on three GPIOs leave every assignment possible, with
duplicates of neighbours and of pins apart, and a number too large; the lines are
empty, single, double, as long as the console's buffer and longer than each, with
tails that are a command. The program's buffers are 128, 32 and 64; fgets
treats all sizes alike.

Runs with `CHECK_DEADLOCK FALSE` are of programs that end, or bound a counter.

`MaxAppends`, `MaxLogs`, `MaxFaults`, `MaxIoFaults`, `MaxPinFaults` and `MaxTime`
are the only bounds in guards (`MaxBreaks` is the queue's `MaxAppends`);
`LogOwnEntry` skips its entry once `MaxLogs` requests are made.

The five violated properties quote documents or comments and are the findings
of `PROJECT.json`; six more findings there need no
run: the `r` command, the 2 s maximum, the 0.3 s comment, the retry loops around
clock_nanosleep that never retry, the console loop that nothing slows down at the end of
input, and the commands that are not whole lines.

### Fairness

Each thread's loop sleeps until its next period, then takes a bounded number of
steps; no thread waits for another while it holds a mutex. So each thread gets
weak fairness of its own steps (`Beam`, `Distance`, `Display`, the console's
steps that need no input, `Main`, `ThreadEnds`; for `LogThread` see below). None is assumed
for anything the user does (`ConsoleCommand`, `ConsoleLine`, the answers that
main_init waits for), for signals, or for other threads' logging.

The threads are SCHED_FIFO (priority.c), on a board with one processor, so a thread has
its turn only if those above it sleep. Console and logging thread are the lowest, in this
order, and one loop above the logging thread does not sleep: the console's at the end of
input (console_thread.c:384-423). So `Logging` has that loop, and its `FairSpec` assumes
nothing of the logging thread while the console spins; `EveryLogGetsOut` excepts that
state, in which a log may wait until a stop comes, and holds again from the stop on.
Without the exception TLC finds it violated, by a console that spins for ever.
What is left as an assumption is that the sleeping threads sleep long enough: the distance
thread waits at most 30 ms for an echo to start and 30 ms for it to end, in a period of
33 ms. Echoes that always start more than 3 ms late and last as long would leave display,
console and logging nothing
(distance_thread.c:59-81), and what these three promise to do in time is not claimed then;
that is listed as a hazard.

`Terminal` assumes weak fairness of `Setup` only, the steps main_init takes with the
input there is or its end; `EofEndsSetup` needs no more.

A poll that finds the beam as it was is a stuttering step, so weak fairness of
`Beam` also says that the beam does not stay as it is forever. No property
relies on that: they hold as well with fairness of the beam thread's other steps
only.

`QuitEndsProgram` excludes a console already waiting in fgets: after SIGINT the
program asks the user for Enter (stop.c:16-21) and main waits until then.

## 4. Proofs

| Theorem | States | For all |
|---|---|---|
| `TimestampQueue_proofs!TypeCorrect`, `RingCorrect` | `TypeOK`, `RingHoldsLatestBreaks` | ring sizes 1..255, windows, timestamps |
| `TimestampQueue_proofs!Refinement` | `Spec => ImplementsWindow` | the same |
| `AirPiano_proofs!TypeCorrect`, `LedsCorrect`, `LateNotesBounded`, `ExitIsQuiet` | `TypeOK`, `LedsFollowFailsafe`, `AtMostOneLateNote`, `QuietAfterExit` | numbers of notes, of ticks, of failing calls, builds |
| `Timing_proofs!RoundTrip`, `AddIsSum`, `DiffIsDifference` | timespec arithmetic is that of nanoseconds and stays normal | times, durations, billions |
| `Notes_proofs!NoteIsValid`, `NotesAscend`, `EveryNoteSelected` | the note of a distance is in the table, rises with it, and misses none | distances, ranges, numbers of notes |
| `Logging_proofs!TypeCorrect`, `LastPassCorrect`, `LossCorrect` | `TypeOK`, `LogsBeforeStopPrinted`, `LossIsRecorded` | capacities, requests, failing reads |
| `Logging_proofs!OrderCorrect` | the numbers printed on a channel rise: nothing twice, nothing out of order | the same |
| `Logging_proofs!Refinement` | `Spec => ImplementsLossyLog` | the same |
| `BeamThread_proofs!TypeCorrect`, `PlayCorrect`, `SilenceCorrect` | `TypeOK`, `PlayKeepsItsWord`, `SilentBetweenNotes` | note tables, states of the channel, failing writes |
| `BeamThread_proofs!WarningCorrect`, `PaceCorrect`, `SpacingCorrect`, `ViolationCorrect`, `HoldCorrect` | `HeldBeamWarned`, `PollsPaced`, `SoundedBreaksSpaced`, `SilenceBehindViolation`, the action property `OneBreakPerHold` | periods, durations, warning rates, widths of the tick count, lateness, slots |
| `BeamThread_proofs!ThreadKeepsWindow` | the thread's queue implements the sliding window over the thread's breaks | the same |
| `Terminal_proofs!TypeCorrect`, `DirectionsCorrect`, `ClearCorrect` | `TypeOK`, `DirectionsStand`, `ClearedAtExit` | numbers of pins, GPIO numbers typed, failing writes, builds |
| `Terminal_proofs!CommandsCorrect`, `CommandRuns` | `CommandsAreLines`, `EachCommandRuns` | lines, buffer sizes |
| `Terminal_proofs!Refinement` | `Spec => ImplementsLogicalPins` | numbers of pins, GPIO numbers typed, failing writes, builds |
| `Lifecycle_proofs!TypeCorrect`, `NoUseAfterCleanup`, `NothingLeft`, `ExitCodeCorrect` | `TypeOK`, `ThreadsHaveResources`, `EverythingReleased`, `ExitCodeTells` | (no constants) all behaviours |

The only assumptions are the named ones on the constants (`QueueAssumption`,
`PianoAssumption`, `NotesAssumption`, `TimingAssumption`, `LoggingAssumption`,
`PwmAssumption`, `BeamAssumption`, `PinAssumption`, `TerminalAssumption`); TLC
evaluates them in the runs. They hold of the program's own values: ten slots
(`head` is a `uint8_t`), a tick count of 32 bits far above the warning rates, buffers of
128, 32 and 64 characters, GPIO numbers up to 127. Each
proof has the shape *Init implies IInv, IInv is preserved by every action, IInv
implies the property*, with one step per action. The inductive invariants:

- **TimestampQueue**: `TypeOK`, `RingHoldsLatestBreaks` and that the history is
  sorted. Sortedness is what makes one comparison with the oldest slot equal to
  counting: the N-th latest break lies in the window exactly if the N latest
  all do.
- **AirPiano**: `LedInv` says which LED is on, but for missed ones, at each program point of the
  display thread; the property about `tick` alone is not inductive, as the light
  is off between the two halves of a shift. It also says that a shift goes
  towards a note in the array, and `WriteInv` that a note about to be published
  is in it, which together keep `current_index` there. `LateInv`: without a
  failsafe there is no late note, and a beam thread past the gate has started
  none yet. `QuietInv` ties a sounding buzzer to the beam thread's sleep, and
  main's end to the joins.
- **Logging**: `MarkInv` says that what the buffers hold after the read of the
  last pass was logged after the stop, and that this pass begins after the stop.
  The refinement needs one fact more, `NumberInv`: no mark is stored in a buffer, so
  the first lost log is the one that adds a mark to the record. An append is a
  `Keep` or a `Lose`, a read changes nothing in the record (its last part becomes the part
  in the thread's hands), a print is a `Deliver`. `LossIsRecorded` and the order of the
  numbers (`OrderInv`) are then carried by the steps of `LossyLog` alone.
- **BeamThread**: `PlayInv` says what the writes of pwm_play done so far have left in
  the channel; `EdgeInv` that an intact last poll is on the history; `TickInv` what
  the tick count says of the polls since the last warning, with one round of
  warnings open when it has wrapped. `PaceInv` relates the wake-up time to the polls done
  and `GapInv` to the latest break that sounded: due a period after the end of its
  note, and one period more once the beam was seen intact. `SoundedBreaksSpaced` is about
  neighbours; `RowInv` says that a row of breaks that all sounded adds up, stated from each
  break to the latest so that one append carries it and no induction is needed.
  `ViolationInv` is what the queue's own invariant says of its answer. The queue's
  lemmas and its refinement are used through an instance of `TimestampQueue_proofs`, whose
  assumption `QueueMeetsAssumption` discharges; the wake-up times through `AddIsSum`.
- **Terminal**: `PinInv` over the drivers. `PhaseInv` has the one fact all the rest hangs
  on, that the accepted GPIO numbers are injective (`ValidMap`), so that a write at one
  pin's GPIO is never read at another's (`OwnGpio`); `DirInv` and `OffInv` say which
  directions and levels the initialisation has been through, `ClearInv` which outputs
  the cleanup has. `InputInv`: what is pending ends in a newline unless the input has ended.
  With what fgets takes (`ChunkIsLine`: no newline but at the end, all there is unless the
  buffer is full) this decides the two questions the console asks, by the
  length of what was read: one character, two, or more (`ReadStep`).
- **Lifecycle**: `UseInv` (which resources are in use at each step of each
  phase), `JoinInv` (threads before `step` are joined and gone) and `ErrInv`
  (every failure so far is in `ret`, `lastErr` or an err_out still to be read).

The theorems about operators rest on lemmas about division and one carry:
`Division`, `Distribute` and `Carried` for seconds, `Quotient` and `QuotientBounds`
for a range. `NoteIsValid`
is used in `TypeOK` of AirPiano, for the distances of the emulator. `LeastExists`
takes the least number of a set from the well-foundedness of `<`, for the first newline.

So every invariant, every refinement and every action property of the passing runs is
a theorem. Only model-checked are the liveness properties, as the prover has no
rules for fairness and `ENABLED` here: `SafeStateReached`, `DisplayConverges`, `AlarmReasserted`,
`StopEndsThreads`, `QuitEndsProgram`, `EveryLogGetsOut`, `InitFailureEnds`, `EofEndsSetup`.
The violated properties are false, and TLC shows it.

## 5. Mutants

Every property of a passing run has a mutant: a definition of the model changed
as a plausible bug would (a check left out, a wrap one early, a join forgotten,
a warning not printed), for which TLC finds the property violated. They stand
before the definition they change, under a comment "Mutant".

## 6. Plan

Done, in this order: the queue and its window; the four threads around the
failsafe; the logging; the life cycle; the first theorems of each; failing LED
writes; the beam thread in time with the buzzer; the pin drivers and the terminal;
timing and notes with their theorems.

Then the proofs: the beam thread and the buzzer, the pins and the terminal, and the
logging as a lossy log.

Next:

1. `AirPiano`: the display thread's light as an action property (it moves by one LED,
   towards a note that was published), and the invariants the liveness arguments
   rest on.
2. `Logging`: how much can be undelivered at once, for all capacities.

## 7. Not modelled, and why

- Scheduling priorities, priority inheritance and execution times: the models let
  every interleaving happen, which includes what the scheduler does. What only
  holds thanks to priorities is not claimed, and that echoes which come late
  can starve the lower threads (distance_thread.c:59-81) is only a hazard.
- The periods of the distance, display and logging loops: the same absolute sleep as
  in `BeamThread`, without its note.
- Failing buzzer writes in `AirPiano`: there a note that plays sounds and a stop
  silences; `BeamThread` has what happens when they do not.
- A failing initialisation of a mutex in its parts (attributes, destruction of a
  mutex never initialised); use of a state after its cleanup is excluded by
  `Lifecycle` (`ThreadsHaveResources`).
- The timestamps of log entries: taken before the lock, they may be stored out of
  order (beam_thread.c:130), which no code relies on.
- The conversion of an absurdly long duration to an integer (main.c:235): refused or
  accepted are both modelled.
- The signal handler's printf; the contents of messages; rounding of floats.
- `gpio_bbb_mmap.c` (not built), `error_type.h`, slides and diagrams.
