---- MODULE Terminal_proofs ----
(***************************************************************************)
(* For every number of pins, every map the user may type, every line and   *)
(* every buffer size: the properties of Terminal and of the pin drivers.   *)
(***************************************************************************)
EXTENDS Terminal, WellFoundedInduction, TLAPS

(* What a step does to the pins.                                           *)
PinNext ==
  \/ \E input \in [Pins -> Typed] : GpioNumbers(input)
  \/ GpioNumbersEnd \/ SetDir
  \/ \E p \in Pins, s \in {0, 1} : pin_io_set(p, s)
  \/ pin_io_cleanup \/ ClearPin \/ CloseDrivers

Opened == {"ready", "clear"}
Unopened == {"query", "dirs", "failed"}

(* The phases of the drivers; no two pins have the same gpio.              *)
PhaseInv ==
  /\ pinPc \notin {"query", "failed"} => IsInjective(map_array)
  /\ in_use = IF pinPc \in Opened THEN 1 ELSE 0
  /\ gpio_in_use = 1 => pinPc # "closed"
  /\ gpio_in_use = 1 \/ pinPc \in {"dirs", "clear"} => build = "bbb"
  /\ pinPc = "query" => pin_id = 0
  /\ pinPc = "dirs" => pin_id \in Pins
  /\ pinPc = "clear" => pin_id <= PIN_OUT_NUM

(* The directions set so far stand, and so do the outputs' states.         *)
Kind(p) == IF p \in Outs THEN "out" ELSE "in"
DirInv ==
  /\ pinPc = "dirs" =>
       \A p \in Pins : p < pin_id => direction[map_array[p]] = Kind(p)
  /\ pinPc \in Opened /\ build = "bbb" =>
       \A p \in Pins : direction[map_array[p]] = Kind(p)
OffInv ==
  /\ pinPc = "dirs" => \A p \in Outs : p < pin_id => level[map_array[p]] = 0
  /\ pinPc \in Unopened => pin_states = [p \in Pins |-> 0]

(* The outputs that the cleanup has been to.                               *)
ClearInv ==
  /\ pinPc = "clear" =>
       \A p \in Outs :
         p < pin_id /\ level[map_array[p]] = 1 => p \in uncleared
  /\ pinPc = "closed" /\ build = "bbb" =>
       \A p \in Outs : level[map_array[p]] = 1 => p \in uncleared

PinInv == PinTypeOK /\ PhaseInv /\ DirInv /\ OffInv /\ ClearInv

(* What is typed is a line, or the start of the last one.                  *)
InputInv ==
  /\ pending \in Seq(Symbols \union {NL})
  /\ pending # <<>> /\ ~eof => pending[Len(pending)] = NL

IInv ==
  /\ TypeOK /\ PinInv /\ InputInv
  /\ CommandsAreLines /\ EachCommandRuns

----
(* The pins by their ids.                                                  *)
LEMMA Ids ==
  /\ PIN_OUT_NUM \in Nat \ {0} /\ PIN_IN_NUM \in Nat \ {0}
  /\ Pins = 0..(PIN_OUT_NUM + PIN_IN_NUM - 1)
  /\ Outs \subseteq Pins /\ 0 \in Outs /\ PIN_OUT_NUM \in Pins
  /\ \A p \in Pins : p \in Outs <=> p < PIN_OUT_NUM
BY PinAssumption DEF Pins, Outs, Ins

(* A map of gpios written at one pin's gpio, read at another's.            *)
LEMMA OwnGpio ==
  ASSUME NEW map \in [Pins -> Gpios], IsInjective(map),
         NEW V, NEW f \in [Gpios -> V], NEW q \in Pins, NEW v \in V
  PROVE  /\ [f EXCEPT ![map[q]] = v] \in [Gpios -> V]
         /\ \A p \in Pins : [f EXCEPT ![map[q]] = v][map[p]]
                              = IF p = q THEN v ELSE f[map[p]]
<1>1. map[q] \in Gpios /\ \A p \in Pins : map[p] \in Gpios
  OBVIOUS
<1>2. \A p \in Pins : map[p] = map[q] => p = q
  BY DEF IsInjective
<1>. QED
  BY <1>1, <1>2

(* The numbers that are accepted are a map without two pins on one gpio.   *)
LEMMA ValidMap ==
  ASSUME NEW input \in [Pins -> Typed], is_gpio_input_valid(input)
  PROVE  input \in [Pins -> Gpios] /\ IsInjective(input)
<1>1. ASSUME NEW p \in Pins  PROVE input[p] \in Gpios
  <2>1. input[p] \in Nat /\ input[p] <= GPIO_TYPE_MAX_INCL
    BY PinAssumption DEF is_gpio_input_valid
  <2>. QED
    BY <2>1, PinAssumption DEF Gpios
<1>. QED
  BY <1>1 DEF is_gpio_input_valid

(* The writes of an output, on the board.                                  *)
LEMMA WriteValueStep ==
  ASSUME PinTypeOK, IsInjective(map_array), NEW q \in Pins, NEW s \in {0, 1},
         WriteValue(q, s), direction[map_array[q]] = "out"
  PROVE  /\ pinFaults' \in 0..MaxPinFaults /\ level' \in [Gpios -> {0, 1}]
         /\ \/ \A p \in Pins : level'[map_array[p]]
                                 = IF p = q THEN s ELSE level[map_array[p]]
            \/ level' = level
<1>1. map_array \in [Pins -> Gpios] /\ level \in [Gpios -> {0, 1}]
  BY DEF PinTypeOK
<1>2. pinFaults' \in 0..MaxPinFaults
  BY PinAssumption DEF WriteValue, WriteFails, WriteWorks, PinTypeOK
<1>3. CASE level' = [level EXCEPT ![map_array[q]] = s]
  BY <1>1, <1>2, <1>3, OwnGpio
<1>4. CASE level' = level
  BY <1>1, <1>2, <1>4
<1>. QED
  BY <1>3, <1>4 DEF WriteValue

----
(* Setting one pin's direction.                                            *)
LEMMA SetDirStep ==
  ASSUME PinInv, SetDir
  PROVE  PinInv'
<1>0. /\ PinTypeOK /\ PhaseInv /\ DirInv /\ OffInv /\ ClearInv
      /\ pinPc = "dirs" /\ pin_id \in Pins /\ build = "bbb"
      /\ map_array \in [Pins -> Gpios] /\ IsInjective(map_array)
      /\ direction \in [Gpios -> {"in", "out"}] /\ level \in [Gpios -> {0, 1}]
      /\ UNCHANGED <<build, map_array, gpio_in_use, pin_states, request, uncleared>>
  BY DEF PinInv, PinTypeOK, PhaseInv, SetDir
<1>1. pinFaults' \in 0..MaxPinFaults
  BY <1>0, PinAssumption DEF SetDir, WriteFails, WriteWorks, PinTypeOK
<1>2. CASE pinPc' = "failed"
           /\ UNCHANGED <<direction, level, pin_id, in_use>>
  BY <1>0, <1>1, <1>2
  DEF PinInv, PinTypeOK, PhaseInv, DirInv, OffInv, ClearInv, Opened, Unopened
<1>3. CASE /\ direction' = [direction EXCEPT ![map_array[pin_id]] = Kind(pin_id)]
           /\ level' = IF pin_id \in Outs
                       THEN [level EXCEPT ![map_array[pin_id]] = 0] ELSE level
           /\ pin_id' = pin_id + 1
           /\ IF pin_id' \in Pins THEN UNCHANGED <<pinPc, in_use>>
                                  ELSE pinPc' = "ready" /\ in_use' = 1
  <2>1. /\ direction' \in [Gpios -> {"in", "out"}]
        /\ \A p \in Pins : direction'[map_array[p]]
                = IF p = pin_id THEN Kind(p) ELSE direction[map_array[p]]
    <3>1. PICK kind \in {"in", "out"} : kind = Kind(pin_id)
      BY DEF Kind
    <3>2. direction' = [direction EXCEPT ![map_array[pin_id]] = kind]
      BY <1>3, <3>1
    <3>3. direction' \in [Gpios -> {"in", "out"}]
      BY <1>0, <3>2
    <3>4. ASSUME NEW p \in Pins
          PROVE  direction'[map_array[p]]
                   = IF p = pin_id THEN kind ELSE direction[map_array[p]]
      <4>1. map_array[p] \in Gpios /\ map_array[pin_id] \in Gpios
        BY <1>0
      <4>2. map_array[p] = map_array[pin_id] => p = pin_id
        BY <1>0 DEF IsInjective
      <4>3. p = pin_id => map_array[p] = map_array[pin_id]
        OBVIOUS
      <4>. QED
        BY <1>0, <3>2, <4>1, <4>2, <4>3
    <3>. QED
      BY <3>1, <3>3, <3>4
  <2>2. /\ level' \in [Gpios -> {0, 1}]
        /\ \A p \in Outs : level'[map_array[p]]
                = IF p = pin_id THEN 0 ELSE level[map_array[p]]
    <3>1. CASE pin_id \in Outs
      BY <1>0, <1>3, <3>1, Ids, OwnGpio
    <3>2. CASE pin_id \notin Outs
      BY <1>0, <1>3, <3>2
    <3>. QED
      BY <3>1, <3>2
  <2>3. \A p \in Pins : p < pin_id' => direction'[map_array[p]] = Kind(p)
    <3>1. \A p \in Pins : p < pin_id => direction[map_array[p]] = Kind(p)
      BY <1>0 DEF DirInv
    <3>2. \A p \in Pins : p < pin_id' => p < pin_id \/ p = pin_id
      BY <1>0, <1>3, Ids
    <3>. QED
      BY <2>1, <3>1, <3>2
  <2>4. \A p \in Outs : p < pin_id' => level'[map_array[p]] = 0
    <3>1. \A p \in Outs : p < pin_id => level[map_array[p]] = 0
      BY <1>0 DEF OffInv
    <3>2. \A p \in Outs : p < pin_id' => p < pin_id \/ p = pin_id
      BY <1>0, <1>3, Ids
    <3>. QED
      BY <2>2, <3>1, <3>2
  <2>5. pin_id' \in 0..(PIN_OUT_NUM + PIN_IN_NUM)
    BY <1>0, <1>3, Ids
  <2>6. CASE pin_id' \in Pins
    <3>1. UNCHANGED <<pinPc, in_use>>
      BY <1>3, <2>6
    <3>. QED
      BY <1>0, <1>1, <2>1, <2>2, <2>3, <2>4, <2>5, <2>6, <3>1
      DEF PinInv, PinTypeOK, PhaseInv, DirInv, OffInv, ClearInv, Opened, Unopened
  <2>7. CASE pin_id' \notin Pins
    <3>1. pinPc' = "ready" /\ in_use' = 1
      BY <1>3, <2>7
    <3>2. \A p \in Pins : p < pin_id'
      BY <1>0, <1>3, <2>7, Ids
    <3>. QED
      BY <1>0, <1>1, <2>1, <2>2, <2>3, <2>5, <3>1, <3>2
      DEF PinInv, PinTypeOK, PhaseInv, DirInv, OffInv, ClearInv, Opened, Unopened
  <2>. QED
    BY <2>6, <2>7
<1>. QED
  BY <1>2, <1>3 DEF SetDir, Kind

(* The answer to query_gpio opens the driver below, or the emulator.       *)
LEMMA NumbersStep ==
  ASSUME PinInv, NEW input \in [Pins -> Typed], GpioNumbers(input)
  PROVE  PinInv'
<1>0. /\ PinTypeOK /\ PhaseInv /\ DirInv /\ OffInv /\ ClearInv
      /\ pinPc = "query" /\ pin_id = 0
      /\ UNCHANGED <<build, pin_id, direction, level, pin_states, pinFaults,
                     request, uncleared>>
  BY DEF PinInv, PhaseInv, GpioNumbers, hardware
<1>1. CASE ~is_gpio_input_valid(input)
  <2>1. UNCHANGED pinVars
    BY <1>0, <1>1 DEF GpioNumbers, pinVars, drivers, hardware
  <2>. QED
    BY <1>0, <2>1 DEF PinInv, PinTypeOK, PhaseInv, DirInv, OffInv, ClearInv,
                      pinVars, drivers, hardware
<1>2. CASE is_gpio_input_valid(input)
  <2>1. map_array' \in [Pins -> Gpios] /\ IsInjective(map_array')
    BY <1>2, ValidMap DEF GpioNumbers
  <2>2. /\ 0 \in Pins /\ \A p \in Pins : ~(p < 0)
        /\ Outs \subseteq Pins
    BY Ids
  <2>3. CASE build = "bbb"
    <3>1. pinPc' = "dirs" /\ gpio_in_use' = 1 /\ in_use' = in_use
      BY <1>2, <2>3 DEF GpioNumbers, gpio_bbb_init
    <3>. QED
      BY <1>0, <2>1, <2>2, <2>3, <3>1
      DEF PinInv, PinTypeOK, PhaseInv, DirInv, OffInv, ClearInv, Opened, Unopened
  <2>4. CASE build # "bbb"
    <3>1. pinPc' = "ready" /\ in_use' = 1 /\ gpio_in_use' = gpio_in_use
      BY <1>2, <2>4 DEF GpioNumbers, InitEmulator
    <3>. QED
      BY <1>0, <2>1, <2>4, <3>1
      DEF PinInv, PinTypeOK, PhaseInv, DirInv, OffInv, ClearInv, Opened, Unopened
  <2>. QED
    BY <2>3, <2>4
<1>. QED
  BY <1>1, <1>2

(* A request for a pin.                                                    *)
LEMMA SetStep ==
  ASSUME PinInv, NEW q \in Pins, NEW s \in {0, 1}, pin_io_set(q, s)
  PROVE  PinInv'
<1>0. /\ PinTypeOK /\ PhaseInv /\ DirInv /\ OffInv /\ ClearInv
      /\ pinPc = "ready" /\ IsInjective(map_array)
      /\ UNCHANGED <<build, pinPc, pin_id, map_array, in_use, gpio_in_use,
                     direction, uncleared>>
      /\ request' \in Pins \X {0, 1}
  BY DEF PinInv, PhaseInv, pin_io_set, drivers
<1>1. CASE build = "bbb"
  <2>1. q \in Outs /\ WriteValue(q, s) /\ UNCHANGED pin_states
    BY <1>1 DEF pin_io_set
  <2>2. direction[map_array[q]] = "out"
    BY <1>0, <1>1, <2>1 DEF DirInv, Opened, Kind
  <2>3. pinFaults' \in 0..MaxPinFaults /\ level' \in [Gpios -> {0, 1}]
    BY <1>0, <2>1, <2>2, WriteValueStep
  <2>. QED
    BY <1>0, <1>1, <2>1, <2>3
    DEF PinInv, PinTypeOK, PhaseInv, DirInv, OffInv, ClearInv, Opened, Unopened
<1>2. CASE build # "bbb"
  <2>1. /\ UNCHANGED <<pinFaults, level>>
        /\ \/ pin_states' = pin_states
           \/ pin_states' = [pin_states EXCEPT ![q] = s]
    BY <1>2 DEF pin_io_set, WriteWorks
  <2>2. pin_states' \in [Pins -> {0, 1}]
    BY <1>0, <2>1 DEF PinTypeOK
  <2>. QED
    BY <1>0, <1>2, <2>1, <2>2
    DEF PinInv, PinTypeOK, PhaseInv, DirInv, OffInv, ClearInv, Opened, Unopened
<1>. QED
  BY <1>1, <1>2

(* The cleanup clears each output, or remembers that it failed to.         *)
LEMMA ClearStep ==
  ASSUME PinInv, ClearPin
  PROVE  PinInv'
<1>0. /\ PinTypeOK /\ PhaseInv /\ DirInv /\ OffInv /\ ClearInv
      /\ pinPc = "clear" /\ IsInjective(map_array) /\ build = "bbb"
      /\ pin_id \in Outs /\ pin_id \in Pins /\ WriteValue(pin_id, 0)
      /\ uncleared \subseteq Outs
      /\ UNCHANGED <<build, pinPc, map_array, in_use, gpio_in_use,
                     direction, pin_states, request>>
  BY Ids DEF PinInv, PinTypeOK, PhaseInv, ClearPin, drivers
<1>1. direction[map_array[pin_id]] = "out"
  BY <1>0 DEF DirInv, Opened, Kind
<1>2. /\ pinFaults' \in 0..MaxPinFaults /\ level' \in [Gpios -> {0, 1}]
      /\ \/ \A p \in Pins : level'[map_array[p]]
                              = IF p = pin_id THEN 0 ELSE level[map_array[p]]
         \/ level' = level
  BY <1>0, <1>1, WriteValueStep
<1>3. /\ pin_id' = pin_id + 1
      /\ uncleared' = IF pinFaults' # pinFaults
                      THEN uncleared \union {pin_id} ELSE uncleared
  BY <1>1 DEF ClearPin, AfterClear
<1>4. /\ pin_id' \in 0..(PIN_OUT_NUM + PIN_IN_NUM) /\ pin_id' <= PIN_OUT_NUM
      /\ uncleared' \subseteq Outs
      /\ \A p \in Outs : p < pin_id' => p < pin_id \/ p = pin_id
  BY <1>0, <1>3, Ids DEF Outs
<1>5. \A p \in Outs : p < pin_id' /\ level'[map_array[p]] = 1 => p \in uncleared'
  <2>1. \A p \in Outs : p < pin_id /\ level[map_array[p]] = 1 => p \in uncleared
    BY <1>0 DEF ClearInv
  <2>2. \A p \in Outs : p # pin_id /\ level'[map_array[p]] = 1
                          => level[map_array[p]] = 1
    BY <1>2, Ids
  <2>3. level'[map_array[pin_id]] = 1 => pin_id \in uncleared'
    <3>1. CASE pinFaults' # pinFaults
      BY <1>3, <3>1
    <3>2. CASE pinFaults' = pinFaults
      <4>1. level' = [level EXCEPT ![map_array[pin_id]] = 0]
        BY <1>0, <1>1, <3>2 DEF WriteValue, WriteFails, WriteWorks, PinTypeOK
      <4>. QED
        BY <1>0, <4>1 DEF PinTypeOK
    <3>. QED
      BY <3>1, <3>2
  <2>4. uncleared \subseteq uncleared'
    BY <1>3
  <2>. QED
    BY <1>4, <2>1, <2>2, <2>3, <2>4
<1>. QED
  BY <1>0, <1>2, <1>4, <1>5
  DEF PinInv, PinTypeOK, PhaseInv, DirInv, OffInv, ClearInv, Opened, Unopened

(* Every step of the drivers keeps their invariant.                        *)
LEMMA PinStep ==
  ASSUME PinInv, PinNext \/ UNCHANGED pinVars
  PROVE  PinInv'
<1>1. CASE UNCHANGED pinVars
  BY <1>1 DEF PinInv, PinTypeOK, PhaseInv, DirInv, OffInv, ClearInv,
              pinVars, drivers, hardware
<1>2. CASE GpioNumbersEnd
  BY <1>2 DEF GpioNumbersEnd, PinInv, PinTypeOK, PhaseInv, DirInv, OffInv,
              ClearInv, drivers, hardware, Opened, Unopened
<1>3. CASE pin_io_cleanup
  <2>1. 0 \in 0..(PIN_OUT_NUM + PIN_IN_NUM) /\ 0 <= PIN_OUT_NUM
        /\ \A p \in Outs : ~(p < 0)
    BY Ids DEF Outs
  <2>2. CASE build = "bbb"
    BY <1>3, <2>1, <2>2
    DEF pin_io_cleanup, PinInv, PinTypeOK, PhaseInv, DirInv, OffInv,
        ClearInv, drivers, hardware, Opened, Unopened
  <2>3. CASE build # "bbb"
    BY <1>3, <2>3
    DEF pin_io_cleanup, PinInv, PinTypeOK, PhaseInv, DirInv, OffInv,
        ClearInv, drivers, hardware, Opened, Unopened
  <2>. QED
    BY <2>2, <2>3
<1>4. CASE CloseDrivers
  <2>1. \A p \in Outs : p < PIN_OUT_NUM
    BY Ids DEF Outs
  <2>2. \A p \in Outs : level[map_array[p]] = 1 => p \in uncleared
    BY <1>4, <2>1 DEF CloseDrivers, PinInv, ClearInv
  <2>. QED
    BY <1>4, <2>2
    DEF CloseDrivers, PinInv, PinTypeOK, PhaseInv, DirInv, OffInv,
        ClearInv, drivers, hardware, Opened, Unopened
<1>. QED
  BY <1>1, <1>2, <1>3, <1>4, NumbersStep, SetDirStep, SetStep, ClearStep
  DEF PinNext

----
(* What any step of the program does to the pins is a step of the drivers. *)
LEMMA PinSteps ==
  ASSUME TypeOK, [Next]_vars
  PROVE  PinNext \/ UNCHANGED pinVars
<1>0. PIN_IN_BEAM \in Pins /\ Outs \subseteq Pins
  BY Ids DEF PIN_IN_BEAM
<1>1. CASE AnswerGpio
  BY <1>1 DEF AnswerGpio, PinNext
<1>2. CASE SetDirection
  BY <1>2 DEF SetDirection, PinNext
<1>3. CASE PromptFails
  BY <1>3 DEF PromptFails, PinNext
<1>4. CASE ConsoleLine
  <2>1. \A c : handle_command(c) => PinNext \/ UNCHANGED pinVars
    <3>1. ASSUME NEW c, handle_command(c)
          PROVE  PinNext \/ UNCHANGED pinVars
      <4>1. CASE toggle_state' = 1 - toggle_state
                 /\ pin_io_set(PIN_IN_BEAM, toggle_state')
        <5>1. toggle_state' \in {0, 1}
          BY <4>1 DEF TypeOK
        <5>. QED
          BY <1>0, <4>1, <5>1 DEF PinNext
      <4>. QED
        BY <3>1, <4>1 DEF handle_command
    <3>. QED
      BY <3>1
  <2>. QED
    BY <1>4, <2>1 DEF ConsoleLine
<1>5. CASE OtherThreadSets
  BY <1>0, <1>5 DEF OtherThreadSets, PinNext
<1>6. CASE Cleanup
  BY <1>6 DEF Cleanup, PinNext
<1>7. CASE UserTypes \/ UserEnds \/ AnswerDuration \/ ConsoleLoop
           \/ ConsoleNull \/ SetStop \/ UNCHANGED vars
  BY <1>7 DEF UserTypes, UserEnds, AnswerDuration, ConsoleLoop, ConsoleNull,
              SetStop, vars
<1>. QED
  BY <1>1, <1>2, <1>3, <1>4, <1>5, <1>6, <1>7
  DEF Next, User, Setup, Console, PromptEnded, PromptInterrupted

----
(* A set of numbers with a member has a least one.                         *)
LEMMA LeastExists ==
  ASSUME NEW T, T \subseteq Nat, T # {}
  PROVE  \E x \in T : \A y \in T : x <= y
<1>. DEFINE R == OpToRel(<, Nat)
<1>1. IsWellFoundedOn(R, Nat)
  BY NatLessThanWellFounded
<1>2. \A x, y \in Nat : <<x, y>> \in R <=> x < y
  BY DEF OpToRel
<1>. HIDE DEF R
<1>3. PICK x \in T : \A y \in T : ~(<<y, x>> \in R)
  BY <1>1, WFMin
<1>4. ASSUME NEW y \in T  PROVE x <= y
  <2>1. x \in Nat /\ y \in Nat
    OBVIOUS
  <2>2. ~(y < x)
    BY <1>2, <1>3, <2>1
  <2>. QED
    BY <2>1, <2>2
<1>. QED
  BY <1>4

(* fgets takes some of what is typed; it stops at the end of the line, and *)
(* before it only when the buffer is full or nothing is left.              *)
LEMMA ChunkIsLine ==
  ASSUME NEW size \in Nat \ {0, 1}, InputInv, pending # <<>>
  PROVE  LET n == Len(Chunk(size))
         IN /\ n \in 1..Len(pending) /\ n <= size - 1
            /\ Chunk(size) \in Seq(Symbols \union {NL})
            /\ \A j \in 1..n : Chunk(size)[j] = pending[j]
            /\ \A j \in 1..(n - 1) : pending[j] # NL
            /\ n < size - 1 => n = Len(pending) \/ pending[n] = NL
<1>. DEFINE Ends == {i \in 1..Len(pending) : pending[i] = NL}
            T == {size - 1, Len(pending)} \union Ends
            n == Min(T)
<1>1. pending \in Seq(Symbols \union {NL}) /\ Len(pending) \in Nat \ {0}
  BY DEF InputInv
<1>2. T \subseteq Nat \ {0} /\ T # {}
  BY <1>1
<1>3. n \in T /\ \A y \in T : n <= y
  <2>1. \E x \in T : \A y \in T : x <= y
    <3>1. T \subseteq Nat
      BY <1>2
    <3>. HIDE DEF T
    <3>. QED
      BY <1>2, <3>1, LeastExists
  <2>. HIDE DEF T
  <2>2. n = CHOOSE x \in T : \A y \in T : x =< y
    BY DEF Min
  <2>. QED
    BY <2>1, <2>2
<1>4. Chunk(size) = SubSeq(pending, 1, n)
  BY DEF Chunk
<1>5. n \in Nat \ {0} /\ n <= size - 1 /\ n <= Len(pending)
  BY <1>2, <1>3
<1>6. \A j \in 1..(n - 1) : pending[j] # NL
  <2>1. ASSUME NEW j \in 1..(n - 1), pending[j] = NL  PROVE FALSE
    <3>1. j \in Ends
      BY <1>1, <1>5, <2>1
    <3>2. n <= j
      BY <1>3, <3>1
    <3>. QED
      BY <1>5, <3>2
  <2>. QED
    BY <2>1
<1>7. n < size - 1 => n = Len(pending) \/ pending[n] = NL
  BY <1>3, <1>5
<1>. HIDE DEF n
<1>8. /\ Len(Chunk(size)) = n
      /\ Chunk(size) \in Seq(Symbols \union {NL})
      /\ \A j \in 1..n : Chunk(size)[j] = pending[j]
  BY <1>1, <1>4, <1>5
<1>. QED
  BY <1>1, <1>5, <1>6, <1>7, <1>8

(* A line, or the rest of one, typed or read: what is pending stays so.    *)
LEMMA TakenStep ==
  ASSUME NEW size \in Nat \ {0, 1}, InputInv, pending # <<>>,
         Taken(Chunk(size))
  PROVE  InputInv'
<1>. DEFINE n == Len(Chunk(size))
<1>1. pending \in Seq(Symbols \union {NL}) /\ Len(pending) \in Nat
      /\ n \in 1..Len(pending)
  BY ChunkIsLine DEF InputInv
<1>2. pending' = SubSeq(pending, n + 1, Len(pending)) /\ eof' = eof
  BY DEF Taken
<1>. HIDE DEF n
<1>3. pending' \in Seq(Symbols \union {NL})
  BY <1>1, <1>2
<1>4. CASE n = Len(pending)
  BY <1>1, <1>2, <1>3, <1>4 DEF InputInv
<1>5. CASE n < Len(pending)
  <2>1. Len(pending') = Len(pending) - n
    BY <1>1, <1>2, <1>5
  <2>2. \A i \in 1..(Len(pending) - n) : pending'[i] = pending[n + i]
    BY <1>1, <1>2, <1>5, <2>1
  <2>3. /\ Len(pending) - n \in 1..(Len(pending) - n)
        /\ n + (Len(pending) - n) = Len(pending)
    BY <1>1, <1>5
  <2>4. pending'[Len(pending')] = pending[Len(pending)]
    BY <2>1, <2>2, <2>3
  <2>. QED
    BY <1>1, <1>2, <1>3, <1>5, <2>4 DEF InputInv
<1>. QED
  BY <1>1, <1>4, <1>5

(* Every step keeps the shape of the input.                                *)
LEMMA InputStep ==
  ASSUME IInv, [Next]_vars
  PROVE  InputInv'
<1>0. InputInv /\ Lines \subseteq Seq(Symbols)
  BY TerminalAssumption DEF IInv
<1>1. CASE UserTypes
  <2>1. PICK line \in Lines : pending' = Append(line, NL)
    BY <1>1 DEF UserTypes
  <2>2. line \in Seq(Symbols)
    BY <1>0, <2>1
  <2>3. line \in Seq(Symbols \union {NL})
    BY <2>2
  <2>4. pending' \in Seq(Symbols \union {NL})
    BY <2>1, <2>3
  <2>5. pending'[Len(pending')] = NL
    BY <2>1, <2>3
  <2>. QED
    BY <2>4, <2>5 DEF InputInv
<1>2. CASE UserEnds
  <2>1. eof' = TRUE /\ pending' \in Lines \union {<<>>}
    BY <1>2 DEF UserEnds
  <2>2. <<>> \in Seq(Symbols)
    OBVIOUS
  <2>3. pending' \in Seq(Symbols)
    BY <1>0, <2>1, <2>2
  <2>4. pending' \in Seq(Symbols \union {NL})
    BY <2>3
  <2>. QED
    BY <2>1, <2>4 DEF InputInv
<1>3. CASE AnswerGpio \/ AnswerDuration \/ ConsoleLine
  <2>1. /\ GPIO_BUFFER \in Nat \ {0, 1} /\ DURATION_BUFFER \in Nat \ {0, 1}
        /\ CONSOLE_BUFFER \in Nat \ {0, 1}
    BY TerminalAssumption
  <2>2. /\ pending # <<>>
        /\ \E size \in {GPIO_BUFFER, DURATION_BUFFER, CONSOLE_BUFFER} :
             Taken(Chunk(size))
    BY <1>3 DEF AnswerGpio, AnswerDuration, ConsoleLine
  <2>. QED
    BY <1>0, <2>1, <2>2, TakenStep
<1>4. CASE UNCHANGED <<pending, eof>>
  BY <1>0, <1>4 DEF InputInv
<1>. QED
  BY <1>1, <1>2, <1>3, <1>4
  DEF Next, User, Setup, Console, PromptEnded, PromptInterrupted, PromptFails,
      SetDirection, ConsoleLoop, ConsoleNull, SetStop, OtherThreadSets,
      Cleanup, terminalVars, vars

(* What the console has read, if it answers it, is a line of its own only  *)
(* when the buffer shows one: the characters of an earlier line, beyond    *)
(* the end of this one, are never looked at.                               *)
LEMMA ReadStep ==
  ASSUME InputInv, ConsoleLine, TypeOK
  PROVE  /\ buffer' \in [0..(CONSOLE_BUFFER - 1) -> Symbols \union {NL, NUL}]
         /\ ~TooLong(buffer') => Single(buffer') \/ eof'
         /\ TooLong(buffer') => ~(buffer'[1] = NL /\ buffer'[0] # NL)
<1>. DEFINE chunk == Chunk(CONSOLE_BUFFER)
            n == Len(chunk)
            Text == Symbols \union {NL, NUL}
<1>0. /\ pending # <<>> /\ Taken(chunk) /\ buffer' = [i \in DOMAIN buffer |->
                        IF i < n THEN chunk[i + 1]
                        ELSE IF i = n THEN NUL ELSE buffer[i]]
      /\ buffer \in [0..(CONSOLE_BUFFER - 1) -> Text]
      /\ CONSOLE_BUFFER \in Nat /\ CONSOLE_BUFFER > 3
      /\ NL # NUL /\ NL \notin Symbols /\ NUL \notin Symbols
  BY TerminalAssumption DEF ConsoleLine, TypeOK
<1>1. /\ n \in 1..Len(pending) /\ n <= CONSOLE_BUFFER - 1
      /\ chunk \in Seq(Symbols \union {NL})
      /\ \A j \in 1..n : chunk[j] = pending[j]
      /\ \A j \in 1..(n - 1) : pending[j] # NL
      /\ n < CONSOLE_BUFFER - 1 => n = Len(pending) \/ pending[n] = NL
  <2>1. CONSOLE_BUFFER \in Nat \ {0, 1}
    BY <1>0
  <2>. QED
    BY <1>0, <2>1, ChunkIsLine
<1>2. /\ Len(pending) \in Nat /\ pending \in Seq(Symbols \union {NL})
      /\ eof \/ pending[Len(pending)] = NL
  BY <1>0 DEF InputInv
<1>3. eof' = eof
  BY <1>0 DEF Taken
<1>. HIDE DEF n, chunk
<1>4. \A i \in 0..(CONSOLE_BUFFER - 1) :
        buffer'[i] = IF i < n THEN chunk[i + 1]
                     ELSE IF i = n THEN NUL ELSE buffer[i]
  BY <1>0
<1>5. \A j \in 1..n : chunk[j] \in Symbols \union {NL}
  BY <1>1, <1>2
<1>6. buffer' \in [0..(CONSOLE_BUFFER - 1) -> Text]
  <2>1. \A i \in 0..(CONSOLE_BUFFER - 1) : buffer'[i] \in Text
    <3>1. ASSUME NEW i \in 0..(CONSOLE_BUFFER - 1)  PROVE buffer'[i] \in Text
      <4>1. CASE i < n
        <5>1. i + 1 \in 1..n
          BY <1>0, <1>1, <1>2, <4>1
        <5>. QED
          BY <1>4, <1>5, <4>1, <5>1
      <4>2. CASE ~(i < n)
        BY <1>0, <1>4, <4>2
      <4>. QED
        BY <4>1, <4>2
    <3>. QED
      BY <3>1
  <2>2. DOMAIN buffer' = 0..(CONSOLE_BUFFER - 1)
    BY <1>0
  <2>. QED
    BY <1>0, <2>1, <2>2
<1>7. CASE n = 1
  <2>1. buffer'[0] = chunk[1] /\ buffer'[1] = NUL
    BY <1>0, <1>4, <1>7
  <2>2. eof \/ chunk[1] = NL
    BY <1>0, <1>1, <1>2, <1>7
  <2>. QED
    BY <1>0, <1>3, <1>6, <2>1, <2>2 DEF Single
<1>8. CASE n = 2
  <2>1. buffer'[0] = chunk[1] /\ buffer'[1] = chunk[2] /\ buffer'[2] = NUL
    BY <1>0, <1>4, <1>8
  <2>2. eof \/ chunk[2] = NL
    BY <1>0, <1>1, <1>2, <1>8
  <2>3. chunk[1] # NL
    BY <1>1, <1>2, <1>8
  <2>. QED
    BY <1>3, <1>6, <2>1, <2>2, <2>3 DEF Single, TooLong
<1>9. CASE n > 2
  <2>1. buffer'[1] = chunk[2] /\ buffer'[2] = chunk[3]
    BY <1>0, <1>1, <1>2, <1>4, <1>9
  <2>2. chunk[3] # NUL /\ chunk[2] # NL
    BY <1>0, <1>1, <1>2, <1>5, <1>9
  <2>. QED
    BY <1>6, <2>1, <2>2 DEF TooLong
<1>. QED
  BY <1>1, <1>2, <1>7, <1>8, <1>9

(* The program's own variables keep their types.                           *)
LEMMA TypeStep ==
  ASSUME IInv, [Next]_vars, PinInv', InputInv'
  PROVE  TypeOK'
<1>0. TypeOK /\ InputInv
  BY DEF IInv
<1>1. PinTypeOK'
  BY DEF PinInv
<1>2. Range(pending)' \subseteq Symbols \union {NL}
  BY DEF InputInv, Range
<1>3. stop' \in {0, 1} /\ toggle_state' \in {0, 1}
  <2>1. \A c : handle_command(c) => /\ stop' \in {0, 1}
                                    /\ toggle_state' \in {0, 1}
    BY <1>0 DEF handle_command, TypeOK
  <2>. QED
    BY <1>0, <2>1
    DEF TypeOK, Next, User, Setup, Console, PromptEnded, PromptInterrupted,
        PromptFails, UserTypes, UserEnds, AnswerGpio, SetDirection,
        AnswerDuration, ConsoleLoop, ConsoleLine, ConsoleNull, SetStop,
        OtherThreadSets, Cleanup, terminalVars, vars
<1>4. buffer' \in [0..(CONSOLE_BUFFER - 1) -> Symbols \union {NL, NUL}]
  <2>1. CASE ConsoleLine
    BY <1>0, <2>1, ReadStep
  <2>2. CASE ConsoleNull
    BY <1>0, <2>2 DEF ConsoleNull, TypeOK
  <2>3. CASE UNCHANGED buffer
    BY <1>0, <2>3 DEF TypeOK
  <2>. QED
    BY <2>1, <2>2, <2>3
    DEF Next, User, Setup, Console, PromptEnded, PromptInterrupted,
        PromptFails, UserTypes, UserEnds, AnswerGpio, SetDirection,
        AnswerDuration, ConsoleLoop, SetStop, OtherThreadSets, Cleanup,
        terminalVars, vars
<1>5. /\ eof' \in BOOLEAN
      /\ reader' \in {"main", "console", "fgets", "over", "failed"}
      /\ answered' \in {"nothing", "refused", "command"}
  BY <1>0
  DEF TypeOK, Next, User, Setup, Console, PromptEnded, PromptInterrupted,
      PromptFails, UserTypes, UserEnds, AnswerGpio, SetDirection, Taken,
      AnswerDuration, ConsoleLoop, ConsoleLine, ConsoleNull, SetStop,
      OtherThreadSets, Cleanup, terminalVars, vars
<1>. QED
  BY <1>1, <1>2, <1>3, <1>4, <1>5 DEF TypeOK

(* What became of the latest line.                                         *)
LEMMA AnswerStep ==
  ASSUME IInv, [Next]_vars
  PROVE  CommandsAreLines' /\ EachCommandRuns'
<1>0. TypeOK /\ InputInv /\ CommandsAreLines /\ EachCommandRuns
  BY DEF IInv
<1>1. CASE ConsoleLine
  <2>1. answered' = IF stop = 1 THEN "nothing"
                    ELSE IF TooLong(buffer') THEN "refused" ELSE "command"
    BY <1>1 DEF ConsoleLine
  <2>. QED
    BY <1>0, <1>1, <2>1, ReadStep DEF CommandsAreLines, EachCommandRuns
<1>2. CASE answered' = "nothing"
  BY <1>2 DEF CommandsAreLines, EachCommandRuns
<1>3. CASE UNCHANGED <<answered, buffer>> /\ (eof => eof')
  BY <1>0, <1>3 DEF CommandsAreLines, EachCommandRuns, Single
<1>. QED
  BY <1>1, <1>2, <1>3
  DEF Next, User, Setup, Console, PromptEnded, PromptInterrupted, PromptFails,
      UserTypes, UserEnds, AnswerGpio, SetDirection, AnswerDuration, Taken,
      ConsoleLoop, ConsoleNull, SetStop, OtherThreadSets, Cleanup,
      terminalVars, vars

(* The first state.                                                        *)
LEMMA InitIInv ==
  Init => IInv
<1>. SUFFICES ASSUME Init PROVE IInv
  OBVIOUS
<1>1. PinTypeOK
  <2>1. 0 \in Pins /\ 0 \in Gpios /\ 0 \in 0..(PIN_OUT_NUM + PIN_IN_NUM)
        /\ 0 \in 0..MaxPinFaults
    BY PinAssumption, Ids DEF Gpios
  <2>. QED
    BY <2>1 DEF Init, PinInit, PinTypeOK
<1>2. PinInv
  BY <1>1 DEF Init, PinInit, PinInv, PhaseInv, DirInv, OffInv, ClearInv,
              Opened, Unopened
<1>3. InputInv
  BY DEF Init, InputInv
<1>4. TypeOK
  <2>1. Range(pending) \subseteq Symbols \union {NL}
    BY <1>3 DEF InputInv, Range
  <2>2. buffer \in [0..(CONSOLE_BUFFER - 1) -> Symbols \union {NL, NUL}]
    BY DEF Init
  <2>. QED
    BY <1>1, <2>1, <2>2 DEF Init, TypeOK
<1>. QED
  BY <1>2, <1>3, <1>4 DEF Init, IInv, CommandsAreLines, EachCommandRuns

----
(* The invariant holds of the program at its terminal, for every number of *)
(* pins, every line the user may type, every size of the three buffers and *)
(* any number of failing writes.                                           *)
THEOREM Invariance == Spec => []IInv
<1>1. IInv /\ [Next]_vars => IInv'
  <2>. SUFFICES ASSUME IInv, [Next]_vars PROVE IInv'
    OBVIOUS
  <2>1. PinInv'
    BY PinSteps, PinStep DEF IInv
  <2>2. InputInv'
    BY InputStep
  <2>. QED
    BY <2>1, <2>2, TypeStep, AnswerStep DEF IInv
<1>. QED
  BY <1>1, InitIInv, PTL DEF Spec

(* The pins, the drivers, the console's buffer and the flags are what the  *)
(* code takes them for, and only writes beyond the bound fail.             *)
THEOREM TypeCorrect == Spec => []TypeOK
<1>1. IInv => TypeOK
  BY DEF IInv
<1>. QED
  BY <1>1, Invariance, PTL

(* A driver in use has every pin's direction right: none was undone by a   *)
(* later pin on the same gpio, for no two pins share one (pin_io_bbb.c).   *)
THEOREM DirectionsCorrect == Spec => []DirectionsStand
<1>1. IInv => DirectionsStand
  BY DEF IInv, PinInv, PhaseInv, DirInv, DirectionsStand, Kind
<1>. QED
  BY <1>1, Invariance, PTL

(* After the cleanup an output is on only if its own clear failed, and no  *)
(* driver stays in use (pin_io_bbb.c, pin_io_emu.c).                       *)
THEOREM ClearCorrect == Spec => []ClearedAtExit
<1>1. IInv => ClearedAtExit
  BY DEF IInv, PinInv, PinTypeOK, PhaseInv, ClearInv, ClearedAtExit, Opened
<1>. QED
  BY <1>1, Invariance, PTL

(* A command is one character, or none, and the end of a line, or text     *)
(* that the end of the input cuts off, whatever an earlier line left in    *)
(* the static buffer (console_thread.c).                                   *)
THEOREM CommandsCorrect == Spec => []CommandsAreLines
<1>1. IInv => CommandsAreLines
  BY DEF IInv
<1>. QED
  BY <1>1, Invariance, PTL

(* A command on a line of its own is never refused, whatever the buffer    *)
(* still holds of the lines before (console_thread.c).                     *)
THEOREM CommandRuns == Spec => []EachCommandRuns
<1>1. IInv => EachCommandRuns
  BY DEF IInv
<1>. QED
  BY <1>1, Invariance, PTL

----
(* Towards LogicalPins: the pins the drivers switch are Logical's, each on *)
(* its own, whatever gpios the user gave them.                             *)
L == <<in_use = 1, Switches, request>>

(* A write of an output moves this output's switch, or none.               *)
LEMMA WriteSwitches ==
  ASSUME PinInv, NEW q \in Outs, NEW s \in {0, 1}, WriteValue(q, s),
         build = "bbb", pinPc \in Opened, pinPc' \in Opened, build' = build,
         map_array' = map_array
  PROVE  Switches' = [Switches EXCEPT ![q] = s] \/ Switches' = Switches
<1>1. PinTypeOK /\ IsInjective(map_array) /\ direction[map_array[q]] = "out"
      /\ q \in Pins /\ Outs \subseteq Pins
  BY Ids DEF PinInv, PhaseInv, DirInv, Opened, Kind
<1>2. \/ \A p \in Pins : level'[map_array[p]]
                           = IF p = q THEN s ELSE level[map_array[p]]
      \/ level' = level
  BY <1>1, WriteValueStep
<1>3. /\ Switches = [p \in Outs |-> level[map_array[p]]]
      /\ Switches' = [p \in Outs |-> level'[map_array[p]]]
  BY DEF Switches, Opened
<1>4. CASE \A p \in Pins : level'[map_array[p]]
                             = IF p = q THEN s ELSE level[map_array[p]]
  <2>1. \A p \in Outs : level'[map_array[p]]
                          = IF p = q THEN s ELSE level[map_array[p]]
    BY <1>1, <1>4
  <2>. QED
    BY <1>3, <2>1
<1>5. CASE level' = level
  BY <1>3, <1>5
<1>. QED
  BY <1>2, <1>4, <1>5

(* A request for a pin, on the board or in the emulator, is a request for  *)
(* the logical pin.                                                        *)
LEMMA SetImplements ==
  ASSUME PinInv, NEW q \in Pins, NEW s \in {0, 1}, pin_io_set(q, s)
  PROVE  Logical!Set(q, s)
<1>0. /\ pinPc = "ready" /\ pinPc' = pinPc /\ in_use = 1 /\ in_use' = 1
      /\ request' = <<q, s>> /\ build' = build /\ map_array' = map_array
  BY DEF pin_io_set, PinInv, PhaseInv, Opened, drivers
<1>1. CASE build = "bbb"
  <2>1. q \in Outs /\ WriteValue(q, s)
    BY <1>1 DEF pin_io_set
  <2>2. Switches' = [Switches EXCEPT ![q] = s] \/ Switches' = Switches
    BY <1>0, <1>1, <2>1, WriteSwitches DEF Opened
  <2>. QED
    BY <1>0, <2>1, <2>2 DEF Logical!Set
<1>2. CASE build # "bbb"
  <2>1. /\ Switches = [p \in Outs |-> pin_states[p]]
        /\ Switches' = [p \in Outs |-> pin_states'[p]]
    BY <1>0, <1>2 DEF Switches
  <2>2. pin_states' = pin_states \/ pin_states' = [pin_states EXCEPT ![q] = s]
    BY <1>2 DEF pin_io_set
  <2>3. pin_states \in [Pins -> {0, 1}] /\ Outs \subseteq Pins
    BY Ids DEF PinInv, PinTypeOK
  <2>4. CASE pin_states' = pin_states
    <3>1. Switches' = Switches
      BY <2>1, <2>4
    <3>. QED
      BY <1>0, <3>1 DEF Logical!Set
  <2>5. CASE pin_states' = [pin_states EXCEPT ![q] = s] /\ q \in Outs
    <3>1. Switches' = [Switches EXCEPT ![q] = s]
      BY <2>1, <2>3, <2>5
    <3>. QED
      BY <1>0, <2>5, <3>1 DEF Logical!Set
  <2>6. CASE pin_states' = [pin_states EXCEPT ![q] = s] /\ q \notin Outs
    <3>1. \A p \in Outs : pin_states'[p] = pin_states[p]
      BY <2>3, <2>6
    <3>2. Switches' = Switches
      BY <2>1, <3>1
    <3>. QED
      BY <1>0, <3>2 DEF Logical!Set
  <2>. QED
    BY <2>2, <2>4, <2>5, <2>6
<1>. QED
  BY <1>1, <1>2

(* Opening the driver: every output is off by then.                        *)
LEMMA OpenImplements ==
  ASSUME PinInv, PinInv', SetDir \/ \E input \in [Pins -> Typed] : GpioNumbers(input)
  PROVE  Logical!Open \/ UNCHANGED L
<1>1. /\ pinPc \in {"query", "dirs"} /\ in_use = 0 /\ request' = request
      /\ pinPc' \in {"query", "dirs", "failed", "ready"}
      /\ Switches = [p \in Outs |-> 0]
  BY DEF SetDir, GpioNumbers, gpio_bbb_init, InitEmulator, PinInv, PhaseInv,
         Opened, Switches
<1>2. CASE pinPc' # "ready"
  <2>1. Switches' = [p \in Outs |-> 0] /\ in_use' = 0
    BY <1>1, <1>2 DEF PinInv, PhaseInv, Opened, Switches
  <2>. QED
    BY <1>1, <2>1 DEF L
<1>3. CASE pinPc' = "ready"
  <2>1. in_use' = 1
    BY <1>3 DEF PinInv, PhaseInv, Opened
  <2>2. Switches' = [p \in Outs |-> 0]
    <3>1. CASE SetDir
      <4>1. /\ pinPc = "dirs" /\ build = "bbb" /\ build' = build
            /\ pin_id \in Pins /\ map_array \in [Pins -> Gpios]
            /\ IsInjective(map_array) /\ level \in [Gpios -> {0, 1}]
            /\ map_array' = map_array
            /\ \A p \in Outs : p < pin_id => level[map_array[p]] = 0
            /\ pin_id' = pin_id + 1 /\ pin_id' \notin Pins
            /\ level' = IF pin_id \in Outs
                        THEN [level EXCEPT ![map_array[pin_id]] = 0] ELSE level
        BY <1>3, <3>1 DEF SetDir, PinInv, PinTypeOK, PhaseInv, OffInv
      <4>2. pin_id \notin Outs /\ \A p \in Outs : p < pin_id
        BY <4>1, Ids
      <4>3. \A p \in Outs : level'[map_array'[p]] = 0
        BY <4>1, <4>2
      <4>. QED
        BY <1>3, <4>1, <4>3 DEF Switches
    <3>2. CASE \E input \in [Pins -> Typed] : GpioNumbers(input)
      <4>1. build # "bbb" /\ build' = build
            /\ pin_states' = [p \in Pins |-> 0] /\ Outs \subseteq Pins
        BY <1>1, <1>3, <3>2, Ids
        DEF GpioNumbers, gpio_bbb_init, hardware, PinInv, OffInv, Unopened
      <4>. QED
        BY <1>3, <4>1 DEF Switches
    <3>. QED
      BY <3>1, <3>2
  <2>. QED
    BY <1>1, <2>1, <2>2 DEF Logical!Open
<1>. QED
  BY <1>2, <1>3

(* Every step of the drivers is one of Logical's, or changes nothing there.*)
LEMMA PinImplements ==
  ASSUME PinInv, PinInv', PinNext \/ UNCHANGED pinVars
  PROVE  [Logical!Next]_L
<1>1. CASE UNCHANGED pinVars
  BY <1>1 DEF L, Switches, pinVars, drivers, hardware
<1>2. CASE SetDir \/ \E input \in [Pins -> Typed] : GpioNumbers(input)
  BY <1>2, OpenImplements DEF Logical!Next
<1>3. CASE GpioNumbersEnd
  BY <1>3 DEF GpioNumbersEnd, drivers, hardware, L, Switches
<1>4. ASSUME NEW q \in Pins, NEW s \in {0, 1}, pin_io_set(q, s)
      PROVE  [Logical!Next]_L
  BY <1>4, SetImplements DEF Logical!Next
<1>5. CASE pin_io_cleanup
  <2>1. pinPc = "ready" /\ request' = request /\ in_use = 1
        /\ UNCHANGED <<build, map_array, level, pin_states>>
    BY <1>5 DEF pin_io_cleanup, hardware, PinInv, PhaseInv, Opened
  <2>2. pinPc' \in {"clear", "closed"}
    BY <1>5 DEF pin_io_cleanup
  <2>3. Switches' = Switches
    BY <2>1, <2>2 DEF Switches
  <2>4. CASE in_use' = in_use
    BY <2>1, <2>3, <2>4 DEF L
  <2>5. CASE in_use' = 0
    BY <2>1, <2>3, <2>5 DEF Logical!Close, Logical!Next
  <2>. QED
    BY <1>5, <2>4, <2>5 DEF pin_io_cleanup
<1>6. CASE ClearPin
  <2>1. /\ pin_id \in Outs /\ WriteValue(pin_id, 0) /\ pinPc = "clear"
        /\ pinPc' = pinPc /\ build = "bbb" /\ build' = build
        /\ map_array' = map_array /\ in_use = 1 /\ in_use' = 1
        /\ request' = request
    BY <1>6 DEF ClearPin, drivers, PinInv, PhaseInv, Opened
  <2>2. Switches' = [Switches EXCEPT ![pin_id] = 0] \/ Switches' = Switches
    BY <2>1, WriteSwitches DEF Opened
  <2>3. CASE Switches' = [Switches EXCEPT ![pin_id] = 0]
    BY <2>1, <2>3 DEF Logical!Clear, Logical!Next
  <2>4. CASE Switches' = Switches
    BY <2>1, <2>4 DEF L
  <2>. QED
    BY <2>2, <2>3, <2>4
<1>7. CASE CloseDrivers
  <2>1. /\ in_use = 1 /\ in_use' = 0 /\ request' = request
        /\ Switches' = Switches
    BY <1>7 DEF CloseDrivers, hardware, PinInv, PhaseInv, Opened, Switches
  <2>. QED
    BY <2>1 DEF Logical!Close, Logical!Next
<1>. QED
  BY <1>1, <1>2, <1>3, <1>4, <1>5, <1>6, <1>7 DEF PinNext

(* The two drivers implement LogicalPins: for any valid GPIO numbers, with *)
(* failing writes, a request for one pin never moves another, and outputs  *)
(* start off.                                                              *)
THEOREM Refinement == Spec => ImplementsLogicalPins
<1>1. Init => Logical!Init
  BY DEF Init, PinInit, Logical!Init, Switches
<1>2. IInv /\ IInv' /\ [Next]_vars => [Logical!Next]_L
  BY PinSteps, PinImplements DEF IInv
<1>3. [Logical!Next]_L => [Logical!Next]_<<in_use = 1, Switches, request>>
  BY DEF L
<1>. QED
  BY <1>1, <1>2, <1>3, Invariance, PTL
  DEF Spec, ImplementsLogicalPins, Logical!Spec

====
