---- MODULE PinIo ----
(***************************************************************************)
(* The pin drivers: pin_io_bbb.c over gpio_bbb_sysfs.c, and pin_io_emu.c.  *)
(* A pin is a logical id of pin_io.h, a gpio the number the user typed for *)
(* it (gpio_common.c).  Callers hold the handle, pass ids of the right     *)
(* kind and states 0 and 1: what the functions refuse besides has no       *)
(* caller.                                                                 *)
(***************************************************************************)
EXTENDS Integers, Functions

CONSTANTS PIN_OUT_NUM, PIN_IN_NUM,
          GPIO_TYPE_MAX_INCL,
          Typed,          \* numbers a user may type
          Builds,         \* subset of {"bbb", "emu"}
          MaxPinFaults    \* bound: failing sysfs writes

Outs == 0..(PIN_OUT_NUM - 1)
Ins == PIN_OUT_NUM..(PIN_OUT_NUM + PIN_IN_NUM - 1)
Pins == Outs \union Ins
PIN_OUT_TRIG == 0
PIN_IN_BEAM == PIN_OUT_NUM

ASSUME PinAssumption ==
  /\ PIN_OUT_NUM \in Nat \ {0} /\ PIN_IN_NUM \in Nat \ {0}
  /\ GPIO_TYPE_MAX_INCL \in Nat /\ Typed \subseteq Nat
  /\ Builds \subseteq {"bbb", "emu"} /\ MaxPinFaults \in Nat

VARIABLES
  build,
  pinPc,       \* pin_io_init: "query", "dirs", or "failed"; then "ready";
               \*   pin_io_cleanup: "clear", "closed"
  pin_id,      \* the pin whose direction is set, or that is cleared, next
  map_array,   \* pin_io_instance.gpio_map
  in_use,      \* pin_io_instance.in_use
  gpio_in_use, \* gpio_instance.in_use
  direction, level,  \* the kernel's GPIOs
  pin_states,  \* pin_io_emu's
  pinFaults,   \* failing writes so far
  request,     \* history: the latest pin_io_set
  uncleared    \* history: outputs whose clear failed in the cleanup

drivers == <<map_array, in_use, gpio_in_use>>
hardware == <<direction, level, pin_states>>
pinVars == <<build, pinPc, pin_id, drivers, hardware, pinFaults, request,
             uncleared>>

Gpios == 0..GPIO_TYPE_MAX_INCL

(* An earlier program may have left the board's GPIOs in any state.        *)
PinInit ==
  /\ build \in Builds
  /\ pinPc = "query" /\ pin_id = 0
  /\ map_array = [p \in Pins |-> 0]
  /\ in_use = 0 /\ gpio_in_use = 0
  /\ direction = [g \in Gpios |-> "in"]
  /\ \E v \in {0, 1} : level = [g \in Gpios |-> v]
  /\ pin_states = [p \in Pins |-> 0]
  /\ pinFaults = 0
  /\ request = <<0, 0>>
  /\ uncleared = {}

(* sysfs_write fails, by itself.                                           *)
WriteFails == pinFaults < MaxPinFaults /\ pinFaults' = pinFaults + 1
WriteWorks == UNCHANGED pinFaults

(* Mutant: any size of number.                                             *)
is_gpio_input_valid_size(input) == IsInjective(input)

(* Mutant: neighbours only are compared.                                   *)
is_gpio_input_valid_neighbours(input) ==
  /\ \A p \in Pins : input[p] <= GPIO_TYPE_MAX_INCL
  /\ \A p \in Pins : p + 1 \in Pins => input[p] # input[p + 1]

(* The numbers fit GPIO_TYPE and no two are the same.                      *)
is_gpio_input_valid(input) ==
  /\ \A p \in Pins : input[p] <= GPIO_TYPE_MAX_INCL
  /\ IsInjective(input)

(* After query_gpio: on the board the driver below and the directions, in  *)
(* the emulator nothing more.                                              *)
gpio_bbb_init == pinPc' = "dirs" /\ gpio_in_use' = 1 /\ UNCHANGED in_use
InitEmulator == pinPc' = "ready" /\ in_use' = 1 /\ UNCHANGED gpio_in_use

(* query_gpio reads a line with as many numbers as there are pins: valid   *)
(* ones become the map, others are asked for again.                        *)
GpioNumbers(input) ==
  /\ pinPc = "query"
  /\ IF is_gpio_input_valid(input)
     THEN /\ map_array' = input
          /\ IF build = "bbb" THEN gpio_bbb_init ELSE InitEmulator
     ELSE UNCHANGED <<pinPc, drivers>>
  /\ UNCHANGED <<build, pin_id, hardware, pinFaults, request, uncleared>>

(* fgets reports the end of input: pin_io_init fails.                      *)
GpioNumbersEnd ==
  /\ pinPc = "query"
  /\ pinPc' = "failed"
  /\ UNCHANGED <<build, pin_id, drivers, hardware, pinFaults, request,
                 uncleared>>

(* gpio_bbb_set_dir: the export's result is ignored.  External: the kernel *)
(* drives a pin low that becomes an output.                                *)
SetDir ==
  /\ pinPc = "dirs"  \* outputs in the order of their ids, then the inputs
  /\ LET gpio == map_array[pin_id]
     IN \/ /\ WriteWorks
           /\ direction' = [direction EXCEPT ![gpio] =
                              IF pin_id \in Outs THEN "out" ELSE "in"]
           /\ level' = IF pin_id \in Outs THEN [level EXCEPT ![gpio] = 0]
                                          ELSE level
           /\ pin_id' = pin_id + 1
           /\ IF pin_id' \in Pins THEN UNCHANGED <<pinPc, in_use>>
                                  ELSE pinPc' = "ready" /\ in_use' = 1
        \/ /\ WriteFails /\ pinPc' = "failed"
           /\ UNCHANGED <<direction, level, pin_id, in_use>>
  /\ UNCHANGED <<build, map_array, gpio_in_use, pin_states, request, uncleared>>

(* Mutant: the id of the pin is taken for its gpio.                        *)
WriteValueOfId(p, s) ==
  \/ WriteWorks /\ level' = [level EXCEPT ![p] = s]
  \/ WriteFails /\ UNCHANGED level

(* sysfs_write to the value file of an output.  External: the kernel takes *)
(* no value for an input.                                                  *)
WriteValue(p, s) ==
  \/ /\ WriteWorks /\ direction[map_array[p]] = "out"
     /\ level' = [level EXCEPT ![map_array[p]] = s]
  \/ WriteFails /\ UNCHANGED level
  \/ direction[map_array[p]] # "out" /\ WriteWorks /\ UNCHANGED level

(* pin_io_set: on the board for outputs, in the emulator for any pin but   *)
(* with no state kept for the trigger.                                     *)
pin_io_set(p, s) ==
  /\ pinPc = "ready"
  /\ request' = <<p, s>>
  /\ IF build = "bbb"
     THEN p \in Outs /\ WriteValue(p, s) /\ UNCHANGED pin_states
     ELSE /\ WriteWorks /\ UNCHANGED level
          /\ pin_states' = IF p = PIN_OUT_TRIG THEN pin_states
                           ELSE [pin_states EXCEPT ![p] = s]
  /\ UNCHANGED <<build, pinPc, pin_id, drivers, direction, uncleared>>

pin_io_cleanup ==
  /\ pinPc = "ready"
  /\ IF build = "bbb" THEN pinPc' = "clear" /\ pin_id' = 0 /\ UNCHANGED in_use
                      ELSE pinPc' = "closed" /\ in_use' = 0 /\ UNCHANGED pin_id
  /\ UNCHANGED <<build, map_array, gpio_in_use, hardware, pinFaults, request,
                 uncleared>>

(* Mutant: the first failure ends the loop.                                *)
AfterClearStops(failed) == IF failed THEN PIN_OUT_NUM ELSE pin_id + 1

(* The loop goes on whatever the clear returned.                           *)
AfterClear(failed) == pin_id + 1

(* The cleanup's loop over the outputs.                                    *)
ClearPin ==
  /\ pinPc = "clear" /\ pin_id \in Outs
  /\ WriteValue(pin_id, 0)
  /\ LET failed == \/ direction[map_array[pin_id]] # "out"
                   \/ pinFaults' # pinFaults
     IN /\ uncleared' = IF failed THEN uncleared \union {pin_id} ELSE uncleared
        /\ pin_id' = AfterClear(failed)
  /\ UNCHANGED <<build, pinPc, drivers, direction, pin_states, request>>

(* gpio_bbb_cleanup, and the driver is no longer in use.                   *)
CloseDrivers ==
  /\ pinPc = "clear" /\ pin_id = PIN_OUT_NUM
  /\ pinPc' = "closed" /\ in_use' = 0 /\ gpio_in_use' = 0
  /\ UNCHANGED <<build, pin_id, map_array, hardware, pinFaults, request,
                 uncleared>>

----
(* Properties *)

PinTypeOK ==
  /\ build \in Builds
  /\ pinPc \in {"query", "dirs", "failed", "ready", "clear", "closed"}
  /\ pin_id \in 0..(PIN_OUT_NUM + PIN_IN_NUM)
  /\ map_array \in [Pins -> Gpios]
  /\ in_use \in {0, 1} /\ gpio_in_use \in {0, 1}
  /\ direction \in [Gpios -> {"in", "out"}] /\ level \in [Gpios -> {0, 1}]
  /\ pin_states \in [Pins -> {0, 1}]
  /\ pinFaults \in 0..MaxPinFaults
  /\ request \in Pins \X {0, 1} /\ uncleared \subseteq Outs

(* A driver in use has every output pin's gpio as an output and every      *)
(* input pin's as an input: no later direction has undone an earlier one.  *)
DirectionsStand ==
  in_use = 1 /\ build = "bbb" =>
    \A p \in Pins :
      direction[map_array[p]] = IF p \in Outs THEN "out" ELSE "in"

(* After pin_io_cleanup an output of the board is on only if its own clear *)
(* failed, however the others went, and no driver stays in use.            *)
ClearedAtExit ==
  pinPc = "closed" =>
    /\ in_use = 0 /\ gpio_in_use = 0
    /\ build = "bbb" =>
         \A p \in Outs : level[map_array[p]] = 1 => p \in uncleared

(* Every logical pin is a switch of its own, whatever valid numbers the    *)
(* user gave: a request for one never moves another, on either driver and  *)
(* with failing writes; outputs start off.                                 *)
Switches ==
  [p \in Outs |->
     IF pinPc \notin {"ready", "clear", "closed"} THEN 0
     ELSE IF build = "bbb" THEN level[map_array[p]] ELSE pin_states[p]]
Logical == INSTANCE LogicalPins WITH open <- in_use = 1, out <- Switches
ImplementsLogicalPins == Logical!Spec
====
