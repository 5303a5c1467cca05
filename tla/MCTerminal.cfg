\* Two outputs and one input on three GPIOs; the user may also type a
\* number that is too large.
SPECIFICATION Spec
CONSTANTS
  PIN_OUT_NUM = 2
  PIN_IN_NUM = 1
  GPIO_TYPE_MAX_INCL = 2
  Typed = {0, 1, 2, 3}
  Builds = {"bbb", "emu"}
  MaxPinFaults = 1
  Lines <- MCLines
  GPIO_BUFFER = 3
  DURATION_BUFFER = 3
  CONSOLE_BUFFER = 4
  NL = "NL"
  NUL = "NUL"
INVARIANTS
  TypeOK
  DirectionsStand
  ClearedAtExit
  CommandsAreLines
  EachCommandRuns
PROPERTIES
  ImplementsLogicalPins
  EofEndsSetup
CHECK_DEADLOCK FALSE
