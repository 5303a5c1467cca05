---- MODULE LogicalPins ----
(***************************************************************************)
(* What pin_io.h promises its callers, without GPIO numbers: every output  *)
(* is a switch of its own.  Outputs start off; a request changes the pin   *)
(* it names to the state it asks for, or (when it fails) nothing at all.   *)
(***************************************************************************)
EXTENDS Integers

CONSTANTS Pins, Outs

VARIABLES open,     \* the driver is in use
          out,      \* states of the outputs
          request   \* the latest pin_io_set: a pin and a state

Init ==
  /\ open = FALSE
  /\ out = [p \in Outs |-> 0]
  /\ request = <<0, 0>>

Open == ~open /\ open' /\ UNCHANGED <<out, request>>

Set(p, s) ==
  /\ open
  /\ request' = <<p, s>>
  /\ \/ p \in Outs /\ out' = [out EXCEPT ![p] = s]
     \/ UNCHANGED out
  /\ UNCHANGED open

(* Cleaning up switches outputs off one by one.                            *)
Clear(p) == open /\ out' = [out EXCEPT ![p] = 0] /\ UNCHANGED <<open, request>>

Close == open /\ ~open' /\ UNCHANGED <<out, request>>

Next ==
  \/ Open \/ Close
  \/ \E p \in Pins, s \in {0, 1} : Set(p, s)
  \/ \E p \in Outs : Clear(p)

Spec == Init /\ [][Next]_<<open, out, request>>
====
