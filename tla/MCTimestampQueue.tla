---- MODULE MCTimestampQueue ----
(* Finite instance of TimestampQueue: the clock runs from boot past several *)
(* windows, and enough appends to wrap the ring twice.                      *)
EXTENDS TimestampQueue

MCTimes == 0..7
====
