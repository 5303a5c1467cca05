---- MODULE SlidingWindow ----
(***************************************************************************)
(* What the beam thread is promised by timestamp_queue.h: after every beam *)
(* break, an answer to "are there MaxPerSecond breaks within one second?". *)
(* The module keeps the whole history of breaks and counts; it knows       *)
(* nothing of a ring buffer.                                               *)
(***************************************************************************)
EXTENDS Integers, Sequences, FiniteSets

CONSTANTS MaxPerSecond,  \* number of breaks within Second that is too many
          Second,        \* length of the window
          Times,         \* the timestamps a break may carry
          MaxAppends     \* bound: number of breaks explored

VARIABLES breaks,        \* timestamps of all breaks so far, oldest first
          violation      \* the last answer

vars == <<breaks, violation>>

(* The breaks of history h that lie less than Second before time t.        *)
Recent(h, t) == { i \in DOMAIN h : t - h[i] < Second }

(* The slots of the implementation start as breaks at time 0, so within    *)
(* the first Second of the monotonic clock every break is one too many.    *)
TooMany(h, t) == t < Second \/ Cardinality(Recent(h, t)) >= MaxPerSecond

Init == breaks = <<>> /\ violation = FALSE

Break(t) ==
  /\ Len(breaks) < MaxAppends
  /\ breaks # <<>> => breaks[Len(breaks)] <= t
  /\ breaks' = Append(breaks, t)
  /\ violation' = TooMany(breaks', t)

Next == \E t \in Times : Break(t)

Spec == Init /\ [][Next]_vars
====
