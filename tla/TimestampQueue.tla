---- MODULE TimestampQueue ----
(***************************************************************************)
(* The circular queue of timestamp_queue.c: MAX_BREAKS_PER_SECOND slots, a *)
(* head index, the tail assumed one ahead of it.  Each append overwrites   *)
(* the oldest slot and compares the new timestamp with the slot now oldest.*)
(* Timestamps are CLOCK_MONOTONIC nanoseconds as one number: time_diff     *)
(* followed by time_to_ns is subtraction.                                  *)
(***************************************************************************)
EXTENDS Integers, Sequences, FiniteSets

CONSTANTS MAX_BREAKS_PER_SECOND,  \* number of slots
          BILLION,                \* one second, in clock units
          Times,                  \* clock readings considered
          MaxAppends              \* bound: number of appends explored

ASSUME QueueAssumption ==
  /\ MAX_BREAKS_PER_SECOND \in 1..255     \* head is a uint8_t
  /\ BILLION \in Nat \ {0}
  /\ Times \subseteq Nat
  /\ MaxAppends \in Nat

VARIABLES queue, head,
          violation,              \* *violation_out of the last append
          breaks                  \* history: all timestamps appended

vars == <<queue, head, violation, breaks>>

MAX_QUEUE_INDEX_INCL == MAX_BREAKS_PER_SECOND - 1
Slots == 0..MAX_QUEUE_INDEX_INCL

(* Mutant: wraps one slot early.                                           *)
AdvanceEarly(i) == IF i + 1 >= MAX_QUEUE_INDEX_INCL THEN 0 ELSE i + 1

(* The index one ahead of i, wrapped.                                      *)
Advance(i) == IF i + 1 > MAX_QUEUE_INDEX_INCL THEN 0 ELSE i + 1

(* Mutant: head is the number of slots, not the last slot.                 *)
InitHeadPastEnd ==
  /\ queue = [s \in Slots |-> 0]
  /\ head = MAX_BREAKS_PER_SECOND
  /\ violation = FALSE
  /\ breaks = <<>>

(* timestamp_queue_init: zero timestamps, head on the last slot so that    *)
(* the first append writes slot 0.                                         *)
Init ==
  /\ queue = [s \in Slots |-> 0]
  /\ head = MAX_QUEUE_INDEX_INCL
  /\ violation = FALSE
  /\ breaks = <<>>

(* The clock is monotonic: a break is never earlier than the one before.   *)
NotEarlier(t) == breaks # <<>> => breaks[Len(breaks)] <= t

(* Mutant: compares with the slot about to be overwritten.                 *)
AppendCompareFirst(t) ==
  LET next_head == Advance(head)
  IN /\ Len(breaks) < MaxAppends
     /\ NotEarlier(t)
     /\ head' = next_head
     /\ queue' = [queue EXCEPT ![next_head] = t]
     /\ violation' = (t - queue[next_head] < BILLION)
     /\ breaks' = Append(breaks, t)

(* Mutant: a break exactly one second ago counts.                          *)
AppendInclusive(t) ==
  LET next_head == Advance(head)
      tail == Advance(next_head)
  IN /\ Len(breaks) < MaxAppends
     /\ NotEarlier(t)
     /\ head' = next_head
     /\ queue' = [queue EXCEPT ![next_head] = t]
     /\ violation' = (t - queue'[tail] <= BILLION)
     /\ breaks' = Append(breaks, t)

(* timestamp_queue_append.  The error returns need a NULL argument or a    *)
(* difference of 292 years and are out of reach of its only caller.        *)
AppendTimestamp(t) ==
  LET next_head == Advance(head)
      tail == Advance(next_head)
  IN /\ Len(breaks) < MaxAppends
     /\ NotEarlier(t)
     /\ head' = next_head
     /\ queue' = [queue EXCEPT ![next_head] = t]
     /\ violation' = (t - queue'[tail] < BILLION)
     /\ breaks' = Append(breaks, t)

Next == \E t \in Times : AppendTimestamp(t)

Spec == Init /\ [][Next]_vars

----
(* The n-th latest break; a slot not yet written counts as a break at 0.   *)
NthLatest(n) == IF n <= Len(breaks) THEN breaks[Len(breaks) - n + 1] ELSE 0

(* Types of the queue: the slots hold clock readings, head is a slot.      *)
TypeOK ==
  /\ queue \in [Slots -> Times \union {0}]
  /\ head \in Slots
  /\ violation \in BOOLEAN
  /\ breaks \in Seq(Times)

(* The ring is the history's last MAX_BREAKS_PER_SECOND breaks: going      *)
(* backwards (with wrap) from head, the slots hold the latest break, the   *)
(* one before it, and so on, with no slot lost or duplicated by wrapping.  *)
RingHoldsLatestBreaks ==
  \A s \in Slots :
    queue[s] = NthLatest(IF s <= head THEN head - s + 1
                         ELSE head - s + MAX_BREAKS_PER_SECOND + 1)

(* The queue's answer is the sliding window's: it reports a violation on   *)
(* exactly the breaks that are the MAX_BREAKS_PER_SECOND-th within one     *)
(* second, over every history of breaks and every wrap of the ring (and on *)
(* every break within the clock's first second, as the slots start at 0).  *)
Window == INSTANCE SlidingWindow
            WITH MaxPerSecond <- MAX_BREAKS_PER_SECOND, Second <- BILLION
ImplementsWindow == Window!Spec

(* README and slides: the safe state is entered "if more than 10 beam      *)
(* breaks are detected within one second".  Stated for a clock past its    *)
(* first second; timestamp_queue_append reports the 10th break already.    *)
ViolationOnlyAboveMax ==
  violation /\ NthLatest(1) >= BILLION =>
    Cardinality(Window!Recent(breaks, NthLatest(1))) > MAX_BREAKS_PER_SECOND
====
