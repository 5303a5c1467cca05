---- MODULE LossyLog ----
(***************************************************************************)
(* What logging_state.h promises: logs come out in the order in which they *)
(* were accepted, in bounded memory; "logs which overflow will be lost,    *)
(* but such events will be recorded in the log".                           *)
(***************************************************************************)
EXTENDS Integers, Sequences

CONSTANTS Channel,
          Capacity      \* [Channel -> Nat \ {0}]

VARIABLES issued,     \* per channel: requests so far; each gets its number
          record,     \* per channel: the numbers kept, and Lost marks
          delivered   \* per channel: how much of the record is out

vars == <<issued, record, delivered>>

Lost == 0

Init == /\ issued = [c \in Channel |-> 0]
        /\ record = [c \in Channel |-> <<>>]
        /\ delivered = [c \in Channel |-> 0]

Undelivered(c) == Len(record[c]) - delivered[c]

EndsLost(c) == record[c] # <<>> /\ record[c][Len(record[c])] = Lost

(* A request is kept while memory lasts: the reader's copy and the buffer. *)
Keep(c) ==
  /\ Undelivered(c) <= 2 * Capacity[c]
  /\ issued' = [issued EXCEPT ![c] = @ + 1]
  /\ record' = [record EXCEPT ![c] = Append(@, issued[c] + 1)]
  /\ UNCHANGED delivered

(* It may be lost only behind Capacity undelivered logs, and leaves a mark *)
(* unless the record ends in one.                                          *)
Lose(c) ==
  /\ Undelivered(c) >= Capacity[c]
  /\ issued' = [issued EXCEPT ![c] = @ + 1]
  /\ record' = IF EndsLost(c) THEN record
               ELSE [record EXCEPT ![c] = Append(@, Lost)]
  /\ UNCHANGED delivered

(* What comes out comes out in the order of the record.                    *)
Deliver(c) ==
  /\ \E n \in delivered[c]..Len(record[c]) :
       delivered' = [delivered EXCEPT ![c] = n]
  /\ UNCHANGED <<issued, record>>

Next == \E c \in Channel : Keep(c) \/ Lose(c) \/ Deliver(c)

Spec == Init /\ [][Next]_vars

----
(* No request vanishes: where the numbers in the record skip one, and      *)
(* where they end before the last request, there is a mark.                *)
GapsAreMarked ==
  \A c \in Channel :
    LET r == record[c]
    IN /\ \A i \in 1..(Len(r) - 1) :
            r[i] # Lost /\ r[i + 1] # Lost => r[i + 1] = r[i] + 1
       /\ r # <<>> /\ r[1] # Lost => r[1] = 1
       /\ ~ EndsLost(c) => issued[c] = IF r = <<>> THEN 0 ELSE r[Len(r)]
====
