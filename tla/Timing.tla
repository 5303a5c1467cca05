---- MODULE Timing ----
(***************************************************************************)
(* The time arithmetic of timing.c: a TIME_TYPE is a struct timespec, a    *)
(* duration a number of nanoseconds.  NULL arguments, negative durations   *)
(* and sums beyond 292 years, which the functions refuse, have no caller.  *)
(***************************************************************************)
EXTENDS Integers

CONSTANT BILLION  \* nanoseconds in a second

ASSUME TimingAssumption == BILLION \in Nat \ {0}

TIME_TYPE == [tv_sec : Int, tv_nsec : 0..(BILLION - 1)]

ns_to_time(ns) == [tv_sec |-> ns \div BILLION, tv_nsec |-> ns % BILLION]

time_to_ns(t) == t.tv_sec * BILLION + t.tv_nsec

(* One carry is enough: both parts of nanoseconds are less than a second.  *)
carried(sec, nsec) ==
  IF nsec >= BILLION THEN [tv_sec |-> sec + 1, tv_nsec |-> nsec - BILLION]
                     ELSE [tv_sec |-> sec, tv_nsec |-> nsec]

(* Mutant: the carried second is forgotten.                                *)
time_add_ns_no_carry(t, ns) ==
  [carried(t.tv_sec, t.tv_nsec + (ns % BILLION))
     EXCEPT !.tv_sec = t.tv_sec + (ns \div BILLION)]

(* Mutant: a sum of exactly one second is not carried.                     *)
time_add_ns_late_carry(t, ns) ==
  LET nsec == t.tv_nsec + (ns % BILLION)
  IN IF nsec = BILLION
     THEN [tv_sec |-> t.tv_sec + (ns \div BILLION), tv_nsec |-> nsec]
     ELSE carried(t.tv_sec + (ns \div BILLION), nsec)

time_add_ns(t, ns) ==
  carried(t.tv_sec + (ns \div BILLION), t.tv_nsec + (ns % BILLION))

time_diff(left, right) ==
  LET sec == left.tv_sec - right.tv_sec
      nsec == left.tv_nsec - right.tv_nsec
  IN IF nsec < 0 THEN [tv_sec |-> sec - 1, tv_nsec |-> nsec + BILLION]
                 ELSE [tv_sec |-> sec, tv_nsec |-> nsec]
====
