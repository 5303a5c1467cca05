---- MODULE Timing_proofs ----
(***************************************************************************)
(* What the arithmetic of Timing computes, for every length of a second.   *)
(***************************************************************************)
EXTENDS Timing, TLAPS

USE TimingAssumption

(* Division by a second leaves a remainder less than a second.             *)
LEMMA Division ==
  ASSUME NEW ns \in Int
  PROVE  /\ ns \div BILLION \in Int
         /\ ns % BILLION \in 0..(BILLION - 1)
         /\ ns = BILLION * (ns \div BILLION) + (ns % BILLION)
  OBVIOUS

(* The carry of time_add_ns and the borrow of time_diff keep the value.    *)
LEMMA Shift ==
  ASSUME NEW s \in Int
  PROVE  /\ (s + 1) * BILLION = s * BILLION + BILLION
         /\ (s - 1) * BILLION = s * BILLION - BILLION
  OBVIOUS

LEMMA Distribute ==
  ASSUME NEW s \in Int, NEW r \in Int
  PROVE  /\ (s + r) * BILLION = s * BILLION + r * BILLION
         /\ (s - r) * BILLION = s * BILLION - r * BILLION
  OBVIOUS
(* ns_to_time splits a number of nanoseconds into a normal timespec that   *)
(* time_to_ns puts together again.                                         *)
THEOREM RoundTrip ==
  ASSUME NEW ns \in Int
  PROVE  /\ ns_to_time(ns) \in TIME_TYPE
         /\ time_to_ns(ns_to_time(ns)) = ns
<1>1. ns_to_time(ns) \in TIME_TYPE
  BY Division DEF ns_to_time, TIME_TYPE
<1>2. time_to_ns(ns_to_time(ns))
        = (ns \div BILLION) * BILLION + (ns % BILLION)
  BY DEF ns_to_time, time_to_ns
<1>. QED
  BY <1>1, <1>2, Division

(* A carried pair is normal and worth what it was worth.                   *)
LEMMA Carried ==
  ASSUME NEW sec \in Int, NEW nsec \in 0..(2 * BILLION - 1)
  PROVE  /\ carried(sec, nsec) \in TIME_TYPE
         /\ time_to_ns(carried(sec, nsec)) = sec * BILLION + nsec
<1>1. CASE nsec >= BILLION
  <2>1. carried(sec, nsec) = [tv_sec |-> sec + 1, tv_nsec |-> nsec - BILLION]
    BY <1>1 DEF carried
  <2>2. time_to_ns(carried(sec, nsec)) = (sec + 1) * BILLION + nsec - BILLION
    BY <2>1 DEF time_to_ns
  <2>. QED  BY <1>1, <2>1, <2>2, Shift DEF TIME_TYPE
<1>2. CASE nsec < BILLION
  BY <1>2 DEF carried, time_to_ns, TIME_TYPE
<1>. QED  BY <1>1, <1>2

(* time_add_ns is addition and leaves a normal timespec: one carry is      *)
(* enough, also when the nanoseconds add up to exactly a second.           *)
THEOREM AddIsSum ==
  ASSUME NEW t \in TIME_TYPE, NEW ns \in Nat
  PROVE  /\ time_add_ns(t, ns) \in TIME_TYPE
         /\ time_to_ns(time_add_ns(t, ns)) = time_to_ns(t) + ns
<1>. DEFINE sec == t.tv_sec + (ns \div BILLION)
            nsec == t.tv_nsec + (ns % BILLION)
<1>1. /\ t.tv_sec \in Int /\ t.tv_nsec \in 0..(BILLION - 1)
      /\ ns \div BILLION \in Int /\ ns % BILLION \in 0..(BILLION - 1)
  BY Division DEF TIME_TYPE
<1>2. sec \in Int /\ nsec \in 0..(2 * BILLION - 1)
  BY <1>1
<1>3. time_add_ns(t, ns) = carried(sec, nsec)
  BY DEF time_add_ns
<1>4. sec * BILLION = t.tv_sec * BILLION + (ns \div BILLION) * BILLION
  BY <1>1, Distribute
<1>5. ns = (ns \div BILLION) * BILLION + (ns % BILLION)
  BY <1>1, Division
<1>6. time_to_ns(t) = t.tv_sec * BILLION + t.tv_nsec
  BY DEF time_to_ns
<1>7. t.tv_sec * BILLION \in Int /\ (ns \div BILLION) * BILLION \in Int
  BY <1>1
<1>8. sec * BILLION + nsec = time_to_ns(t) + ns
  BY <1>1, <1>4, <1>5, <1>6, <1>7
<1>. QED  BY <1>2, <1>3, <1>8, Carried

(* time_diff is subtraction, for two timespecs in either order: what       *)
(* TimestampQueue takes the comparison of two timestamps to be.            *)
THEOREM DiffIsDifference ==
  ASSUME NEW left \in TIME_TYPE, NEW right \in TIME_TYPE
  PROVE  /\ time_diff(left, right) \in TIME_TYPE
         /\ time_to_ns(time_diff(left, right))
              = time_to_ns(left) - time_to_ns(right)
<1>. DEFINE sec == left.tv_sec - right.tv_sec
            nsec == left.tv_nsec - right.tv_nsec
<1>1. /\ left.tv_sec \in Int /\ left.tv_nsec \in 0..(BILLION - 1)
      /\ right.tv_sec \in Int /\ right.tv_nsec \in 0..(BILLION - 1)
  BY DEF TIME_TYPE
<1>2. sec * BILLION + nsec = time_to_ns(left) - time_to_ns(right)
  BY <1>1, Distribute DEF time_to_ns
<1>3. CASE nsec < 0
  <2>1. time_diff(left, right)
          = [tv_sec |-> sec - 1, tv_nsec |-> nsec + BILLION]
    BY <1>3 DEF time_diff
  <2>2. time_to_ns(time_diff(left, right))
          = (sec - 1) * BILLION + nsec + BILLION
    BY <2>1, <1>1 DEF time_to_ns
  <2>3. (sec - 1) * BILLION = sec * BILLION - BILLION
    BY <1>1, Shift
  <2>. QED  BY <1>1, <1>2, <1>3, <2>1, <2>2, <2>3 DEF TIME_TYPE
<1>4. CASE ~(nsec < 0)
  <2>1. time_diff(left, right) = [tv_sec |-> sec, tv_nsec |-> nsec]
    BY <1>4 DEF time_diff
  <2>. QED  BY <1>1, <1>2, <1>4, <2>1 DEF TIME_TYPE, time_to_ns
<1>. QED  BY <1>3, <1>4
====
