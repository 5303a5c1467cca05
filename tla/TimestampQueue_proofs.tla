---- MODULE TimestampQueue_proofs ----
(***************************************************************************)
(* For every number of slots, every window length and every history of     *)
(* breaks: the ring is the tail of the history, and the queue implements   *)
(* the sliding window.                                                     *)
(***************************************************************************)
EXTENDS TimestampQueue, FiniteSetTheorems, SequenceTheorems, TLAPS

(* The slot's age: 1 for the slot at the head h, then backwards with wrap.  *)
Age(s, h) == IF s <= h THEN h - s + 1 ELSE h - s + MAX_BREAKS_PER_SECOND + 1

(* What the monotonic clock gives: the history is sorted.                   *)
Sorted(b) == \A i, j \in 1..Len(b) : i <= j => b[i] <= b[j]

(* The inductive invariant: the ring property speaks of the history only    *)
(* through positions, so types and the sorting of the history are needed to *)
(* carry it over an append and to count with it.                            *)
IInv == TypeOK /\ RingHoldsLatestBreaks /\ Sorted(breaks)

(* The index arithmetic keeps head on a slot.                               *)
LEMMA AdvanceType ==
  ASSUME NEW i \in Slots
  PROVE  Advance(i) \in Slots
BY QueueAssumption DEF Advance, Slots, MAX_QUEUE_INDEX_INCL

(* The head's slot holds the latest break.                                  *)
LEMMA HeadIsYoungest ==
  ASSUME NEW h \in Slots
  PROVE  Age(h, h) = 1
BY QueueAssumption DEF Slots, MAX_QUEUE_INDEX_INCL, Age

(* The slot after the head is the oldest of the ring.                       *)
LEMMA TailIsOldest ==
  ASSUME NEW h \in Slots
  PROVE  Age(Advance(h), h) = MAX_BREAKS_PER_SECOND
BY QueueAssumption DEF Advance, Slots, MAX_QUEUE_INDEX_INCL, Age

(* Every slot but the new head ages by one when the head advances.          *)
LEMMA AdvanceAges ==
  ASSUME NEW h \in Slots, NEW s \in Slots, s # Advance(h)
  PROVE  /\ Age(s, h) \in 1..(MAX_BREAKS_PER_SECOND - 1)
         /\ Age(s, Advance(h)) = Age(s, h) + 1
BY QueueAssumption DEF Advance, Slots, MAX_QUEUE_INDEX_INCL, Age

(* An append makes the n-th latest break the (n+1)-th.                      *)
LEMMA AppendShifts ==
  ASSUME TypeOK, NEW t \in Times, breaks' = Append(breaks, t)
  PROVE  /\ NthLatest(1)' = t
         /\ \A n \in Nat \ {0} : NthLatest(n + 1)' = NthLatest(n)
<1>1. breaks \in Seq(Times) /\ Len(breaks) \in Nat
  BY DEF TypeOK
<1>2. Len(breaks') = Len(breaks) + 1
  BY <1>1
<1>3. breaks'[Len(breaks) + 1] = t
  BY <1>1
<1>4. \A i \in 1..Len(breaks) : breaks'[i] = breaks[i]
  BY <1>1
<1>5. NthLatest(1)' = t
  BY <1>1, <1>2, <1>3 DEF NthLatest
<1>6. ASSUME NEW n \in Nat \ {0}
      PROVE  NthLatest(n + 1)' = NthLatest(n)
  <2>1. CASE n <= Len(breaks)
    <3>1. Len(breaks) - n + 1 \in 1..Len(breaks)
      BY <1>1, <2>1
    <3>2. NthLatest(n + 1)' = breaks'[Len(breaks) - n + 1]
      BY <1>1, <1>2, <2>1 DEF NthLatest
    <3> QED
      BY <1>4, <2>1, <3>1, <3>2 DEF NthLatest
  <2>2. CASE ~ (n <= Len(breaks))
    BY <1>1, <1>2, <2>2 DEF NthLatest
  <2> QED
    BY <2>1, <2>2
<1> QED
  BY <1>5, <1>6

(* One append keeps the ring equal to the tail of the history, and its      *)
(* answer compares with the oldest break of that tail.                      *)
LEMMA AppendStep ==
  ASSUME IInv, NEW t \in Times, AppendTimestamp(t)
  PROVE  /\ IInv'
         /\ violation' = (t - NthLatest(MAX_BREAKS_PER_SECOND)' < BILLION)
<1> USE QueueAssumption
<1>1. /\ head \in Slots
      /\ queue \in [Slots -> Times \union {0}]
      /\ breaks \in Seq(Times)
  BY DEF IInv, TypeOK
<1>2. /\ head' = Advance(head)
      /\ queue' = [queue EXCEPT ![Advance(head)] = t]
      /\ breaks' = Append(breaks, t)
      /\ violation' = (t - queue'[Advance(Advance(head))] < BILLION)
  BY DEF AppendTimestamp
<1>3. head' \in Slots /\ Advance(head') \in Slots
  BY <1>1, <1>2, AdvanceType
<1>4. TypeOK'
  <2>1. queue' \in [Slots -> Times \union {0}]
    BY <1>1, <1>2, AdvanceType
  <2>2. violation' \in BOOLEAN
    BY <1>2
  <2>3. breaks' \in Seq(Times)
    BY <1>1, <1>2
  <2> QED
    BY <1>3, <2>1, <2>2, <2>3 DEF TypeOK
<1>5. /\ NthLatest(1)' = t
      /\ \A n \in Nat \ {0} : NthLatest(n + 1)' = NthLatest(n)
  BY <1>2, AppendShifts DEF IInv
<1>6. \A s \in Slots : queue'[s] = NthLatest(Age(s, head))'
  <2> SUFFICES ASSUME NEW s \in Slots
               PROVE  queue'[s] = NthLatest(Age(s, head))'
    OBVIOUS
  <2>1. CASE s = head'
    <3>1. Age(s, head)' = 1
      BY <1>3, <2>1, HeadIsYoungest
    <3>2. queue'[s] = t
      BY <1>1, <1>2, <1>3, <2>1
    <3> QED
      BY <1>5, <3>1, <3>2 DEF NthLatest
  <2>2. CASE s # head'
    <3>1. /\ Age(s, head) \in Nat \ {0}
          /\ Age(s, head)' = Age(s, head) + 1
      BY <1>1, <1>2, <2>2, AdvanceAges
    <3>2. queue'[s] = queue[s]
      BY <1>1, <1>2, <2>2
    <3>3. queue[s] = NthLatest(Age(s, head))
      BY DEF IInv, RingHoldsLatestBreaks, Age
    <3>4. PICK n \in Nat \ {0} : n = Age(s, head)
      BY <3>1
    <3>5. NthLatest(n + 1)' = NthLatest(n)
      BY <1>5
    <3>6. n + 1 = Age(s, head)'
      BY <3>1, <3>4
    <3> QED
      BY <3>2, <3>3, <3>4, <3>5, <3>6 DEF NthLatest
  <2> QED
    BY <2>1, <2>2
<1>7. RingHoldsLatestBreaks'
  BY <1>6 DEF RingHoldsLatestBreaks, Age
<1>8. Sorted(breaks)'
  <2>1. \A i \in 1..Len(breaks) : breaks[i] \in Nat /\ breaks[i] <= t
    <3>1. \A i \in 1..Len(breaks) : breaks[i] \in Nat
      <4>1. ASSUME NEW i \in 1..Len(breaks)  PROVE breaks[i] \in Times
        BY <1>1
      <4> QED
        BY <4>1
    <3>2. CASE breaks = <<>>
      BY <3>2
    <3>3. CASE breaks # <<>>
      <4>1. Len(breaks) \in 1..Len(breaks) /\ breaks[Len(breaks)] <= t
        BY <1>1, <3>3 DEF AppendTimestamp, NotEarlier
      <4>2. \A i \in 1..Len(breaks) : breaks[i] <= breaks[Len(breaks)]
        BY <4>1 DEF IInv, Sorted
      <4> QED
        BY <3>1, <4>1, <4>2
    <3> QED
      BY <3>2, <3>3
  <2>2. Len(breaks') = Len(breaks) + 1 /\ Len(breaks) \in Nat
    BY <1>1, <1>2
  <2>3. /\ breaks'[Len(breaks) + 1] = t
        /\ \A i \in 1..Len(breaks) : breaks'[i] = breaks[i]
    BY <1>1, <1>2
  <2>4. \A i, j \in 1..Len(breaks) : i <= j => breaks[i] <= breaks[j]
    BY DEF IInv, Sorted
  <2> QED
    BY <2>1, <2>2, <2>3, <2>4 DEF Sorted
<1>9. violation' = (t - NthLatest(MAX_BREAKS_PER_SECOND)' < BILLION)
  <2>1. Age(Advance(head), head)' = MAX_BREAKS_PER_SECOND
    BY <1>3, TailIsOldest
  <2>2. queue'[Advance(head')] = NthLatest(MAX_BREAKS_PER_SECOND)'
    BY <1>3, <1>6, <2>1 DEF NthLatest
  <2> QED
    BY <1>2, <2>2
<1> QED
  BY <1>4, <1>7, <1>8, <1>9 DEF IInv

(* In a sorted history, the n-th latest break lies in the window of the      *)
(* latest exactly when n breaks do.                                         *)
LEMMA WindowCount ==
  ASSUME NEW b \in Seq(Nat), Sorted(b), NEW n \in Nat \ {0}, n <= Len(b),
         NEW t \in Nat
  PROVE  (t - b[Len(b) - n + 1] < BILLION)
           <=> Cardinality(Window!Recent(b, t)) >= n
<1> DEFINE L == Len(b)
           R == Window!Recent(b, t)
<1> USE QueueAssumption
<1>1. L \in Nat /\ DOMAIN b = 1..L /\ \A i \in 1..L : b[i] \in Nat
  OBVIOUS
<1>2. R \subseteq 1..L
  BY <1>1 DEF Window!Recent
<1>3. IsFiniteSet(1..L)
  BY <1>1, FS_Interval
<1>4. IsFiniteSet(R) /\ Cardinality(R) \in Nat
  BY <1>2, <1>3, FS_Subset, FS_CardinalityType
<1>5. L - n + 1 \in 1..L
  BY <1>1
<1>6. CASE t - b[L - n + 1] < BILLION
  <2>1. (L - n + 1)..L \subseteq R
    <3>1. ASSUME NEW i \in (L - n + 1)..L  PROVE i \in R
      <4>1. i \in 1..L /\ b[L - n + 1] <= b[i]
        BY <1>1, <1>5 DEF Sorted
      <4> QED
        BY <1>1, <1>5, <1>6, <4>1 DEF Window!Recent
    <3> QED
      BY <3>1
  <2>2. Cardinality((L - n + 1)..L) = n
    BY <1>1, <1>5, FS_Interval
  <2> QED
    BY <1>4, <1>6, <2>1, <2>2, FS_Subset
<1>7. CASE ~ (t - b[L - n + 1] < BILLION)
  <2>1. R \subseteq (L - n + 2)..L
    <3>1. ASSUME NEW i \in R  PROVE i \in (L - n + 2)..L
      <4>1. i \in 1..L /\ t - b[i] < BILLION
        BY <1>1 DEF Window!Recent
      <4>2. ASSUME i <= L - n + 1  PROVE FALSE
        <5>1. b[i] <= b[L - n + 1]
          BY <1>1, <1>5, <4>1, <4>2 DEF Sorted
        <5> QED
          BY <1>1, <1>5, <1>7, <4>1, <5>1
      <4> QED
        BY <1>1, <4>1, <4>2
    <3> QED
      BY <3>1
  <2>2. IsFiniteSet((L - n + 2)..L) /\ Cardinality((L - n + 2)..L) = n - 1
    BY <1>1, <1>5, FS_Interval
  <2>3. Cardinality(R) <= n - 1
    BY <2>1, <2>2, FS_Subset
  <2> QED
    BY <1>4, <1>7, <2>3
<1> QED
  BY <1>6, <1>7

(* The instance's counting is the library's.                                 *)
LEMMA SameCardinality ==
  ASSUME NEW S
  PROVE  Window!Cardinality(S) = Cardinality(S)
BY DEF Window!Cardinality, Cardinality

(* The comparison with the oldest slot answers the window's question.        *)
LEMMA AnswerIsWindow ==
  ASSUME NEW b \in Seq(Nat), Sorted(b), NEW t \in Nat,
         b # <<>>, b[Len(b)] = t
  PROVE  (t - (IF MAX_BREAKS_PER_SECOND <= Len(b)
               THEN b[Len(b) - MAX_BREAKS_PER_SECOND + 1] ELSE 0) < BILLION)
           <=> Window!TooMany(b, t)
<1> DEFINE L == Len(b)
           N == MAX_BREAKS_PER_SECOND
           R == Window!Recent(b, t)
<1> USE QueueAssumption
<1>1. L \in Nat /\ DOMAIN b = 1..L /\ \A i \in 1..L : b[i] \in Nat
  OBVIOUS
<1>2. N \in Nat \ {0}
  OBVIOUS
<1>3. CASE N <= L
  <2>1. b[L - N + 1] \in Nat
    BY <1>1, <1>2, <1>3
  <2>2. (t - b[L - N + 1] < BILLION) <=> Cardinality(R) >= N
    BY <1>2, <1>3, WindowCount
  <2>3. t < BILLION => t - b[L - N + 1] < BILLION
    BY <2>1
  <2>4. Window!TooMany(b, t) <=> (t < BILLION \/ Cardinality(R) >= N)
    BY SameCardinality DEF Window!TooMany
  <2> QED
    BY <1>3, <2>2, <2>3, <2>4
<1>4. CASE L < N
  <2>1. Cardinality(R) <= L
    <3>1. R \subseteq 1..L
      BY <1>1 DEF Window!Recent
    <3>2. IsFiniteSet(1..L) /\ Cardinality(1..L) = L
      BY <1>1, FS_Interval
    <3> QED
      BY <3>1, <3>2, FS_Subset
  <2>2. Cardinality(R) \in Nat
    <3>1. R \subseteq 1..L
      BY <1>1 DEF Window!Recent
    <3>2. IsFiniteSet(1..L)
      BY <1>1, FS_Interval
    <3> QED
      BY <3>1, <3>2, FS_Subset, FS_CardinalityType
  <2>3. ~ (Cardinality(R) >= N)
    BY <1>1, <1>2, <1>4, <2>1, <2>2
  <2>4. Window!TooMany(b, t) <=> (t < BILLION \/ Cardinality(R) >= N)
    BY SameCardinality DEF Window!TooMany
  <2> QED
    BY <1>1, <1>4, <2>3, <2>4
<1> QED
  BY <1>1, <1>2, <1>3, <1>4

(* The freshly initialised queue satisfies the invariant: all slots are 0    *)
(* and so are all breaks of an empty history.                               *)
LEMMA InitIInv ==
  ASSUME Init
  PROVE  IInv
<1> USE QueueAssumption
<1>1. TypeOK
  BY DEF Init, TypeOK, Slots, MAX_QUEUE_INDEX_INCL
<1>2. RingHoldsLatestBreaks
  <2>1. \A n \in Nat \ {0} : NthLatest(n) = 0
    BY DEF Init, NthLatest
  <2>2. \A s \in Slots : Age(s, head) \in Nat \ {0}
    BY DEF Init, Age, Slots, MAX_QUEUE_INDEX_INCL
  <2>3. \A s \in Slots : queue[s] = 0
    BY DEF Init
  <2> QED
    BY <2>1, <2>2, <2>3 DEF RingHoldsLatestBreaks, Age
<1>3. Sorted(breaks)
  BY DEF Init, Sorted
<1> QED
  BY <1>1, <1>2, <1>3 DEF IInv

(* IInv is an invariant for every size of the ring and of the window.       *)
THEOREM Invariance == Spec => []IInv
<1>1. Init => IInv
  BY InitIInv
<1>2. IInv /\ [Next]_vars => IInv'
  <2>1. ASSUME IInv, Next  PROVE IInv'
    BY <2>1, AppendStep DEF Next
  <2>2. ASSUME IInv, UNCHANGED vars  PROVE IInv'
    BY <2>2 DEF vars, IInv, TypeOK, RingHoldsLatestBreaks, NthLatest, Sorted
  <2> QED
    BY <2>1, <2>2
<1> QED
  BY <1>1, <1>2, PTL DEF Spec

(* Type correctness of timestamp_queue.c's state: head never leaves the      *)
(* array, whatever the number of slots.                                     *)
THEOREM TypeCorrect == Spec => []TypeOK
BY Invariance, PTL DEF IInv

(* The ring never loses, repeats or reorders a break when it wraps.          *)
THEOREM RingCorrect == Spec => []RingHoldsLatestBreaks
BY Invariance, PTL DEF IInv

(* The queue of timestamp_queue.c implements the sliding window, for every   *)
(* number of slots, every window length and every sequence of breaks.       *)
THEOREM Refinement == Spec => ImplementsWindow
<1>1. Init => Window!Init
  BY DEF Init, Window!Init
<1>2. ASSUME IInv, Next  PROVE Window!Next
  <2>1. PICK t \in Times : AppendTimestamp(t)
    BY <1>2 DEF Next
  <2>2. IInv' /\ violation' = (t - NthLatest(MAX_BREAKS_PER_SECOND)' < BILLION)
    BY <1>2, <2>1, AppendStep
  <2>3. /\ breaks \in Seq(Times)
        /\ breaks' = Append(breaks, t)
        /\ t \in Nat
    BY <1>2, <2>1, QueueAssumption DEF IInv, TypeOK, AppendTimestamp
  <2>4. breaks' \in Seq(Nat) /\ Sorted(breaks')
    <3>1. breaks' \in Seq(Times) /\ Sorted(breaks')
      BY <2>2 DEF IInv, TypeOK, Sorted
    <3> QED
      BY <3>1, QueueAssumption, SeqMonotonic
  <2>5. breaks' # <<>> /\ breaks'[Len(breaks')] = t
    BY <2>3
  <2>6. violation' = Window!TooMany(breaks', t)
    <3>1. (t - NthLatest(MAX_BREAKS_PER_SECOND)' < BILLION)
            <=> Window!TooMany(breaks', t)
      BY <2>3, <2>4, <2>5, AnswerIsWindow DEF NthLatest
    <3>2. Window!TooMany(breaks', t) \in BOOLEAN
      BY DEF Window!TooMany
    <3>3. violation' <=> (t - NthLatest(MAX_BREAKS_PER_SECOND)' < BILLION)
      BY <2>2
    <3>4. violation' \in BOOLEAN
      BY <2>2 DEF IInv, TypeOK
    <3> QED
      BY <3>1, <3>2, <3>3, <3>4, Zenon
  <2>7. Window!Break(t)
    BY <2>1, <2>6 DEF AppendTimestamp, NotEarlier, Window!Break
  <2> QED
    BY <2>7 DEF Window!Next
<1>3. UNCHANGED vars => UNCHANGED Window!vars
  BY DEF vars, Window!vars
<1> QED
  BY <1>1, <1>2, <1>3, Invariance, PTL DEF Spec, ImplementsWindow, Window!Spec
====
