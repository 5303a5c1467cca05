---- MODULE Logging_proofs ----
(***************************************************************************)
(* For every size of the two arrays: the buffers never outgrow them, the   *)
(* last pass of the logging thread leaves nothing behind that was logged   *)
(* before the stop, and the whole is a lossy log.                          *)
(***************************************************************************)
EXTENDS Logging, SequenceTheorems, TLAPS

(* What is left in the buffers once the last pass has read them was logged *)
(* after the stop.                                                         *)
MarkInv ==
  /\ final = 1 => stop = 1
  /\ logPc = "done" => final = 1
  /\ logPc \in {"loop", "own"} => final = 0
  /\ stop = 1 => \A c \in Channel : stopMark[c] <= issued[c]
  /\ final = 1 /\ logPc # "read" /\ faults = 0 =>
       \A c \in Channel : \A i \in 1..Len(buf[c]) : buf[c][i] > stopMark[c]

IInv == TypeOK /\ MarkInv

(* The sizes of the arrays.                                                *)
LEMMA Sizes ==
  /\ \A c \in Channel : Capacity[c] \in Nat \ {0}
  /\ "message" \in Channel /\ "entry" \in Channel
BY LoggingAssumption DEF Capacity, Channel

(* An append keeps the types, and adds at most one log, which is the       *)
(* latest request.                                                         *)
LEMMA AppendStep ==
  ASSUME TypeOK, NEW c \in Channel, AppendLog(c)
  PROVE  /\ issued' \in [Channel -> Nat]
         /\ buf' \in [Channel -> Seq(Nat)]
         /\ count' \in [Channel -> Nat]
         /\ \A d \in Channel : FitsArray(buf'[d], count'[d], Capacity[d])
         /\ \A d \in Channel : issued'[d] >= issued[d]
         /\ \A d \in Channel : \A i \in 1..Len(buf'[d]) :
              \/ i \in 1..Len(buf[d]) /\ buf'[d][i] = buf[d][i]
              \/ buf'[d][i] > issued[d]
<1>0. /\ issued \in [Channel -> Nat] /\ buf \in [Channel -> Seq(Nat)]
      /\ count \in [Channel -> Nat]
      /\ \A d \in Channel : FitsArray(buf[d], count[d], Capacity[d])
      /\ Capacity[c] \in Nat
  BY Sizes DEF TypeOK
<1>1. issued' \in [Channel -> Nat] /\ \A d \in Channel : issued'[d] >= issued[d]
  <2>1. issued' = [issued EXCEPT ![c] = issued[c] + 1]
    BY DEF AppendLog
  <2> QED
    BY <1>0, <2>1
<1>2. CASE count[c] >= Capacity[c]
  <2>1. buf' = buf /\ count' = [count EXCEPT ![c] = Capacity[c] + 1]
    BY <1>2 DEF AppendLog
  <2>2. Len(buf[c]) = Capacity[c]
    BY <1>0, <1>2 DEF FitsArray
  <2>3. \A d \in Channel : FitsArray(buf'[d], count'[d], Capacity[d])
    BY <1>0, <2>1, <2>2 DEF FitsArray
  <2> QED
    BY <1>0, <1>1, <2>1, <2>3
<1>3. CASE count[c] < Capacity[c]
  <2>1. /\ buf' = [buf EXCEPT ![c] = Append(buf[c], issued[c] + 1)]
        /\ count' = [count EXCEPT ![c] = count[c] + 1]
    BY <1>0, <1>3 DEF AppendLog
  <2>2. buf[c] \in Seq(Nat) /\ issued[c] + 1 \in Nat /\ count[c] \in Nat
    BY <1>0
  <2>3. /\ Append(buf[c], issued[c] + 1) \in Seq(Nat)
        /\ Len(Append(buf[c], issued[c] + 1)) = Len(buf[c]) + 1
    BY <2>2
  <2>4. count[c] = Len(buf[c])
    BY <1>0, <1>3 DEF FitsArray
  <2>5. \A d \in Channel : FitsArray(buf'[d], count'[d], Capacity[d])
    BY <1>0, <1>3, <2>1, <2>3, <2>4 DEF FitsArray
  <2>6. \A i \in 1..Len(buf'[c]) :
           \/ i \in 1..Len(buf[c]) /\ buf'[c][i] = buf[c][i]
           \/ buf'[c][i] > issued[c]
    BY <1>0, <2>1, <2>2
  <2>7. buf' \in [Channel -> Seq(Nat)] /\ count' \in [Channel -> Nat]
    BY <1>0, <2>1, <2>2, <2>3
  <2>8. \A d \in Channel : d # c => buf'[d] = buf[d]
    BY <1>0, <2>1
  <2> QED
    BY <1>1, <2>5, <2>6, <2>7, <2>8
<1> QED
  BY <1>0, <1>2, <1>3

(* The same step as a step of the invariant.                               *)
LEMMA AppendKeeps ==
  ASSUME IInv, NEW c \in Channel, AppendLog(c),
         UNCHANGED <<copy, copyCount, out, stop, stopMark, final, faults>>,
         consPc' \in {"run", "spin", "fatal", "stopping", "done"},
         logPc' = logPc \/ (logPc = "own" /\ logPc' = "read")
  PROVE  IInv'
<1>1. TypeOK'
  BY AppendStep, Sizes DEF IInv, TypeOK
<1>2. MarkInv'
  <2>1. stop = 1 => \A d \in Channel : stopMark[d] <= issued'[d]
    <3> SUFFICES ASSUME stop = 1, NEW d \in Channel
                 PROVE  stopMark[d] <= issued'[d]
      OBVIOUS
    <3>1. issued'[d] >= issued[d] /\ issued'[d] \in Nat
      BY AppendStep DEF IInv
    <3>2. stopMark[d] <= issued[d] /\ stopMark[d] \in Nat /\ issued[d] \in Nat
      BY DEF IInv, TypeOK, MarkInv
    <3> QED
      BY <3>1, <3>2
  <2>2. final = 1 /\ logPc # "read" /\ faults = 0 =>
          \A d \in Channel : \A i \in 1..Len(buf'[d]) : buf'[d][i] > stopMark[d]
    <3> SUFFICES ASSUME final = 1, logPc # "read", faults = 0,
                        NEW d \in Channel, NEW i \in 1..Len(buf'[d])
                 PROVE  buf'[d][i] > stopMark[d]
      OBVIOUS
    <3>1. stopMark[d] <= issued[d] /\ stopMark[d] \in Nat /\ issued[d] \in Nat
      BY DEF IInv, TypeOK, MarkInv
    <3>2. CASE i \in 1..Len(buf[d]) /\ buf'[d][i] = buf[d][i]
      BY <3>2 DEF IInv, MarkInv
    <3>3. CASE buf'[d][i] > issued[d]
      <4>1. buf'[d][i] \in Nat
        BY AppendStep DEF IInv
      <4> QED
        BY <3>1, <3>3, <4>1
    <3> QED
      BY <3>2, <3>3, AppendStep DEF IInv
  <2> QED
    BY <2>1, <2>2 DEF IInv, MarkInv
<1> QED
  BY <1>1, <1>2 DEF IInv
(* A step of the logging thread that appends nothing keeps the invariant.  *)
LEMMA LogThreadStep ==
  ASSUME IInv, LogLoop \/ LogRead \/ LogReadFails \/ \E c \in Channel : LogPrint(c)
  PROVE  IInv'
<1> USE Sizes DEF IInv, TypeOK, MarkInv, chans, LogRest
<1>1. CASE LogLoop
  BY <1>1 DEF LogLoop
<1>2. CASE LogRead
  <2>1. /\ copy' = buf /\ copyCount' = count
        /\ buf' = [c \in Channel |-> <<>>] /\ count' = [c \in Channel |-> 0]
        /\ logPc' = "message" /\ logPc = "read"
        /\ UNCHANGED <<out, issued, final, faults, stop, stopMark, consPc>>
    BY <1>2 DEF LogRead, Empty, Zero
  <2>2. \A c \in Channel : FitsArray(buf'[c], count'[c], Capacity[c])
    <3> SUFFICES ASSUME NEW c \in Channel
                 PROVE  FitsArray(buf'[c], count'[c], Capacity[c])
      OBVIOUS
    <3>1. Len(buf'[c]) = 0 /\ count'[c] = 0 /\ Capacity[c] \in Nat
      BY <2>1
    <3> QED
      BY ONLY <3>1 DEF FitsArray
  <2>3. \A c \in Channel : /\ Len(copy'[c]) <= Capacity[c]
                           /\ copyCount'[c] \in Len(copy'[c])..(Capacity[c] + 1)
    <3> SUFFICES ASSUME NEW c \in Channel
                 PROVE  /\ Len(buf[c]) <= Capacity[c]
                        /\ count[c] \in Len(buf[c])..(Capacity[c] + 1)
      BY <2>1
    <3>1. FitsArray(buf[c], count[c], Capacity[c]) /\ buf[c] \in Seq(Nat)
      OBVIOUS
    <3>2. Capacity[c] \in Nat
      BY Sizes
    <3>3. Len(buf[c]) \in Nat
      BY ONLY <3>1
    <3> QED
      BY ONLY <3>1, <3>2, <3>3 DEF FitsArray
  <2>4. buf' \in [Channel -> Seq(Nat)] /\ count' \in [Channel -> Nat]
    BY <2>1
  <2>5. \A c \in Channel : Len(buf'[c]) = 0
    BY <2>1
  <2>6. TypeOK'
    BY <2>1, <2>2, <2>3, <2>4
  <2>7. MarkInv'
    BY <2>1, <2>5
  <2> QED
    BY <2>6, <2>7
<1>3. CASE LogReadFails
  <2>1. /\ faults < MaxFaults /\ faults' = faults + 1
        /\ logPc' = IF final = 1 THEN "done" ELSE "loop"
        /\ UNCHANGED <<buf, count, issued, copy, copyCount, out, final, stop,
                      stopMark, consPc>>
    BY <1>3 DEF LogReadFails, AfterPass
  <2>2. faults' \in 0..MaxFaults /\ faults' # 0
    BY <2>1, LoggingAssumption
  <2> QED
    BY <2>1, <2>2
<1>4. ASSUME NEW c \in Channel, LogPrint(c)  PROVE IInv'
  <2>1. /\ logPc = c
        /\ out' = [out EXCEPT
             ![c] = out[c] \o Printed(copy[c], copyCount[c], Capacity[c])]
        /\ copyCount' = [copyCount EXCEPT
             ![c] = IF copyCount[c] > Capacity[c] THEN Capacity[c]
                    ELSE copyCount[c]]
        /\ UNCHANGED <<buf, count, issued, copy, final, faults, stop, stopMark,
                      consPc>>
    BY <1>4 DEF LogPrint
  <2>2. copy[c] \in Seq(Nat) /\ out[c] \in Seq(Nat)
    OBVIOUS
  <2>3. Printed(copy[c], copyCount[c], Capacity[c]) \in Seq(Nat)
    BY <2>2 DEF Printed, Lost
  <2>4. out' \in [Channel -> Seq(Nat)]
    BY <2>1, <2>2, <2>3
  <2>5. /\ copyCount' \in [Channel -> Nat]
        /\ \A d \in Channel : copyCount'[d] \in Len(copy[d])..(Capacity[d] + 1)
    <3>0. Len(copy[c]) \in Nat
      BY ONLY <2>2
    <3>1. /\ Len(copy[c]) \in Nat /\ Len(copy[c]) <= Capacity[c]
          /\ copyCount[c] \in Len(copy[c])..(Capacity[c] + 1)
          /\ Capacity[c] \in Nat /\ copyCount[c] \in Nat
      <4>1. copyCount[c] \in Len(copy[c])..(Capacity[c] + 1)
        OBVIOUS
      <4>2. Capacity[c] \in Nat /\ copyCount[c] \in Nat
        BY Sizes
      <4>3. Len(copy[c]) <= Capacity[c]
        OBVIOUS
      <4> QED
        BY ONLY <3>0, <4>1, <4>2, <4>3
    <3>2. /\ (IF copyCount[c] > Capacity[c] THEN Capacity[c] ELSE copyCount[c])
                \in Nat
          /\ (IF copyCount[c] > Capacity[c] THEN Capacity[c] ELSE copyCount[c])
                \in Len(copy[c])..(Capacity[c] + 1)
      BY ONLY <3>1
    <3> HIDE DEF MarkInv
    <3> QED
      BY <2>1, <3>2
  <2>6. /\ logPc' \in {"loop", "own", "read", "done"} \union Channel
        /\ logPc' = "done" => final = 1
        /\ logPc' \in {"loop", "own"} => final = 0
        /\ logPc # "read"
    BY <1>4 DEF LogPrint, AfterPass, Channel
  <2>7. TypeOK'
    BY <2>1, <2>4, <2>5, <2>6
  <2>8. MarkInv'
    BY <2>1, <2>6
  <2> QED
    BY <2>7, <2>8
<1> QED
  BY <1>1, <1>2, <1>3, <1>4

(* Stop is set, now or before; the mark is taken the first time.           *)
LEMMA SetStopStep ==
  ASSUME IInv, SetStop, UNCHANGED <<chans, ConsoleRest>>,
         consPc' \in {"run", "spin", "fatal", "stopping", "done"}
  PROVE  IInv'
<1>1. /\ stop' = 1
      /\ stopMark' = IF stop = 0 THEN issued ELSE stopMark
  BY DEF SetStop
<1>2. UNCHANGED <<buf, count, issued, copy, copyCount, out, logPc, final, faults>>
  BY DEF chans, ConsoleRest
<1>3. TypeOK'
  BY <1>1, <1>2 DEF IInv, TypeOK
<1>4. CASE stop = 0
  BY <1>1, <1>2, <1>4 DEF IInv, TypeOK, MarkInv
<1>5. CASE stop = 1
  BY <1>1, <1>2, <1>3, <1>5 DEF IInv, MarkInv
<1> QED
  BY <1>4, <1>5 DEF IInv, TypeOK

(* Every step keeps the invariant.                                         *)
LEMMA IInvStep ==
  ASSUME IInv, [Next]_vars
  PROVE  IInv'
<1>1. ASSUME NEW c \in Channel, OtherThreadLogs(c)  PROVE IInv'
  <2>1. /\ AppendLog(c) /\ logPc' = logPc /\ consPc' = consPc
        /\ UNCHANGED <<copy, copyCount, out, stop, stopMark, final, faults>>
    BY <1>1 DEF OtherThreadLogs
  <2> QED
    BY <2>1, AppendKeeps DEF IInv, TypeOK
<1>2. CASE LogOwnEntry
  <2>1. /\ logPc = "own" /\ logPc' = "read" /\ consPc' = consPc
        /\ UNCHANGED <<copy, copyCount, out, stop, stopMark, final, faults>>
    BY <1>2 DEF LogOwnEntry, LogRest
  <2>2. CASE AppendLog("entry")
    BY <2>1, <2>2, AppendKeeps, Sizes DEF IInv, TypeOK
  <2>3. CASE UNCHANGED chans
    BY <2>1, <2>3 DEF IInv, TypeOK, MarkInv, chans
  <2> QED
    BY <1>2, <2>2, <2>3 DEF LogOwnEntry
<1>3. CASE LogLoop \/ LogRead \/ LogReadFails \/ \E c \in Channel : LogPrint(c)
  BY <1>3, LogThreadStep
<1>4. CASE ConsoleQuit \/ ConsoleFatalStop \/ handle_sigint
  <2>1. /\ SetStop /\ UNCHANGED <<chans, ConsoleRest>>
        /\ consPc' \in {"run", "spin", "fatal", "stopping", "done"}
    BY <1>4 DEF ConsoleQuit, ConsoleFatalStop, handle_sigint, IInv, TypeOK
  <2> QED
    BY <2>1, SetStopStep
<1>5. CASE ConsoleFatal \/ ConsoleHandled
  <2>1. PICK c \in Channel : AppendLog(c)
    BY <1>5, Sizes DEF ConsoleFatal, ConsoleHandled
  <2>2. /\ logPc' = logPc /\ consPc' \in {"run", "spin", "fatal", "stopping", "done"}
        /\ UNCHANGED <<copy, copyCount, out, stop, stopMark, final, faults>>
    BY <1>5 DEF ConsoleFatal, ConsoleHandled, ConsoleRest
  <2> QED
    BY <2>1, <2>2, AppendKeeps
<1>6. CASE ConsoleInputEnds \/ ConsoleExit
  BY <1>6 DEF ConsoleInputEnds, ConsoleExit, ConsoleRest, chans, IInv, TypeOK,
              MarkInv
<1>7. CASE UNCHANGED vars
  BY <1>7 DEF vars, chans, IInv, TypeOK, MarkInv
<1> QED
  BY <1>1, <1>2, <1>3, <1>4, <1>5, <1>6, <1>7 DEF Next, LogThread, Console

(* The invariant holds in every behaviour, with or without fairness.       *)
THEOREM Invariance == Spec => []IInv
<1>1. Init => IInv
  <2> SUFFICES ASSUME Init  PROVE IInv
    OBVIOUS
  <2>1. /\ buf \in [Channel -> Seq(Nat)] /\ copy \in [Channel -> Seq(Nat)]
        /\ out \in [Channel -> Seq(Nat)]
        /\ \A c \in Channel : Len(buf[c]) = 0 /\ Len(copy[c]) = 0
    BY DEF Init, Empty
  <2>2. /\ count \in [Channel -> Nat] /\ copyCount \in [Channel -> Nat]
        /\ issued \in [Channel -> Nat] /\ stopMark \in [Channel -> Nat]
        /\ \A c \in Channel : count[c] = 0 /\ copyCount[c] = 0
    BY DEF Init, Zero
  <2>3. /\ stop = 0 /\ final = 0 /\ faults = 0
        /\ logPc = "loop" /\ consPc = "run"
    BY DEF Init
  <2>4. \A c \in Channel : FitsArray(buf[c], count[c], Capacity[c])
    BY <2>1, <2>2, Sizes DEF FitsArray
  <2>5. TypeOK
    BY <2>1, <2>2, <2>3, <2>4, Sizes, LoggingAssumption DEF TypeOK
  <2> QED
    BY <2>3, <2>5 DEF IInv, MarkInv
<1>2. IInv /\ [Next]_vars => IInv'
  BY IInvStep
<1> QED
  BY <1>1, <1>2, PTL DEF Spec

(* Neither array of logging_state.h is ever outgrown (logging_state.c).    *)
THEOREM TypeCorrect == Spec => []TypeOK
BY Invariance, PTL DEF IInv

(* What was logged before the stop is printed when the logging thread ends *)
(* (logging_thread.c).                                                     *)
THEOREM LastPassCorrect == Spec => []LogsBeforeStopPrinted
<1>1. IInv => LogsBeforeStopPrinted
  BY DEF IInv, MarkInv, LogsBeforeStopPrinted
<1> QED
  BY <1>1, Invariance, PTL

----
(* No mark is ever in a buffer: the marks are printed, never stored.       *)
NumberInv ==
  \A c \in Channel : \A i \in 1..Len(buf[c]) : buf[c][i] # Lost

(* Nothing but an append or a read touches the buffers.                    *)
LEMMA NumberStep ==
  ASSUME IInv, NumberInv, [Next]_vars
  PROVE  NumberInv'
<1>1. ASSUME NEW c \in Channel, AppendLog(c)  PROVE NumberInv'
  <2> SUFFICES ASSUME NEW d \in Channel, NEW i \in 1..Len(buf'[d])
               PROVE  buf'[d][i] # 0
    BY DEF NumberInv, Lost
  <2>1. CASE i \in 1..Len(buf[d]) /\ buf'[d][i] = buf[d][i]
    BY <2>1 DEF NumberInv, Lost
  <2>2. CASE buf'[d][i] > issued[d]
    <3>1. issued[d] \in Nat /\ buf'[d] \in Seq(Nat)
      BY <1>1, AppendStep DEF IInv, TypeOK
    <3>2. buf'[d][i] \in Nat
      BY <3>1
    <3> QED
      BY <2>2, <3>1, <3>2
  <2> QED
    BY <1>1, <2>1, <2>2, AppendStep DEF IInv
<1>2. CASE LogRead
  BY <1>2 DEF LogRead, Empty, NumberInv
<1>3. CASE UNCHANGED buf
  BY <1>3 DEF NumberInv
<1> QED
  BY <1>1, <1>2, <1>3, Sizes
  DEF Next, OtherThreadLogs, LogThread, LogLoop, LogOwnEntry, LogReadFails,
      LogPrint, Console, ConsoleQuit, ConsoleFatal, ConsoleFatalStop,
      ConsoleHandled, ConsoleInputEnds, ConsoleExit, handle_sigint, chans,
      vars

(* What is printed of a buffer: its logs, and one mark more when it is over*)
(* full.                                                                   *)
LEMMA PrintedProperties ==
  ASSUME NEW b \in Seq(Nat), NEW n \in Nat, NEW cap \in Nat
  PROVE  /\ Printed(b, n, cap) \in Seq(Nat)
         /\ n <= cap => Printed(b, n, cap) = b
         /\ n > cap => Printed(b, n, cap) = Append(b, Lost)
         /\ Len(Printed(b, n, cap)) <= Len(b) + 1
         /\ Len(Printed(b, n, cap)) >= Len(b)
<1>1. CASE n <= cap
  <2>1. Printed(b, n, cap) = b
    BY <1>1, ConcatEmptySeq DEF Printed
  <2>2. Len(b) \in Nat
    OBVIOUS
  <2> QED
    BY <1>1, <2>1, <2>2
<1>2. CASE n > cap
  <2>1. Printed(b, n, cap) = Append(b, Lost)
    BY <1>2, AppendIsConcat DEF Printed, Lost
  <2>2. Append(b, Lost) \in Seq(Nat) /\ Len(Append(b, Lost)) = Len(b) + 1
        /\ Len(b) \in Nat
    BY DEF Lost
  <2> QED
    BY <1>2, <2>1, <2>2
<1> QED
  BY <1>1, <1>2

(* An empty buffer prints nothing.                                         *)
LEMMA PrintedEmpty ==
  ASSUME NEW cap \in Nat
  PROVE  Printed(<<>>, 0, cap) = <<>>
<1>1. ~(0 > cap)
  OBVIOUS
<1> QED
  BY <1>1 DEF Printed

(* Appending to what comes last appends to the whole.                      *)
LEMMA ConcatAppend ==
  ASSUME NEW a \in Seq(Nat), NEW b \in Seq(Nat), NEW x \in Nat
  PROVE  a \o Append(b, x) = Append(a \o b, x)
<1>1. Append(b, x) = b \o <<x>> /\ <<x>> \in Seq(Nat)
  BY AppendIsConcat
<1>2. a \o b \in Seq(Nat)
  OBVIOUS
<1>3. Append(a \o b, x) = (a \o b) \o <<x>>
  BY <1>2, AppendIsConcat
<1>4. (a \o b) \o <<x>> = a \o (b \o <<x>>)
  BY <1>1, ConcatAssociative
<1> QED
  BY <1>1, <1>3, <1>4

----
(* Towards LossyLog.  What comes before the buffer in the record.          *)
Before(c) == out[c] \o Unprinted(c)
Rest(c) == Printed(buf[c], count[c], Capacity[c])
Delivered == [c \in Channel |-> Len(out[c])]
A == <<issued, Record, Delivered>>

(* The parts of the record.                                                *)
LEMMA RecordParts ==
  ASSUME TypeOK
  PROVE  /\ Record = [c \in Channel |-> Before(c) \o Rest(c)]
         /\ Record \in [Channel -> Seq(Nat)]
         /\ \A c \in Channel :
              /\ out[c] \in Seq(Nat) /\ Unprinted(c) \in Seq(Nat)
              /\ Before(c) \in Seq(Nat) /\ Rest(c) \in Seq(Nat)
              /\ Len(Unprinted(c)) <= Capacity[c] + 1
              /\ Len(Record[c])
                   = Len(out[c]) + Len(Unprinted(c)) + Len(Rest(c))
<1>1. Record = [c \in Channel |-> Before(c) \o Rest(c)]
  BY DEF Record, Before, Rest
<1>2. ASSUME NEW c \in Channel
      PROVE  /\ out[c] \in Seq(Nat) /\ Unprinted(c) \in Seq(Nat)
             /\ Before(c) \in Seq(Nat) /\ Rest(c) \in Seq(Nat)
             /\ Len(Unprinted(c)) <= Capacity[c] + 1
             /\ Len(Before(c) \o Rest(c))
                  = Len(out[c]) + Len(Unprinted(c)) + Len(Rest(c))
             /\ Before(c) \o Rest(c) \in Seq(Nat)
  <2>1. /\ out[c] \in Seq(Nat) /\ buf[c] \in Seq(Nat) /\ copy[c] \in Seq(Nat)
        /\ count[c] \in Nat /\ copyCount[c] \in Nat /\ Capacity[c] \in Nat
        /\ Len(copy[c]) <= Capacity[c]
    BY Sizes DEF TypeOK
  <2>2. /\ Unprinted(c) \in Seq(Nat)
        /\ Len(Unprinted(c)) <= Capacity[c] + 1
    <3>1. /\ Printed(copy[c], copyCount[c], Capacity[c]) \in Seq(Nat)
          /\ Len(Printed(copy[c], copyCount[c], Capacity[c]))
               <= Len(copy[c]) + 1
      BY <2>1, PrintedProperties
    <3>2. Len(copy[c]) \in Nat
          /\ Len(Printed(copy[c], copyCount[c], Capacity[c])) \in Nat
      BY <2>1, <3>1
    <3>3. <<>> \in Seq(Nat) /\ Len(<<>>) = 0
      OBVIOUS
    <3> QED
      BY <2>1, <3>1, <3>2, <3>3 DEF Unprinted
  <2>3. Rest(c) \in Seq(Nat)
    BY <2>1, PrintedProperties DEF Rest
  <2>4. Before(c) \in Seq(Nat)
        /\ Len(Before(c)) = Len(out[c]) + Len(Unprinted(c))
    BY <2>1, <2>2, ConcatProperties DEF Before
  <2>5. /\ Len(Before(c) \o Rest(c)) = Len(Before(c)) + Len(Rest(c))
        /\ Before(c) \o Rest(c) \in Seq(Nat)
    BY <2>3, <2>4, ConcatProperties
  <2> QED
    BY <2>1, <2>2, <2>3, <2>4, <2>5
<1> QED
  BY <1>1, <1>2

(* A request is kept, or it is lost behind a full array and leaves a mark. *)
LEMMA AppendImplements ==
  ASSUME TypeOK, NumberInv, NEW c \in Channel, AppendLog(c),
         UNCHANGED <<copy, copyCount, out>>,
         logPc' = logPc \/ (logPc = "own" /\ logPc' = "read")
  PROVE  Abstract!Keep(c) \/ Abstract!Lose(c)
<1>0. /\ issued \in [Channel -> Nat] /\ buf \in [Channel -> Seq(Nat)]
      /\ count \in [Channel -> Nat] /\ Capacity[c] \in Nat \ {0}
      /\ FitsArray(buf[c], count[c], Capacity[c])
      /\ issued[c] \in Nat /\ buf[c] \in Seq(Nat) /\ count[c] \in Nat
      /\ Len(buf[c]) \in Nat
  <2>1. /\ issued \in [Channel -> Nat] /\ buf \in [Channel -> Seq(Nat)]
        /\ count \in [Channel -> Nat] /\ Capacity[c] \in Nat \ {0}
        /\ FitsArray(buf[c], count[c], Capacity[c])
    BY Sizes DEF TypeOK
  <2>2. issued[c] \in Nat /\ buf[c] \in Seq(Nat) /\ count[c] \in Nat
    BY ONLY <2>1, c \in Channel
  <2>3. Len(buf[c]) \in Nat
    BY ONLY <2>2
  <2> QED
    BY ONLY <2>1, <2>2, <2>3
<1>1. issued' = [issued EXCEPT ![c] = issued[c] + 1]
  BY DEF AppendLog
<1>2. \A d \in Channel : Before(d)' = Before(d)
  BY DEF Before, Unprinted, Channel
<1>3. Delivered' = Delivered
  BY DEF Delivered
<1>4. /\ Record = [d \in Channel |-> Before(d) \o Rest(d)]
      /\ Record' = [d \in Channel |-> Before(d) \o Rest(d)']
      /\ Record \in [Channel -> Seq(Nat)]
  <2>1. Record' = [d \in Channel |-> Before(d)' \o Rest(d)']
    BY DEF Record, Before, Rest
  <2> QED
    BY <1>2, <2>1, RecordParts
<1>5. \A d \in Channel : d # c => Rest(d)' = Rest(d)
  BY <1>0 DEF AppendLog, Rest
<1>6. /\ Before(c) \in Seq(Nat) /\ Rest(c) \in Seq(Nat)
      /\ Len(Record[c]) - Delivered[c] = Len(Unprinted(c)) + Len(Rest(c))
      /\ Len(Unprinted(c)) \in 0..(Capacity[c] + 1)
      /\ Record[c] = Before(c) \o Rest(c)
  <2>1. /\ out[c] \in Seq(Nat) /\ Unprinted(c) \in Seq(Nat)
        /\ Before(c) \in Seq(Nat) /\ Rest(c) \in Seq(Nat)
        /\ Len(Unprinted(c)) <= Capacity[c] + 1
        /\ Len(Record[c]) = Len(out[c]) + Len(Unprinted(c)) + Len(Rest(c))
        /\ Record[c] = Before(c) \o Rest(c)
    BY RecordParts
  <2>2. Len(out[c]) \in Nat /\ Len(Unprinted(c)) \in Nat /\ Len(Rest(c)) \in Nat
    BY ONLY <2>1
  <2>3. Delivered[c] = Len(out[c])
    BY DEF Delivered
  <2>4. Len(Record[c]) - Delivered[c] = Len(Unprinted(c)) + Len(Rest(c))
    <3>1. Len(Record[c]) = Len(out[c]) + Len(Unprinted(c)) + Len(Rest(c))
      BY <2>1
    <3>2. PICK o, u, r \in Nat :
            o = Len(out[c]) /\ u = Len(Unprinted(c)) /\ r = Len(Rest(c))
      BY ONLY <2>2
    <3>3. Len(Record[c]) = o + u + r /\ Delivered[c] = o
      BY ONLY <2>3, <3>1, <3>2
    <3>4. (o + u + r) - o = u + r
      BY ONLY o \in Nat, u \in Nat, r \in Nat
    <3> QED
      BY ONLY <3>2, <3>3, <3>4
  <2>5. Len(Unprinted(c)) \in 0..(Capacity[c] + 1)
    BY ONLY <1>0, <2>1, <2>2
  <2> QED
    BY ONLY <2>1, <2>4, <2>5
<1>7. ASSUME NEW x \in Nat, Rest(c)' = Append(Rest(c), x)
      PROVE  Record' = [Record EXCEPT ![c] = Append(Record[c], x)]
  <2>1. Before(c) \o Rest(c)' = Append(Record[c], x)
    BY <1>6, <1>7, ConcatAppend
  <2> QED
    BY <1>4, <1>5, <2>1
<1>8. CASE count[c] < Capacity[c]
  <2>1. /\ buf' = [buf EXCEPT ![c] = Append(buf[c], issued[c] + 1)]
        /\ count' = [count EXCEPT ![c] = count[c] + 1]
    BY <1>0, <1>8 DEF AppendLog
  <2>2. /\ buf'[c] = Append(buf[c], issued[c] + 1) /\ count'[c] = count[c] + 1
        /\ buf'[c] \in Seq(Nat) /\ count'[c] \in Nat
        /\ count'[c] <= Capacity[c] /\ count[c] <= Capacity[c]
        /\ count[c] = Len(buf[c])
    BY <1>0, <1>8, <2>1 DEF FitsArray
  <2>3. Rest(c) = buf[c] /\ Rest(c)' = Append(buf[c], issued[c] + 1)
    <3>1. Rest(c) = buf[c]
      BY <1>0, <2>2, PrintedProperties DEF Rest
    <3>2. Printed(buf'[c], count'[c], Capacity[c]) = buf'[c]
      <4>1. Capacity[c] \in Nat
        BY <1>0
      <4>2. \A b \in Seq(Nat), n, cap \in Nat :
              n <= cap => Printed(b, n, cap) = b
        BY PrintedProperties
      <4> QED
        BY ONLY <2>2, <4>1, <4>2
    <3>3. Rest(c)' = Printed(buf'[c], count'[c], Capacity[c])
      BY DEF Rest
    <3> QED
      BY <2>2, <3>1, <3>2, <3>3
  <2>4. Record' = [Record EXCEPT ![c] = Append(Record[c], issued[c] + 1)]
    BY <1>0, <1>7, <2>3
  <2>5. Len(Record[c]) - Delivered[c] <= 2 * Capacity[c]
    BY <1>0, <1>6, <1>8, <2>2, <2>3
  <2> QED
    BY <1>1, <1>3, <2>4, <2>5 DEF Abstract!Keep, Abstract!Undelivered, Delivered
<1>9. CASE count[c] >= Capacity[c]
  <2>1. /\ buf' = buf /\ Len(buf[c]) = Capacity[c]
        /\ count'[c] = Capacity[c] + 1
        /\ count[c] \in {Capacity[c], Capacity[c] + 1}
    BY <1>0, <1>9 DEF AppendLog, FitsArray
  <2>2. Rest(c)' = Append(buf[c], Lost)
    BY <1>0, <2>1, PrintedProperties DEF Rest
  <2>3. Len(Record[c]) - Delivered[c] >= Capacity[c]
    <3>1. Len(Rest(c)) >= Len(buf[c]) /\ Len(Rest(c)) \in Nat
      BY <1>0, <1>6, PrintedProperties DEF Rest
    <3> QED
      BY <1>0, <1>6, <2>1, <3>1
  <2>4. CASE count[c] = Capacity[c]
    <3>1. Rest(c) = buf[c]
      BY <1>0, <2>4, PrintedProperties DEF Rest
    <3>2. Record' = [Record EXCEPT ![c] = Append(Record[c], Lost)]
      BY <1>7, <2>2, <3>1 DEF Lost
    <3>3. ~Abstract!EndsLost(c)
      <4>1. /\ Len(Record[c]) = Len(Before(c)) + Len(buf[c])
            /\ Record[c][Len(Record[c])] = buf[c][Len(buf[c])]
        BY <1>0, <1>6, <2>1, <3>1, ConcatProperties
      <4>2. buf[c][Len(buf[c])] # Lost
        BY <1>0, <2>1 DEF NumberInv
      <4> QED
        BY <4>1, <4>2 DEF Abstract!EndsLost, Abstract!Lost, Lost
    <3> QED
      BY <1>1, <1>3, <2>3, <3>2, <3>3
      DEF Abstract!Lose, Abstract!Undelivered, Abstract!Lost, Lost, Delivered
  <2>5. CASE count[c] = Capacity[c] + 1
    <3>1. Rest(c) = Append(buf[c], Lost)
      BY <1>0, <2>5, PrintedProperties DEF Rest
    <3>2. Record' = Record
      BY <1>4, <1>5, <2>2, <3>1
    <3>3. Abstract!EndsLost(c)
      <4>1. Record[c] = Append(Before(c) \o buf[c], Lost)
        BY <1>0, <1>6, <3>1, ConcatAppend DEF Lost
      <4>2. Before(c) \o buf[c] \in Seq(Nat)
        BY <1>0, <1>6
      <4> QED
        BY <4>1, <4>2, AppendProperties DEF Abstract!EndsLost, Abstract!Lost, Lost
    <3> QED
      BY <1>1, <1>3, <2>3, <3>2, <3>3
      DEF Abstract!Lose, Abstract!Undelivered, Delivered
  <2> QED
    BY <2>1, <2>4, <2>5
<1> QED
  BY <1>0, <1>8, <1>9

(* The logging thread's read moves the record's end into its hands.        *)
LEMMA ReadImplements ==
  ASSUME TypeOK, LogRead
  PROVE  UNCHANGED A
<1>1. /\ logPc = "read" /\ logPc' = "message"
      /\ copy' = buf /\ copyCount' = count
      /\ buf' = [c \in Channel |-> <<>>] /\ count' = [c \in Channel |-> 0]
      /\ UNCHANGED <<out, issued>>
  BY DEF LogRead, Empty, Zero
<1>2. ASSUME NEW c \in Channel
      PROVE  (Before(c) \o Rest(c))' = Before(c) \o Rest(c)
  <2>1. out[c] \in Seq(Nat) /\ Rest(c) \in Seq(Nat) /\ Capacity[c] \in Nat
    BY RecordParts, Sizes
  <2>2. Unprinted(c) = <<>>
    BY <1>1 DEF Unprinted, Channel
  <2>3. Unprinted(c)' = Rest(c)
    BY <1>1 DEF Unprinted, Rest
  <2>4. Rest(c)' = <<>>
    <3>1. Rest(c)' = Printed(<<>>, 0, Capacity[c])
      BY <1>1 DEF Rest
    <3>2. Printed(<<>>, 0, Capacity[c]) = <<>>
      BY <2>1, PrintedEmpty
    <3> QED
      BY <3>1, <3>2
  <2>5. Before(c) = out[c]
    BY <2>1, <2>2, ConcatEmptySeq DEF Before
  <2>6. Before(c)' = out[c] \o Rest(c)
    BY <1>1, <2>3 DEF Before
  <2>7. out[c] \o Rest(c) \in Seq(Nat)
    BY <2>1
  <2>8. (Before(c) \o Rest(c))' = (out[c] \o Rest(c)) \o <<>>
    BY <2>4, <2>6
  <2> QED
    BY <2>5, <2>7, <2>8, ConcatEmptySeq
<1>3. Record' = Record
  BY <1>2 DEF Record, Before, Rest
<1> QED
  BY <1>1, <1>3 DEF A, Delivered

(* Printing delivers what was in its hands.                                *)
LEMMA PrintImplements ==
  ASSUME TypeOK, NEW c \in Channel, LogPrint(c), final \in {0, 1}
  PROVE  Abstract!Deliver(c)
<1>1. /\ logPc = c /\ logPc' = IF c = "message" THEN "entry" ELSE AfterPass
      /\ out' = [out EXCEPT
             ![c] = out[c] \o Printed(copy[c], copyCount[c], Capacity[c])]
      /\ copyCount' = [copyCount EXCEPT
             ![c] = IF copyCount[c] > Capacity[c] THEN Capacity[c]
                    ELSE copyCount[c]]
      /\ UNCHANGED <<buf, count, issued, copy>>
      /\ out \in [Channel -> Seq(Nat)] /\ copyCount \in [Channel -> Nat]
  BY DEF LogPrint, chans, TypeOK
<1>2. \A d \in Channel : Rest(d)' = Rest(d)
  BY <1>1 DEF Rest
<1>3. Unprinted(c) = Printed(copy[c], copyCount[c], Capacity[c])
      /\ Unprinted(c)' = <<>>
  BY <1>1 DEF Unprinted, Channel, AfterPass
<1>4. out'[c] = Before(c) /\ \A d \in Channel : d # c => out'[d] = out[d]
  BY <1>1, <1>3 DEF Before
<1>5. Before(c)' = Before(c)
  <2>1. Before(c) \in Seq(Nat)
    BY RecordParts
  <2>2. Before(c)' = Before(c) \o <<>>
    BY <1>3, <1>4 DEF Before
  <2> QED
    BY <2>1, <2>2, ConcatEmptySeq
<1>6. ASSUME NEW d \in Channel, d # c  PROVE Before(d)' = Before(d)
  <2>1. Unprinted(d)' = Unprinted(d)
    <3>1. copyCount'[d] = copyCount[d] /\ copy'[d] = copy[d]
      BY <1>1, <1>6
    <3>2. (logPc' = "message" \/ logPc' = d) <=> (logPc = "message" \/ logPc = d)
      BY <1>1, <1>6 DEF Channel, AfterPass
    <3> QED
      BY <3>1, <3>2 DEF Unprinted
  <2> QED
    BY <1>4, <1>6, <2>1 DEF Before
<1>7. Record' = Record
  BY <1>2, <1>5, <1>6 DEF Record, Before, Rest
<1>8. Len(Before(c)) \in Delivered[c]..Len(Record[c])
  <2>1. /\ out[c] \in Seq(Nat) /\ Unprinted(c) \in Seq(Nat) /\ Rest(c) \in Seq(Nat)
        /\ Len(Record[c]) = Len(out[c]) + Len(Unprinted(c)) + Len(Rest(c))
    BY RecordParts
  <2>2. Len(Before(c)) = Len(out[c]) + Len(Unprinted(c))
    BY <2>1, ConcatProperties DEF Before
  <2>3. Delivered[c] = Len(out[c])
    BY DEF Delivered
  <2>4. Len(out[c]) \in Nat /\ Len(Unprinted(c)) \in Nat /\ Len(Rest(c)) \in Nat
    BY <2>1
  <2> QED
    BY ONLY <2>1, <2>2, <2>3, <2>4
<1>9. Delivered' = [Delivered EXCEPT ![c] = Len(Before(c))]
  BY <1>4 DEF Delivered
<1> QED
  BY <1>1, <1>7, <1>8, <1>9 DEF Abstract!Deliver, Delivered

(* Every step of the program is a step of LossyLog, or changes nothing in  *)
(* it.                                                                     *)
LEMMA StepImplements ==
  ASSUME IInv, NumberInv, [Next]_vars
  PROVE  [Abstract!Next]_A
<1>0. TypeOK /\ final \in {0, 1}
  BY DEF IInv, TypeOK
<1>1. ASSUME NEW c \in Channel, AppendLog(c),
             UNCHANGED <<copy, copyCount, out>>,
             logPc' = logPc \/ (logPc = "own" /\ logPc' = "read")
      PROVE  [Abstract!Next]_A
  BY <1>0, <1>1, AppendImplements DEF Abstract!Next
<1>2. CASE LogRead
  BY <1>0, <1>2, ReadImplements
<1>3. ASSUME NEW c \in Channel, LogPrint(c)  PROVE [Abstract!Next]_A
  BY <1>0, <1>3, PrintImplements DEF Abstract!Next
<1>4. CASE /\ UNCHANGED <<chans, copy, copyCount, out>>
           /\ \/ logPc \notin Channel /\ logPc' \notin Channel
              \/ logPc' = logPc
  <2>1. \A c \in Channel : Before(c)' = Before(c) /\ Rest(c)' = Rest(c)
    BY <1>4 DEF Before, Rest, Unprinted, chans, Channel
  <2>2. Record' = Record
    BY <2>1 DEF Record, Before, Rest
  <2> QED
    BY <1>4, <2>2 DEF A, Delivered, chans
<1>5. ASSUME NEW c \in Channel, OtherThreadLogs(c)  PROVE [Abstract!Next]_A
  BY <1>1, <1>5 DEF OtherThreadLogs
<1>6. CASE LogLoop \/ LogReadFails
  BY <1>4, <1>6 DEF LogLoop, LogReadFails, AfterPass, Channel
<1>7. CASE LogOwnEntry
  BY <1>1, <1>4, <1>7, Sizes DEF LogOwnEntry, Channel
<1>8. CASE ConsoleFatal \/ ConsoleHandled
  BY <1>1, <1>8, Sizes DEF ConsoleFatal, ConsoleHandled, ConsoleRest
<1>9. CASE ConsoleQuit \/ ConsoleFatalStop \/ ConsoleInputEnds \/ ConsoleExit
           \/ handle_sigint \/ UNCHANGED vars
  BY <1>4, <1>9 DEF ConsoleQuit, ConsoleFatalStop, ConsoleInputEnds,
                    ConsoleExit, handle_sigint, ConsoleRest, vars
<1> QED
  BY <1>2, <1>3, <1>5, <1>6, <1>7, <1>8, <1>9
  DEF Next, LogThread, Console

(* The first state: nothing on record.                                     *)
LEMMA InitImplements ==
  Init => NumberInv /\ Abstract!Init
<1> SUFFICES ASSUME Init  PROVE NumberInv /\ Abstract!Init
  OBVIOUS
<1>1. \A c \in Channel : /\ buf[c] = <<>> /\ out[c] = <<>> /\ count[c] = 0
                         /\ Unprinted(c) = <<>>
  BY DEF Init, Empty, Zero, Unprinted, Channel
<1>2. NumberInv
  BY <1>1 DEF NumberInv
<1>3. ASSUME NEW c \in Channel  PROVE Before(c) \o Rest(c) = <<>>
  <2>1. Rest(c) = <<>>
    BY <1>1, Sizes, PrintedEmpty DEF Rest
  <2> QED
    BY <1>1, <2>1 DEF Before
<1>4. Record = [c \in Channel |-> <<>>]
  BY <1>3 DEF Record, Before, Rest
<1>5. Delivered = [c \in Channel |-> 0]
  BY <1>1 DEF Delivered
<1> QED
  BY <1>2, <1>4, <1>5 DEF Init, Zero, Abstract!Init, Delivered

(* No mark is ever stored among the logs.                                  *)
THEOREM NumberInvariance == Spec => []NumberInv
BY InitImplements, NumberStep, Invariance, PTL DEF Spec

(* The two buffers, the thread that empties them and their counts are a    *)
(* lossy log, for every size of the arrays: in order, nothing twice,       *)
(* nothing lost before the array is full.                                  *)
THEOREM Refinement == Spec => ImplementsLossyLog
<1>1. Init => Abstract!Init
  BY InitImplements
<1>2. IInv /\ NumberInv /\ [Next]_vars
        => [Abstract!Next]_(Abstract!vars)
  BY StepImplements DEF A, Delivered, Abstract!vars
<1> QED
  BY <1>1, <1>2, Invariance, NumberInvariance, PTL
  DEF Spec, ImplementsLossyLog, Abstract!Spec

----
(* A record of one channel, after n requests, in which every gap is under  *)
(* a mark.                                                                 *)
Ends(r) == r # <<>> /\ r[Len(r)] = 0
Marked(n, r) ==
  /\ \A i \in 1..(Len(r) - 1) : r[i] # 0 /\ r[i + 1] # 0 => r[i + 1] = r[i] + 1
  /\ r # <<>> /\ r[1] # 0 => r[1] = 1
  /\ ~Ends(r) => n = IF r = <<>> THEN 0 ELSE r[Len(r)]

(* It stays so when the next request is kept, is lost with a new mark, or  *)
(* is lost under the mark at the end.                                      *)
LEMMA MarkedStep ==
  ASSUME NEW n \in Nat, NEW r \in Seq(Nat), Marked(n, r)
  PROVE  /\ Marked(n + 1, Append(r, n + 1))
         /\ Marked(n + 1, Append(r, 0))
         /\ Ends(r) => Marked(n + 1, r)
<1>1. ASSUME NEW x \in {0, n + 1}  PROVE Marked(n + 1, Append(r, x))
  <2> DEFINE s == Append(r, x)
  <2>1. /\ x \in Nat /\ s # <<>> /\ Len(s) = Len(r) + 1 /\ Len(r) \in Nat
        /\ \A i \in 1..Len(r) : s[i] = r[i]
        /\ s[Len(s)] = x
    BY AppendProperties
  <2>2. r # <<>> => Len(r) \in 1..Len(r)
    BY <2>1, EmptySeq
  <2>3. r = <<>> => Len(r) = 0
    OBVIOUS
  <2> HIDE DEF s
  <2>4. ASSUME NEW i \in 1..(Len(s) - 1), s[i] # 0, s[i + 1] # 0
        PROVE  s[i + 1] = s[i] + 1
    <3>1. i \in 1..Len(r) /\ s[i] = r[i]
      BY <2>1, <2>4
    <3>2. CASE i = Len(r)
      <4>1. r # <<>> /\ r[Len(r)] # 0
        BY <2>3, <2>4, <3>1, <3>2
      <4>2. n = r[Len(r)]
        BY <4>1 DEF Marked, Ends
      <4>3. s[i + 1] = n + 1
        BY <2>1, <2>4, <3>2
      <4> QED
        BY <3>1, <3>2, <4>2, <4>3
    <3>3. CASE i < Len(r)
      <4>1. i \in 1..(Len(r) - 1) /\ i + 1 \in 1..Len(r)
        BY <2>1, <3>1, <3>3
      <4>2. s[i + 1] = r[i + 1]
        BY <2>1, <4>1
      <4> QED
        BY <2>4, <3>1, <4>1, <4>2 DEF Marked
    <3> QED
      BY <2>1, <3>1, <3>2, <3>3
  <2>5. s[1] # 0 => s[1] = 1
    <3>1. CASE r = <<>>
      <4>1. s[1] = x
        BY <2>1, <2>3, <3>1
      <4>2. n = 0
        BY <3>1 DEF Marked, Ends
      <4> QED
        BY <4>1, <4>2
    <3>2. CASE r # <<>>
      <4>1. 1 \in 1..Len(r)
        BY <2>1, <2>2, <3>2
      <4> QED
        BY <2>1, <3>2, <4>1 DEF Marked
    <3> QED
      BY <3>1, <3>2
  <2>6. ~Ends(s) => n + 1 = s[Len(s)]
    BY <2>1 DEF Ends
  <2>7. Marked(n + 1, s)
    BY <2>1, <2>4, <2>5, <2>6 DEF Marked
  <2> QED
    BY <2>7 DEF s
<1>2. Ends(r) => Marked(n + 1, r)
  BY DEF Marked
<1> QED
  BY <1>1, <1>2

(* The gaps of all channels.                                               *)
LEMMA AllMarked ==
  /\ LossIsRecorded <=> \A c \in Channel : Marked(issued[c], Record[c])
  /\ LossIsRecorded' <=> \A c \in Channel : Marked(issued'[c], Record[c]')
BY DEF LossIsRecorded, Abstract!GapsAreMarked, Abstract!EndsLost,
       Abstract!Lost, Marked, Ends

(* Every step of LossyLog keeps every gap under a mark.                    *)
LEMMA GapsStep ==
  ASSUME TypeOK, LossIsRecorded, [Abstract!Next]_A
  PROVE  LossIsRecorded'
<1>1. /\ issued \in [Channel -> Nat] /\ Record \in [Channel -> Seq(Nat)]
      /\ \A c \in Channel : Marked(issued[c], Record[c])
  BY RecordParts, AllMarked DEF TypeOK
<1>2. ASSUME NEW c \in Channel, Abstract!Keep(c) \/ Abstract!Lose(c)
      PROVE  LossIsRecorded'
  <2>1. issued[c] \in Nat /\ Record[c] \in Seq(Nat) /\ Marked(issued[c], Record[c])
    BY <1>1
  <2>2. issued' = [issued EXCEPT ![c] = issued[c] + 1]
    BY <1>2 DEF Abstract!Keep, Abstract!Lose
  <2>3. \/ Record' = [Record EXCEPT ![c] = Append(Record[c], issued[c] + 1)]
        \/ Record' = [Record EXCEPT ![c] = Append(Record[c], 0)]
        \/ Record' = Record /\ Ends(Record[c])
    BY <1>2 DEF Abstract!Keep, Abstract!Lose, Abstract!EndsLost,
                Abstract!Lost, Ends
  <2>4. Marked(issued'[c], Record'[c])
    BY <1>1, <2>1, <2>2, <2>3, MarkedStep
  <2>5. \A d \in Channel : d # c => /\ issued'[d] = issued[d]
                                    /\ Record'[d] = Record[d]
    BY <1>1, <2>2, <2>3
  <2>6. \A d \in Channel : Marked(issued'[d], Record'[d])
    BY <1>1, <2>4, <2>5
  <2> QED
    BY <2>6, AllMarked
<1>3. CASE issued' = issued /\ Record' = Record
  BY <1>1, <1>3, AllMarked
<1> QED
  BY <1>2, <1>3 DEF Abstract!Next, Abstract!Deliver, A

(* Every lost log is under a warning, for every size of the arrays: on     *)
(* paper, in the logging thread's hands or still due.                      *)
THEOREM LossCorrect == Spec => []LossIsRecorded
<1>1. Init => LossIsRecorded
  <2> SUFFICES ASSUME Init  PROVE LossIsRecorded
    OBVIOUS
  <2>1. \A c \in Channel : issued[c] = 0 /\ Record[c] = <<>>
    BY InitImplements DEF Abstract!Init
  <2>2. Marked(0, <<>>)
    BY DEF Marked, Ends
  <2> QED
    BY <2>1, <2>2, AllMarked
<1>2. IInv /\ NumberInv /\ LossIsRecorded /\ [Next]_vars => LossIsRecorded'
  BY StepImplements, GapsStep DEF IInv
<1> QED
  BY <1>1, <1>2, Invariance, NumberInvariance, PTL DEF Spec

----
(* A record of one channel, after n requests, in which the numbers rise.   *)
Ordered(n, r) ==
  /\ \A i \in 1..Len(r) : r[i] <= n
  /\ \A i, j \in 1..Len(r) : i < j /\ r[j] # 0 => r[i] < r[j]

OrderInv == \A c \in Channel : Ordered(issued[c], Record[c])

(* They rise when the next request is kept or lost, with a mark or without.*)
LEMMA OrderedStep ==
  ASSUME NEW n \in Nat, NEW r \in Seq(Nat), Ordered(n, r)
  PROVE  /\ Ordered(n + 1, Append(r, n + 1))
         /\ Ordered(n + 1, Append(r, 0))
         /\ Ordered(n + 1, r)
<1>1. \A i \in 1..Len(r) : r[i] \in Nat /\ r[i] <= n
  BY DEF Ordered
<1>2. ASSUME NEW x \in {0, n + 1}  PROVE Ordered(n + 1, Append(r, x))
  <2> DEFINE s == Append(r, x)
  <2>1. /\ x \in Nat /\ Len(s) = Len(r) + 1 /\ Len(r) \in Nat
        /\ \A i \in 1..Len(r) : s[i] = r[i]
        /\ s[Len(r) + 1] = x
    BY AppendProperties
  <2> HIDE DEF s
  <2>2. \A i \in 1..Len(s) : i \in 1..Len(r) \/ i = Len(r) + 1
    BY <2>1
  <2>3. \A i \in 1..Len(s) : s[i] <= n + 1
    BY <1>1, <2>1, <2>2
  <2>4. ASSUME NEW i \in 1..Len(s), NEW j \in 1..Len(s), i < j, s[j] # 0
        PROVE  s[i] < s[j]
    <3>1. i \in 1..Len(r)
      BY <2>1, <2>4
    <3>2. CASE j \in 1..Len(r)
      BY <2>1, <2>4, <3>1, <3>2 DEF Ordered
    <3>3. CASE j = Len(r) + 1
      <4>1. s[j] = n + 1 /\ s[i] = r[i]
        BY <2>1, <2>4, <3>1, <3>3
      <4> QED
        BY <1>1, <3>1, <4>1
    <3> QED
      BY <2>2, <3>2, <3>3
  <2>5. Ordered(n + 1, s)
    BY <2>3, <2>4 DEF Ordered
  <2> QED
    BY <2>5 DEF s
<1>3. Ordered(n + 1, r)
  BY <1>1 DEF Ordered
<1> QED
  BY <1>2, <1>3

(* Every step of LossyLog keeps the numbers rising.                        *)
LEMMA OrderStep ==
  ASSUME TypeOK, OrderInv, [Abstract!Next]_A
  PROVE  OrderInv'
<1>1. /\ issued \in [Channel -> Nat] /\ Record \in [Channel -> Seq(Nat)]
      /\ \A c \in Channel : Ordered(issued[c], Record[c])
  BY RecordParts DEF TypeOK, OrderInv
<1>2. ASSUME NEW c \in Channel, Abstract!Keep(c) \/ Abstract!Lose(c)
      PROVE  OrderInv'
  <2>1. issued[c] \in Nat /\ Record[c] \in Seq(Nat) /\ Ordered(issued[c], Record[c])
    BY <1>1
  <2>2. issued' = [issued EXCEPT ![c] = issued[c] + 1]
    BY <1>2 DEF Abstract!Keep, Abstract!Lose
  <2>3. \/ Record' = [Record EXCEPT ![c] = Append(Record[c], issued[c] + 1)]
        \/ Record' = [Record EXCEPT ![c] = Append(Record[c], 0)]
        \/ Record' = Record
    BY <1>2 DEF Abstract!Keep, Abstract!Lose, Abstract!Lost
  <2>4. Ordered(issued'[c], Record'[c])
    BY <1>1, <2>1, <2>2, <2>3, OrderedStep
  <2>5. \A d \in Channel : d # c => /\ issued'[d] = issued[d]
                                    /\ Record'[d] = Record[d]
    BY <1>1, <2>2, <2>3
  <2>6. \A d \in Channel : Ordered(issued'[d], Record'[d])
    BY <1>1, <2>4, <2>5
  <2> QED
    BY <2>6 DEF OrderInv
<1>3. CASE issued' = issued /\ Record' = Record
  BY <1>1, <1>3 DEF OrderInv
<1> QED
  BY <1>2, <1>3 DEF Abstract!Next, Abstract!Deliver, A

(* What is printed on a channel is in the order of the requests, and no    *)
(* log is printed twice: neither a failed read nor a copy that is not      *)
(* cleared repeats one (logging_thread.c).                                 *)
PrintedInOrder ==
  \A c \in Channel : \A i, j \in 1..Len(out[c]) :
    i < j /\ out[c][j] # Lost => out[c][i] < out[c][j]

(* Nothing is printed twice or out of order, for every size of the arrays. *)
THEOREM OrderCorrect == Spec => []PrintedInOrder
<1>1. Init => OrderInv
  <2> SUFFICES ASSUME Init  PROVE OrderInv
    OBVIOUS
  <2>1. \A c \in Channel : issued[c] = 0 /\ Record[c] = <<>>
    BY InitImplements DEF Abstract!Init
  <2> QED
    BY <2>1 DEF OrderInv, Ordered
<1>2. IInv /\ NumberInv /\ OrderInv /\ [Next]_vars => OrderInv'
  BY StepImplements, OrderStep DEF IInv
<1>3. IInv /\ OrderInv => PrintedInOrder
  <2> SUFFICES ASSUME TypeOK, OrderInv, NEW c \in Channel,
                      NEW i \in 1..Len(out[c]), NEW j \in 1..Len(out[c]),
                      i < j, out[c][j] # 0
               PROVE  out[c][i] < out[c][j]
    BY DEF IInv, PrintedInOrder, Lost
  <2>1. /\ out[c] \in Seq(Nat) /\ Unprinted(c) \in Seq(Nat)
        /\ Before(c) \in Seq(Nat) /\ Rest(c) \in Seq(Nat)
        /\ Record[c] = Before(c) \o Rest(c)
        /\ Before(c) = out[c] \o Unprinted(c)
    BY RecordParts DEF Before
  <2>2. /\ Len(out[c]) \in Nat /\ Len(Unprinted(c)) \in Nat
        /\ Len(Rest(c)) \in Nat
    BY ONLY <2>1
  <2>3. /\ Len(Before(c)) = Len(out[c]) + Len(Unprinted(c))
        /\ Len(Record[c]) = Len(Before(c)) + Len(Rest(c))
        /\ \A k \in 1..Len(out[c]) : Before(c)[k] = out[c][k]
        /\ \A k \in 1..Len(Before(c)) : Record[c][k] = Before(c)[k]
    BY ONLY <2>1, <2>2, ConcatProperties
  <2>4. \A k \in 1..Len(out[c]) : /\ k \in 1..Len(Record[c])
                                  /\ Record[c][k] = out[c][k]
    BY ONLY <2>2, <2>3
  <2>5. Ordered(issued[c], Record[c])
    BY DEF OrderInv
  <2> QED
    BY <2>4, <2>5 DEF Ordered
<1> QED
  BY <1>1, <1>2, <1>3, Invariance, NumberInvariance, PTL DEF Spec

====
