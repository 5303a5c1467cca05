---- MODULE Logging ----
(***************************************************************************)
(* logging_state and the logging thread: every thread appends messages     *)
(* (for stdout) and entries (for the log file) to two bounded buffers      *)
(* under one mutex; the logging thread copies and clears both, then prints *)
(* the copy without the mutex.  When the program stops it makes one last   *)
(* pass.                                                                   *)
(*                                                                         *)
(* A log is the number of its request on its channel; its text and         *)
(* timestamp are abstracted, and so is a failing write to the log file,    *)
(* which is answered with a warning in place of the log.  Lock failures of *)
(* an append are left out: its caller ignores the result and goes on.      *)
(***************************************************************************)
EXTENDS Integers, Sequences

CONSTANTS MAX_MESSAGES, MAX_LOG_ENTRIES,
          MaxLogs,     \* bound: requests per channel, but the console's last
          MaxFaults    \* bound: failing reads of the logging state

ASSUME LoggingAssumption ==
  /\ MAX_MESSAGES \in Nat \ {0}
  /\ MAX_LOG_ENTRIES \in Nat \ {0}
  /\ MaxLogs \in Nat
  /\ MaxFaults \in Nat

VARIABLES
  buf, count,        \* per channel: logging_state_shared.logging_state
  copy, copyCount,   \* per channel: the logging thread's logging_state
  out,               \* per channel: what is printed; Lost is the warning
  issued,            \* per channel: requests so far
  stop,              \* stop.c
  stopMark,          \* history: issued when stop was set
  logPc, final,      \* final is 1 in the pass after the loop
  consPc,
  faults

chans == <<buf, count, issued>>
vars == <<chans, copy, copyCount, out, stop, stopMark, logPc, final, consPc,
          faults>>

Channel == {"message", "entry"}
Capacity == [message |-> MAX_MESSAGES, entry |-> MAX_LOG_ENTRIES]
Lost == 0
Empty == [c \in Channel |-> <<>>]
Zero == [c \in Channel |-> 0]

Init ==
  /\ buf = Empty /\ count = Zero
  /\ copy = Empty /\ copyCount = Zero
  /\ out = Empty
  /\ issued = Zero
  /\ stop = 0 /\ stopMark = Zero
  /\ logPc = "loop" /\ final = 0
  /\ consPc = "run"
  /\ faults = 0

----
(* Mutant: one log more than the array holds.                              *)
AppendLogPastEnd(c) ==
  /\ issued' = [issued EXCEPT ![c] = @ + 1]
  /\ IF count[c] > Capacity[c]
     THEN UNCHANGED <<buf, count>>
     ELSE /\ buf' = [buf EXCEPT ![c] = Append(@, issued[c] + 1)]
          /\ count' = [count EXCEPT ![c] = @ + 1]

(* logging_state_shared_message and logging_state_shared_entry: a full     *)
(* buffer counts to one past its size, which says that logs were lost.     *)
AppendLog(c) ==
  /\ issued' = [issued EXCEPT ![c] = @ + 1]
  /\ IF count[c] >= Capacity[c]
     THEN /\ UNCHANGED buf
          /\ count' = [count EXCEPT ![c] = Capacity[c] + 1]
     ELSE /\ buf' = [buf EXCEPT ![c] = Append(@, issued[c] + 1)]
          /\ count' = [count EXCEPT ![c] = @ + 1]

(* The other threads log at any time, also between stop and their exit.    *)
OtherThreadLogs(c) ==
  /\ issued[c] < MaxLogs
  /\ AppendLog(c)
  /\ UNCHANGED <<copy, copyCount, out, stop, stopMark, logPc, final, consPc,
                 faults>>

----
(* Logging thread *)

LogRest == <<stop, stopMark, consPc>>

(* Mutant: the thread ends without a last pass.                            *)
LogLoopNoFinalPass ==
  /\ logPc = "loop"
  /\ logPc' = IF stop = 0 THEN "own" ELSE "done"
  /\ UNCHANGED <<chans, copy, copyCount, out, final, faults, LogRest>>

(* The loop test.                                                          *)
LogLoop ==
  /\ logPc = "loop"
  /\ IF stop = 0 THEN logPc' = "own" /\ UNCHANGED final
                 ELSE logPc' = "read" /\ final' = 1
  /\ UNCHANGED <<chans, copy, copyCount, out, faults, LogRest>>

(* Each pass of the loop logs an entry of its own (up to the bound).       *)
LogOwnEntry ==
  /\ logPc = "own"
  /\ IF issued["entry"] < MaxLogs THEN AppendLog("entry") ELSE UNCHANGED chans
  /\ logPc' = "read"
  /\ UNCHANGED <<copy, copyCount, out, final, faults, LogRest>>

AfterPass == IF final = 1 THEN "done" ELSE "loop"

(* logging_state_shared_read: copy and clear, in one critical section.     *)
LogRead ==
  /\ logPc = "read"
  /\ copy' = buf /\ copyCount' = count
  /\ buf' = Empty /\ count' = Zero
  /\ logPc' = "message"
  /\ UNCHANGED <<out, issued, final, faults, LogRest>>

(* Mutant: the old copy is printed once more.                              *)
LogReadFailsPrints ==
  /\ logPc = "read"
  /\ faults < MaxFaults /\ faults' = faults + 1
  /\ logPc' = "message"
  /\ UNCHANGED <<chans, copy, copyCount, out, final, LogRest>>

(* Mutant: the thread gives up.                                            *)
LogReadFailsForGood ==
  /\ logPc = "read"
  /\ faults < MaxFaults /\ faults' = faults + 1
  /\ logPc' = "done"
  /\ UNCHANGED <<chans, copy, copyCount, out, final, LogRest>>

(* The lock fails: nothing is read and nothing printed.                    *)
LogReadFails ==
  /\ logPc = "read"
  /\ faults < MaxFaults /\ faults' = faults + 1
  /\ logPc' = AfterPass
  /\ UNCHANGED <<chans, copy, copyCount, out, final, LogRest>>

(* Mutant: no warning that logs were lost.                                 *)
PrintedNoWarning(b, n, cap) == b

(* A buffer as it is printed: its logs, then the warning if some are lost. *)
Printed(b, n, cap) == b \o (IF n > cap THEN <<Lost>> ELSE <<>>)

(* print_messages, then print_log_entries.  The copy is not cleared: the   *)
(* next successful read overwrites it.                                     *)
LogPrint(c) ==
  /\ logPc = c
  /\ out' = [out EXCEPT
               ![c] = @ \o Printed(copy[c], copyCount[c], Capacity[c])]
  /\ copyCount' = [copyCount EXCEPT ![c] = IF @ > Capacity[c]
                                           THEN Capacity[c] ELSE @]
  /\ logPc' = IF c = "message" THEN "entry" ELSE AfterPass
  /\ UNCHANGED <<chans, copy, final, faults, LogRest>>

LogThread == \/ LogLoop \/ LogOwnEntry \/ LogRead \/ LogReadFails
             \/ \E c \in Channel : LogPrint(c)
----
(* Console thread, as far as it logs around the stop it signals itself,    *)
(* and the signal handler.                                                 *)

ConsoleRest == <<copy, copyCount, out, logPc, final, faults>>

SetStop == /\ stop' = 1
           /\ stopMark' = IF stop = 0 THEN issued ELSE stopMark

(* 'q' sets stop ...                                                       *)
ConsoleQuit ==
  /\ consPc = "run" /\ stop = 0
  /\ SetStop
  /\ consPc' = "stopping"
  /\ UNCHANGED <<chans, ConsoleRest>>

(* ... a failsafe that cannot be read logs its message first, ...          *)
ConsoleFatal ==
  /\ consPc = "run" /\ stop = 0
  /\ AppendLog("message")
  /\ consPc' = "fatal"
  /\ UNCHANGED <<stop, stopMark, ConsoleRest>>

ConsoleFatalStop ==
  /\ consPc = "fatal"
  /\ SetStop
  /\ consPc' = "stopping"
  /\ UNCHANGED <<chans, ConsoleRest>>

(* ... and the entry for the command comes last.                           *)
ConsoleHandled ==
  /\ consPc = "stopping"
  /\ AppendLog("entry")
  /\ consPc' = "done"
  /\ UNCHANGED <<stop, stopMark, ConsoleRest>>

(* At the end of input fgets returns at once, every time: from here on the *)
(* loop neither waits nor logs, and only a stop ends it.                   *)
ConsoleInputEnds ==
  /\ consPc = "run" /\ stop = 0
  /\ consPc' = "spin"
  /\ UNCHANGED <<chans, stop, stopMark, ConsoleRest>>

ConsoleExit ==
  /\ consPc \in {"run", "spin"} /\ stop = 1
  /\ consPc' = "done"
  /\ UNCHANGED <<chans, stop, stopMark, ConsoleRest>>

handle_sigint ==
  /\ SetStop
  /\ UNCHANGED <<chans, consPc, ConsoleRest>>

Console == \/ ConsoleQuit \/ ConsoleFatal \/ ConsoleFatalStop
           \/ ConsoleHandled \/ ConsoleInputEnds \/ ConsoleExit

Next == \/ \E c \in Channel : OtherThreadLogs(c)
        \/ LogThread \/ Console \/ handle_sigint

Spec == Init /\ [][Next]_vars

(* A console that spins keeps a single processor: it is SCHED_FIFO above   *)
(* the logging thread.                                                     *)
ConsoleSpins == consPc = "spin" /\ stop = 0

(* The other threads sleep in each pass, so the logging thread runs as long*)
(* as the console does not spin.  Nothing is assumed while it does, nor of *)
(* the threads that log, of the console or of a stop.                      *)
FairSpec == Spec /\ WF_vars(~ConsoleSpins /\ LogThread)

----
(* Properties *)

(* n says how many logs b holds, or that it is full and logs were lost.    *)
FitsArray(b, n, cap) ==
  Len(b) <= cap /\ (n = Len(b) \/ (n = cap + 1 /\ Len(b) = cap))

(* Types: no buffer holds more than its array, and its count is the number *)
(* of logs or, when logs were lost, one past the size of the array.        *)
TypeOK ==
  /\ issued \in [Channel -> Nat] /\ stopMark \in [Channel -> Nat]
  /\ buf \in [Channel -> Seq(Nat)] /\ copy \in [Channel -> Seq(Nat)]
  /\ out \in [Channel -> Seq(Nat)]
  /\ count \in [Channel -> Nat] /\ copyCount \in [Channel -> Nat]
  /\ \A c \in Channel : FitsArray(buf[c], count[c], Capacity[c])
  /\ \A c \in Channel : Len(copy[c]) <= Capacity[c]
  /\ \A c \in Channel : copyCount[c] \in Len(copy[c])..(Capacity[c] + 1)
  /\ stop \in {0, 1} /\ final \in {0, 1}
  /\ logPc \in {"loop", "own", "read", "done"} \union Channel
  /\ consPc \in {"run", "spin", "fatal", "stopping", "done"}
  /\ faults \in 0..MaxFaults

(* What is not printed yet of the copy, and the record of a channel: what  *)
(* is out, the rest of the copy, the buffer.                               *)
Unprinted(c) ==
  IF logPc = "message" \/ logPc = c
  THEN Printed(copy[c], copyCount[c], Capacity[c]) ELSE <<>>

Record == [c \in Channel |-> out[c] \o Unprinted(c) \o
                              Printed(buf[c], count[c], Capacity[c])]

Abstract == INSTANCE LossyLog
              WITH record <- Record,
                   delivered <- [c \in Channel |-> Len(out[c])]

(* The buffers and the thread that empties them are a lossy log: in order, *)
(* nothing twice, nothing lost before the array is full.                   *)
ImplementsLossyLog == Abstract!Spec

(* Every lost log is under a warning: on paper, in the thread's hands or   *)
(* still due.                                                              *)
LossIsRecorded == Abstract!GapsAreMarked

(* Once the logging thread has ended, what was logged before the stop is   *)
(* printed, unless the logging state could not be read.                    *)
LogsBeforeStopPrinted ==
  logPc = "done" /\ faults = 0 =>
    \A c \in Channel : \A i \in 1..Len(buf[c]) : buf[c][i] > stopMark[c]

(* Whatever is on record gets printed, also after a read that failed,      *)
(* however the other threads log meanwhile and with what a spinning console*)
(* had held up until the stop.  There are two ways out: the console spins, *)
(* or the logging thread has made its last pass, and then                  *)
(* LogsBeforeStopPrinted says what may be left.                            *)
EveryLogGetsOut ==
  \A c \in Channel : \A n \in 1..(MaxLogs + 1) :
    Len(Record[c]) >= n
      ~> \/ Len(out[c]) >= n
         \/ ConsoleSpins
         \/ stop = 1 /\ logPc = "done"

(* logging_thread.c: "print out any final logs that might come from the    *)
(* thread that signals stop".  When the console and the logging thread are *)
(* done, the last entry of the console is not in the buffer any more.  The *)
(* console sets stop before it logs that entry, and the last pass of the   *)
(* logging thread may come in between.                                     *)
FinalLogsPrinted ==
  logPc = "done" /\ consPc = "done" /\ faults = 0 => buf["entry"] = <<>>
====
