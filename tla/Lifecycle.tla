---- MODULE Lifecycle ----
(***************************************************************************)
(* main.c: the resources main initialises one after the other, the threads *)
(* it launches, and the way back from wherever that stops: by a failing    *)
(* step, by 'q' or by a signal.  What the threads do in between is left to *)
(* AirPiano and Logging; here a thread uses its resources until it ends.   *)
(***************************************************************************)
EXTENDS Integers, Sequences

VARIABLES
  phase, step,   \* where main is; step counts within a phase
  inUse,         \* resources whose in_use flag is set (an open log file)
  launched,      \* main_struct.thread_launched_flags
  thread,        \* state of each thread
  errOut,        \* threads that left an error in their err_out
  lastErr,       \* last_err of main_cleanup, as a flag
  ret,           \* exit code
  stop,          \* stop.c
  failed,        \* history: some step has failed
  pinStuck       \* history: an output pin could not be cleared

vars == <<phase, step, inUse, launched, thread, errOut, lastErr, ret, stop,
          failed, pinStuck>>

InitOrder == <<"pins", "distance", "failsafe", "logging", "logfile">>

(* Mutant: the console thread is launched first.                           *)
ThreadOrderConsoleFirst ==
  <<"console", "beam", "distance", "display", "logging">>

ThreadOrder == <<"beam", "distance", "display", "logging", "console">>

(* Mutant: the log file is never closed.                                   *)
CleanupOrderNoFile == <<"distance", "failsafe", "logging", "pins">>

CleanupOrder == <<"distance", "failsafe", "logging", "pins", "logfile">>

Resource == {"pins", "distance", "failsafe", "logging", "logfile"}
Thread == {"beam", "distance", "display", "logging", "console"}

(* What main hands to a thread (pins and distance to the console only in   *)
(* the emulator).                                                          *)
Uses(t) == IF t = "logging" THEN {"logging", "logfile"}
           ELSE {"pins", "distance", "failsafe", "logging"}

(* The beam and distance threads never write their err_out.                *)
Reporting == {"display", "logging", "console"}

Init ==
  /\ phase = "start" /\ step = 1
  /\ inUse = {} /\ launched = {}
  /\ thread = [t \in Thread |-> "none"]
  /\ errOut = {}
  /\ lastErr = FALSE /\ ret = 0
  /\ stop = 0
  /\ failed = FALSE /\ pinStuck = FALSE

(* The next step of this phase, or the next phase.                         *)
Advance(order, next) ==
  IF step < Len(order) THEN step' = step + 1 /\ UNCHANGED phase
                       ELSE step' = 1 /\ phase' = next

----
(* main_init *)

(* Whatever fails in main_init, main signals stop and goes on to cleanup.  *)
InitFails ==
  /\ phase' = "join" /\ step' = 1
  /\ stop' = 1 /\ ret' = 1
  /\ failed' = TRUE

install_handlers ==
  /\ phase = "start"
  /\ \/ phase' = "init" /\ UNCHANGED <<step, stop, ret, failed>>
     \/ InitFails
  /\ UNCHANGED <<inUse, launched, thread, errOut, lastErr, pinStuck>>

(* An init function sets in_use only when everything in it has worked.     *)
InitResource ==
  /\ phase = "init"
  /\ \/ /\ inUse' = inUse \union {InitOrder[step]}
        /\ Advance(InitOrder, "ask")
        /\ UNCHANGED <<stop, ret, failed>>
     \/ InitFails /\ UNCHANGED inUse
  /\ UNCHANGED <<launched, thread, errOut, lastErr, pinStuck>>

(* The note duration is asked for until it is in range; end of input, or a *)
(* signal while waiting for the line, is an error (as is, in the emulator, *)
(* a failing print_uts_info after it).                                     *)
query_note_duration ==
  /\ phase = "ask"
  /\ \/ phase' = "launch" /\ UNCHANGED <<step, stop, ret, failed>>
     \/ InitFails
  /\ UNCHANGED <<inUse, launched, thread, errOut, lastErr, pinStuck>>

(* thread_launched_flags.h: a bit for each thread, as a set.               *)
set_thread_launched(flags, t) == flags \union {t}
is_thread_launched(flags, t) == t \in flags

(* Mutant: the flag is set although pthread_create has failed.             *)
LaunchThreadFlagged ==
  LET t == ThreadOrder[step]
  IN /\ phase = "launch"
     /\ launched' = set_thread_launched(launched, t)
     /\ \/ /\ thread' = [thread EXCEPT ![t] = "running"]
           /\ Advance(ThreadOrder, "join")
           /\ UNCHANGED <<stop, ret, failed>>
        \/ InitFails /\ UNCHANGED thread
     /\ UNCHANGED <<inUse, errOut, lastErr, pinStuck>>

(* pthread_create; the flag is set only if it works.                       *)
LaunchThread ==
  LET t == ThreadOrder[step]
  IN /\ phase = "launch"
     /\ \/ /\ thread' = [thread EXCEPT ![t] = "running"]
           /\ launched' = set_thread_launched(launched, t)
           /\ Advance(ThreadOrder, "join")
           /\ UNCHANGED <<stop, ret, failed>>
        \/ InitFails /\ UNCHANGED <<thread, launched>>
     /\ UNCHANGED <<inUse, errOut, lastErr, pinStuck>>

----
(* The threads, as far as they stop *)

MainVars == <<phase, step, inUse, launched, lastErr, ret, pinStuck>>

(* A thread that sees stop at its loop test ends, with or without an error.*)
ThreadEnds(t) ==
  /\ thread[t] = "running" /\ stop = 1
  /\ thread' = [thread EXCEPT ![t] = "ended"]
  /\ \/ UNCHANGED <<errOut, failed>>
     \/ t \in Reporting /\ errOut' = errOut \union {t} /\ failed' = TRUE
  /\ UNCHANGED <<MainVars, stop>>

(* The console waits for a line ...                                        *)
ConsoleReads ==
  /\ thread["console"] = "running" /\ stop = 0
  /\ thread' = [thread EXCEPT !["console"] = "reading"]
  /\ UNCHANGED <<MainVars, errOut, stop, failed>>

(* ... which may be a 'q' (or stop for another reason).                    *)
ConsoleLine ==
  /\ thread["console"] = "reading"
  /\ thread' = [thread EXCEPT !["console"] = "running"]
  /\ stop' \in {stop, 1}
  /\ UNCHANGED <<MainVars, errOut, failed>>

(* SIGINT or SIGTERM, from the moment the handlers are installed.          *)
handle_sigint ==
  /\ phase \notin {"start", "exit"}
  /\ stop' = 1
  /\ UNCHANGED <<MainVars, thread, errOut, failed>>

----
(* main_cleanup *)

(* Mutant: main does not wait for the console thread.                      *)
JoinThreadButConsole ==
  LET t == ThreadOrder[step]
  IN /\ phase = "join"
     /\ t \in launched \ {"console"} => thread[t] = "ended"
     /\ lastErr' = (lastErr \/ t \in errOut)
     /\ Advance(ThreadOrder, "cleanup")
     /\ launched' = IF phase' = "cleanup" THEN {} ELSE launched
     /\ UNCHANGED <<inUse, thread, errOut, ret, stop, failed, pinStuck>>

(* Mutant: the error of a later thread replaces that of an earlier one.    *)
JoinThreadForgets ==
  LET t == ThreadOrder[step]
  IN /\ phase = "join"
     /\ is_thread_launched(launched, t) => thread[t] = "ended"
     /\ lastErr' = (t \in errOut)
     /\ Advance(ThreadOrder, "cleanup")
     /\ launched' = IF phase' = "cleanup" THEN {} ELSE launched
     /\ UNCHANGED <<inUse, thread, errOut, ret, stop, failed, pinStuck>>

(* pthread_join, which itself works, of the threads that were launched,    *)
(* and their err_out.  The flags are zeroed after the last one.            *)
JoinThread ==
  LET t == ThreadOrder[step]
  IN /\ phase = "join"
     /\ is_thread_launched(launched, t) => thread[t] = "ended"
     /\ lastErr' = (lastErr \/ t \in errOut)
     /\ Advance(ThreadOrder, "cleanup")
     /\ launched' = IF phase' = "cleanup" THEN {} ELSE launched
     /\ UNCHANGED <<inUse, thread, errOut, ret, stop, failed, pinStuck>>

(* A cleanup function clears in_use whether or not it fails, and is an     *)
(* error on a resource never initialised.  pin_io_cleanup overwrites the   *)
(* error of a pin that it cannot clear.                                    *)
CleanupResource ==
  LET r == CleanupOrder[step]
  IN /\ phase = "cleanup"
     /\ inUse' = inUse \ {r}
     /\ \/ lastErr' = (lastErr \/ r \notin inUse) /\ UNCHANGED <<failed, pinStuck>>
        \/ /\ r \in inUse \ {"pins"}
           /\ lastErr' = TRUE /\ failed' = TRUE /\ UNCHANGED pinStuck
        \/ /\ r \in inUse \intersect {"pins"}
           /\ pinStuck' = TRUE /\ UNCHANGED <<lastErr, failed>>
     /\ Advance(CleanupOrder, "exit")
     /\ ret' = IF phase' = "exit" /\ lastErr' THEN 1 ELSE ret
     /\ UNCHANGED <<launched, thread, errOut, stop>>

Main == LaunchThread \/ JoinThread \/ CleanupResource

Next == \/ install_handlers \/ InitResource \/ query_note_duration \/ Main
        \/ \E t \in Thread : ThreadEnds(t)
        \/ ConsoleReads \/ ConsoleLine \/ handle_sigint

Spec == Init /\ [][Next]_vars

(* Main and the threads run; the user owes no line of input, neither to    *)
(* the questions of main_init nor to the console.                          *)
FairSpec == Spec /\ WF_vars(Main) /\ \A t \in Thread : WF_vars(ThreadEnds(t))

----
(* Properties *)

(* Types; the launched flags are those of the threads that exist, from the *)
(* first launch until main zeroes them.                                    *)
TypeOK ==
  /\ phase \in {"start", "init", "ask", "launch", "join", "cleanup", "exit"}
  /\ step \in 1..5
  /\ inUse \subseteq Resource /\ launched \subseteq Thread
  /\ thread \in [Thread -> {"none", "running", "reading", "ended"}]
  /\ errOut \subseteq Reporting
  /\ lastErr \in BOOLEAN /\ ret \in {0, 1} /\ stop \in {0, 1}
  /\ failed \in BOOLEAN /\ pinStuck \in BOOLEAN
  /\ phase \notin {"cleanup", "exit"} =>
       \A t \in Thread : t \in launched <=> thread[t] # "none"

(* No thread runs without the resources main gave it: none is cleaned up   *)
(* under it, also when the launch of a later thread fails or a signal      *)
(* comes while main is still launching.                                    *)
ThreadsHaveResources ==
  \A t \in Thread : thread[t] \in {"running", "reading"} => Uses(t) \subseteq inUse

(* When main returns, every resource that was initialised is released and  *)
(* no thread is left, whichever step failed.                               *)
EverythingReleased ==
  phase = "exit" => inUse = {} /\ \A t \in Thread : thread[t] \in {"none", "ended"}

(* The exit code tells whether anything failed: an init step, a thread     *)
(* that says so, or a cleanup function, however many succeed after it.     *)
ExitCodeTells == phase = "exit" => (ret = 1 <=> failed)

(* A failed initialisation ends the program by itself: the threads already *)
(* launched stop, and the one that waits for input is not among them.      *)
InitFailureEnds == (phase = "join" /\ ret = 1) ~> phase = "exit"

(* main.c: main_cleanup "Returns the last error code received if any       *)
(* cleanup functionality fails".  A pin that cannot be cleared does not    *)
(* reach the exit code: pin_io_cleanup goes on to overwrite the error.     *)
StuckPinReported == phase = "exit" /\ pinStuck => ret = 1
====
